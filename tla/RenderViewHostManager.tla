----------------------- MODULE RenderViewHostManager -----------------------
(***************************************************************************)
(* How a tab moves from the renderer of one site to the renderer of        *)
(* another: RenderViewHostManager and the part of RenderViewHost that runs *)
(* the beforeunload and unload handlers of the old page (UI thread), the   *)
(* CrossSiteResourceHandler that holds back the response meanwhile (IO     *)
(* thread), and the hang monitor of RenderWidgetHost.                      *)
(*                                                                         *)
(* The three threads of control talk through queues: toR[h] to the         *)
(* renderer of host h, ui and io to the two browser threads.  A renderer's *)
(* message and its reception by the IO thread are one step, since nothing  *)
(* can be seen of the message between them.                                *)
(*                                                                         *)
(* Hosts and navigations are numbered as they are made.  A scenario bounds *)
(* the navigations and the other events of the environment (closing the    *)
(* tab, input), and says which events of the environment happen at all.    *)
(***************************************************************************)
EXTENDS Naturals, Sequences, FiniteSets

CONSTANTS
  MaxHosts,   \* bound: hosts ever created
  Scenarios   \* bound: what the environment may do, see scenario

ASSUME BoundsAssumption ==
  /\ MaxHosts \in Nat \ {0}
  /\ \A s \in Scenarios :
       /\ s.navs \in Nat /\ s.extras \in Nat
       /\ s.env \subseteq {"close", "crash", "input", "blank", "empty", "click", "hang"}

VARIABLES
  cur,      \* render_view_host_
  pend,     \* pending_render_view_host_, or None
  cross,    \* cross_navigation_pending_
  host,     \* the fields of each RenderViewHost
  rlive,    \* the renderers that run
  toR,      \* messages on their way to the renderer of each host
  ui, io,   \* tasks posted to the UI and to the IO thread
  req,      \* the main-frame request of each navigation, on the IO thread
  made,     \* hosts created so far
  navs,     \* navigations so far
  wanted,   \* the user's latest navigation
  shown,    \* the navigation the tab shows, for the browser
  released, \* navigations the old page's unload handler has made way for
  extras,   \* other events so far
  asked,    \* the user has asked to close the tab
  closed,   \* the tab has closed
  scenario  \* chosen at the start and kept

vars == <<cur, pend, cross, host, rlive, toR, ui, io, req, made, navs, wanted,
          shown, released, extras, asked, closed, scenario>>

Env == scenario.env           \* the events of the environment that may happen
MaxNavs == scenario.navs      \* navigations, of the user and of pages
MaxExtras == scenario.extras  \* clicks on the close button and input events

None == 0
Hosts == 1..MaxHosts
Navs == 1..MaxNavs

NewHost == [exists |-> TRUE, live |-> TRUE, waitBU |-> FALSE,
            waitUnload |-> FALSE, ackCross |-> FALSE, suspended |-> FALSE,
            held |-> None, reqId |-> None, timer |-> FALSE, hasCross |-> FALSE]

NoHost == [NewHost EXCEPT !.exists = FALSE, !.live = FALSE]

NoReq == [state |-> "none", host |-> None, kind |-> "page", handler |-> FALSE]

Kinds == {"page"} \cup (Env \cap {"blank", "empty"})

Init ==
  /\ scenario \in Scenarios
  /\ cur = 1 /\ pend = None /\ cross = FALSE
  /\ host = [h \in Hosts |-> IF h = 1 THEN NewHost ELSE NoHost]
  /\ rlive = {1}
  /\ toR = [h \in Hosts |-> <<>>]
  /\ ui = <<>> /\ io = <<>>
  /\ req = [n \in Navs |-> NoReq]
  /\ made = 1 /\ navs = 0 /\ wanted = 0 /\ shown = 0
  /\ released = {} /\ extras = 0
  /\ asked = FALSE /\ closed = FALSE
----------------------------------------------------------------------------
(***************************************************************************)
(* The handlers of the UI thread call one another, so each is written as a *)
(* function from a state of that thread to the next: S is a record of the  *)
(* variables the thread writes.                                            *)
(***************************************************************************)
Browser == [cur |-> cur, pend |-> pend, cross |-> cross, host |-> host,
            rlive |-> rlive, toR |-> toR, io |-> io, shown |-> shown,
            released |-> released, closed |-> closed]

Become(S) ==
  /\ cur' = S.cur /\ pend' = S.pend /\ cross' = S.cross /\ host' = S.host
  /\ rlive' = S.rlive /\ toR' = S.toR /\ io' = S.io /\ shown' = S.shown
  /\ released' = S.released /\ closed' = S.closed

\* A message to a renderer that has died is lost.
SendTo(S, h, m) ==
  IF h \in S.rlive THEN [S EXCEPT !.toR[h] = Append(@, m)] ELSE S

PostIO(S, task) == [S EXCEPT !.io = Append(@, task)]

\* RenderViewHost::Shutdown, its destructor, and RenderProcessHost::Release,
\* which has the IO thread cancel the requests of the view.
Shutdown(S, h) ==
  PostIO([SendTo(S, h, [t |-> "Close"]) EXCEPT !.host[h] = NoHost],
         [t |-> "CancelRequests", host |-> h])

CancelPending(S) == [Shutdown(S, S.pend) EXCEPT !.pend = None, !.cross = FALSE]

CommitPending(S) ==
  [Shutdown([S EXCEPT !.cur = S.pend, !.pend = None], S.cur)
     EXCEPT !.cross = FALSE]

SetNavigationsSuspended(S, h, suspend) ==
  LET S1 == [S EXCEPT !.host[h].suspended = suspend]
  IN IF ~suspend /\ S.host[h].held # None
     THEN SendTo([S1 EXCEPT !.host[h].held = None], h,
                 [t |-> "Navigate", nav |-> S.host[h].held])
     ELSE S1

\* TabContents::Close, from OnClosePageACK or the hang monitor.
Close(S, h) ==
  LET S1 == [S EXCEPT !.host[h].timer = FALSE, !.host[h].waitBU = FALSE,
                      !.host[h].waitUnload = FALSE]
  IN IF h = S.cur THEN [S1 EXCEPT !.closed = TRUE] ELSE S1

\* Fault: a page that still owes an answer is not asked again.
ClosePageOnce(S, h, forCross, nav) ==
  LET S1 == [S EXCEPT !.host[h].waitUnload = TRUE, !.host[h].timer = TRUE]
  IN IF S.host[h].waitUnload THEN S1
     ELSE SendTo(S1, h, [t |-> "ClosePage", cross |-> forCross, nav |-> nav])

\* RenderViewHost::ClosePage: the renderer answers to the IO thread.
ClosePage(S, h, forCross, nav) ==
  LET ack == [t |-> "ClosePageACK", host |-> h, cross |-> forCross, nav |-> nav]
      S1 == [S EXCEPT !.host[h].waitUnload = TRUE, !.host[h].timer = TRUE]
  IN IF S.host[h].live
     THEN SendTo(S1, h, [t |-> "ClosePage", cross |-> forCross, nav |-> nav])
     ELSE PostIO([S1 EXCEPT !.released = @ \cup {nav}], ack)

ShouldClosePage(S, forCross, proceed) ==
  IF forCross
  THEN IF ~S.cross THEN S
       ELSE IF proceed
       THEN IF S.host[S.pend].suspended
            THEN SetNavigationsSuspended(S, S.pend, FALSE)
            ELSE S
       ELSE CancelPending(S)
  ELSE IF proceed THEN ClosePage(S, S.cur, FALSE, None) ELSE S

OnMsgShouldCloseACK(S, h, proceed) ==
  LET S1 == [S EXCEPT !.host[h].timer = FALSE, !.host[h].waitBU = FALSE]
  IN IF S.host[h].waitBU
     THEN ShouldClosePage(S1, S.host[h].ackCross, proceed)
     ELSE S1

FirePageBeforeUnload(S, h, forCross) ==
  CASE ~S.host[h].live ->
         OnMsgShouldCloseACK([S EXCEPT !.host[h].waitBU = TRUE,
                                       !.host[h].ackCross = forCross], h, TRUE)
    [] S.host[h].live /\ S.host[h].waitBU ->
         [S EXCEPT !.host[h].ackCross = @ /\ forCross]
    [] OTHER ->
         SendTo([S EXCEPT !.host[h].waitBU = TRUE, !.host[h].timer = TRUE,
                          !.host[h].ackCross = forCross], h, [t |-> "ShouldClose"])

\* RenderViewHost::Navigate.
SendNavigate(S, h, nav) ==
  IF S.host[h].suspended
  THEN [S EXCEPT !.host[h].held = nav]
  ELSE SendTo([S EXCEPT !.host[h].waitUnload = FALSE], h,
              [t |-> "Navigate", nav |-> nav])

----------------------------------------------------------------------------
(***************************************************************************)
(* UpdateRendererStateForNavigate and RenderViewHostManager::Navigate, up  *)
(* to the message of TabContents::NavigateToEntry.                         *)
(***************************************************************************)
DropEarlier(S) == IF S.cross THEN CancelPending(S) ELSE S

CreateHost(S, h) ==
  [S EXCEPT !.host[h] = NewHost, !.rlive = @ \cup {h}, !.pend = h,
            !.toR[h] = <<>>]

BeginTransition(S) ==
  LET S1 == SendTo(S, S.cur, [t |-> "Stop"])
      S2 == [SetNavigationsSuspended(S1, S.pend, TRUE)
               EXCEPT !.host[S.pend].hasCross = TRUE,
                      !.host[S.pend].reqId = None, !.cross = TRUE]
  IN FirePageBeforeUnload(S2, S.cur, TRUE)

\* The user's navigation to another site, in a new SiteInstance.
NavigateAway(kind) ==
  /\ ~closed /\ navs < MaxNavs /\ made < MaxHosts
  /\ LET n == navs + 1
         S == CreateHost(DropEarlier(Browser), made + 1)
         T == IF host[cur].live THEN BeginTransition(S) ELSE CommitPending(S)
     IN /\ Become(SendNavigate(T, made + 1, n))
        /\ made' = made + 1
        /\ navs' = n /\ wanted' = n
        /\ req' = [req EXCEPT ![n].kind = kind]
  /\ UNCHANGED <<ui, extras, asked>>

\* A renderer that has gone is created anew: RenderViewHostManager::Navigate.
InitRenderView(S) ==
  IF S.host[S.cur].live THEN S
  ELSE [S EXCEPT !.host[S.cur].live = TRUE, !.rlive = @ \cup {S.cur},
                 !.toR[S.cur] = <<>>]

\* The user's navigation within the site.
NavigateWithin(kind) ==
  /\ ~closed /\ navs < MaxNavs
  /\ LET n == navs + 1
     IN /\ Become(SendNavigate(InitRenderView(DropEarlier(Browser)), cur, n))
        /\ navs' = n /\ wanted' = n
        /\ req' = [req EXCEPT ![n].kind = kind]
  /\ UNCHANGED <<ui, made, extras, asked>>

\* The close button of the tab: TabStripModel has the page asked first.
CloseTab ==
  /\ "close" \in Env /\ ~closed /\ extras < MaxExtras
  /\ extras' = extras + 1 /\ asked' = TRUE
  /\ Become(FirePageBeforeUnload(Browser, cur, FALSE))
  /\ UNCHANGED <<ui, req, made, navs, wanted>>

\* RenderWidgetHost::ForwardInputEvent starts the hang monitor unless it runs.
ForwardInputEvent ==
  /\ "input" \in Env /\ ~closed /\ extras < MaxExtras /\ host[cur].live
  /\ extras' = extras + 1
  /\ Become(SendTo([Browser EXCEPT !.host[cur].timer = TRUE], cur,
                   [t |-> "Input"]))
  /\ UNCHANGED <<ui, req, made, navs, wanted, asked>>

----------------------------------------------------------------------------
(***************************************************************************)
(* Messages and tasks that reach the UI thread.                            *)
(***************************************************************************)
DidNavigateMainFrame(S, h) ==
  IF ~S.cross THEN S
  ELSE IF h = S.pend THEN CommitPending(S) ELSE CancelPending(S)

OnMsgNavigate(S, h, nav) ==
  IF S.host[h].waitBU /\ S.host[h].ackCross
  THEN OnMsgShouldCloseACK(S, h, TRUE)
  ELSE IF S.host[h].waitUnload THEN S
  ELSE [DidNavigateMainFrame(S, h) EXCEPT !.shown = nav]

\* Fault: the response of a navigation runs no unload handler.
OnCrossSiteResponseLax(S, h, nav) ==
  IF ~S.cross THEN S
  ELSE [PostIO(S, [t |-> "ClosePageACK", host |-> S.cur, cross |-> TRUE,
                   nav |-> nav])
          EXCEPT !.host[S.pend].hasCross = FALSE, !.host[S.pend].reqId = nav]

OnCrossSiteResponse(S, h, nav) ==
  IF ~S.cross THEN S
  ELSE [ClosePage(S, S.cur, TRUE, nav)
          EXCEPT !.host[S.pend].hasCross = FALSE, !.host[S.pend].reqId = nav]

OnClosePageACK(S, h, forCross) ==
  LET S1 == [S EXCEPT !.host[h].timer = FALSE, !.host[h].waitUnload = FALSE]
  IN IF forCross THEN S1 ELSE Close(S1, h)

\* What the task at the head of the UI thread's queue does.  A task for a host
\* that has gone is dropped.
Handle(S, m) ==
  CASE ~S.host[m.host].exists -> S
    [] OTHER ->
       CASE m.t = "ShouldCloseACK" -> OnMsgShouldCloseACK(S, m.host, m.proceed)
         [] m.t = "Navigated" -> OnMsgNavigate(S, m.host, m.nav)
         [] m.t = "CrossSiteResponse" -> OnCrossSiteResponse(S, m.host, m.nav)
         [] m.t = "ClosePageACK" -> OnClosePageACK(S, m.host, m.cross)
         [] m.t = "InputACK" -> [S EXCEPT !.host[m.host].timer = FALSE]
         [] m.t = "Gone" -> [S EXCEPT !.host[m.host].live = FALSE]

OnUiTask ==
  /\ ~closed /\ ui # <<>>
  /\ ui' = Tail(ui)
  /\ Become(Handle(Browser, Head(ui)))
  /\ UNCHANGED <<req, made, navs, wanted, extras, asked>>

\* RenderViewHostManager::ShouldCloseTabOnUnresponsiveRenderer, when the hang
\* monitor finds a page still in its beforeunload or unload handler.
ShouldCloseTabOnUnresponsiveRenderer(S, h) ==
  IF ~S.cross THEN Close(S, h)
  ELSE LET p == S.host[S.pend] IN
    CASE p.reqId = None /\ p.suspended ->
           SetNavigationsSuspended(S, S.pend, FALSE)
      [] p.reqId = None /\ ~p.suspended -> S
      [] OTHER ->
           PostIO(S, [t |-> "ClosePageACK", host |-> S.cur, cross |-> TRUE,
                      nav |-> p.reqId])

CheckRendererIsUnresponsive(h) ==
  /\ "hang" \in Env /\ ~closed /\ host[h].exists /\ host[h].timer
  /\ LET S == [Browser EXCEPT !.host[h].timer = FALSE]
     IN Become(IF host[h].waitBU \/ host[h].waitUnload
               THEN ShouldCloseTabOnUnresponsiveRenderer(
                      IF host[h].waitUnload /\ pend # None
                      THEN [S EXCEPT !.released = @ \cup {host[pend].reqId}]
                      ELSE S, h)
               ELSE S)
  /\ UNCHANGED <<ui, req, made, navs, wanted, extras, asked>>

----------------------------------------------------------------------------
(***************************************************************************)
(* The renderers, and the requests they make.                              *)
(***************************************************************************)
PostUI(m) == ui' = Append(ui, m)

\* Requests of a renderer end with the load they were made for.
Ended(r, h) == [n \in Navs |-> IF r[n].host = h /\ r[n].state # "none"
                               THEN [r[n] EXCEPT !.state = "done"] ELSE r[n]]

\* ResourceDispatcherHost::BeginRequest: the handler is chosen by what the
\* CrossSiteRequestManager says now.
BeginRequest(n, h) ==
  req' = [Ended(req, h) EXCEPT ![n].state = "started", ![n].host = h,
                               ![n].handler = host[h].hasCross]

Commit(h, n) == PostUI([t |-> "Navigated", host |-> h, nav |-> n])

Unload(h, m) ==
  /\ io' = Append(io, [t |-> "ClosePageACK", host |-> h, cross |-> m.cross,
                       nav |-> m.nav])
  /\ released' = released \cup {m.nav}

RendererStep(h) ==
  /\ h \in rlive /\ toR[h] # <<>>
  /\ toR' = [toR EXCEPT ![h] = Tail(@)]
  /\ LET m == Head(toR[h]) IN
     \/ m.t = "Stop" /\ req' = Ended(req, h) /\ UNCHANGED <<rlive, ui, io, released>>
     \/ m.t = "Close" /\ req' = Ended(req, h) /\ rlive' = rlive \ {h}
        /\ UNCHANGED <<ui, io, released>>
     \/ /\ m.t = "ShouldClose"
        /\ \E proceed \in BOOLEAN :
             PostUI([t |-> "ShouldCloseACK", host |-> h, proceed |-> proceed])
        /\ UNCHANGED <<rlive, req, io, released>>
     \/ m.t = "ClosePage" /\ Unload(h, m) /\ UNCHANGED <<rlive, req, ui>>
     \/ m.t = "Input" /\ PostUI([t |-> "InputACK", host |-> h])
        /\ UNCHANGED <<rlive, req, io, released>>
     \/ /\ m.t = "Navigate" /\ req[m.nav].kind # "blank"
        /\ BeginRequest(m.nav, h)
        /\ UNCHANGED <<rlive, ui, io, released>>
     \/ /\ m.t = "Navigate" /\ req[m.nav].kind = "blank"
        /\ req' = Ended(req, h) /\ Commit(h, m.nav)
        /\ UNCHANGED <<rlive, io, released>>
  /\ UNCHANGED <<cur, pend, cross, host, made, navs, wanted, shown, extras, asked,
                 closed>>

\* A page navigates its own frame, by a link or a script.
ClickLink(h) ==
  /\ "click" \in Env /\ h \in rlive /\ h = cur /\ navs < MaxNavs
  /\ navs' = navs + 1
  /\ BeginRequest(navs + 1, h)
  /\ UNCHANGED <<cur, pend, cross, host, rlive, toR, ui, io, made, wanted, shown, released,
                 extras, asked, closed>>

\* The process of a renderer dies; the UI thread hears of it later.
Crash(h) ==
  /\ "crash" \in Env /\ h \in rlive /\ host[h].exists
  /\ rlive' = rlive \ {h} /\ toR' = [toR EXCEPT ![h] = <<>>]
  /\ req' = Ended(req, h)
  /\ PostUI([t |-> "Gone", host |-> h])
  /\ UNCHANGED <<cur, pend, cross, host, io, made, navs, wanted, shown, released,
                 extras, asked, closed>>

----------------------------------------------------------------------------
(***************************************************************************)
(* The IO thread.                                                          *)
(***************************************************************************)
\* OnResponseStarted of the handler, or OnResponseCompleted after an error: a
\* download and a 204 pass; anything else is held back and the tab is told.
ResponseStarts(n) ==
  /\ req[n].state = "started" /\ req[n].host \in rlive
  /\ \/ /\ req[n].kind = "empty"
        /\ req' = [req EXCEPT ![n].state = "done"]
        /\ UNCHANGED ui
     \/ /\ req[n].kind # "empty" /\ req[n].handler
        /\ req' = [req EXCEPT ![n].state = "paused"]
        /\ PostUI([t |-> "CrossSiteResponse", host |-> req[n].host, nav |-> n])
     \/ /\ req[n].kind # "empty" /\ ~req[n].handler
        /\ req' = [req EXCEPT ![n].state = "done"]
        /\ Commit(req[n].host, n)
  /\ UNCHANGED <<cur, pend, cross, host, rlive, toR, io, made, navs, wanted, shown,
                 released, extras, asked, closed>>

\* CrossSiteResourceHandler::ResumeResponse, if the request is still there.
ResumeResponse(n) ==
  IF n # None /\ req[n].state = "paused"
  THEN [req EXCEPT ![n].state = "started", ![n].handler = FALSE]
  ELSE req

OnIoTask ==
  /\ io # <<>> /\ io' = Tail(io)
  /\ LET m == Head(io) IN
     \/ /\ m.t = "ClosePageACK"
        /\ req' = ResumeResponse(m.nav)
        /\ PostUI([t |-> "ClosePageACK", host |-> m.host, cross |-> m.cross])
     \/ /\ m.t = "CancelRequests"
        /\ req' = Ended(req, m.host)
        /\ UNCHANGED ui
  /\ UNCHANGED <<cur, pend, cross, host, rlive, toR, made, navs, wanted, shown, released,
                 extras, asked, closed>>

Step ==
  \/ \E kind \in Kinds : NavigateAway(kind) \/ NavigateWithin(kind)
  \/ CloseTab \/ ForwardInputEvent
  \/ OnUiTask \/ OnIoTask
  \/ \E h \in Hosts : \/ CheckRendererIsUnresponsive(h) \/ RendererStep(h)
                      \/ ClickLink(h) \/ Crash(h)
  \/ \E n \in Navs : ResponseStarts(n)

Next == Step /\ UNCHANGED scenario

Spec == Init /\ [][Next]_vars

----------------------------------------------------------------------------
(***************************************************************************)
(* Properties.                                                             *)
(***************************************************************************)
\* Every message, task and field has the shape the handlers rely on; only a
\* host that exists is current or pending.
TypeOK ==
  /\ cur \in Hosts /\ pend \in Hosts \cup {None} /\ cross \in BOOLEAN
  /\ host \in [Hosts -> [exists : BOOLEAN, live : BOOLEAN, waitBU : BOOLEAN,
                        waitUnload : BOOLEAN, ackCross : BOOLEAN,
                        suspended : BOOLEAN, held : Navs \cup {None},
                        reqId : Navs \cup {None}, timer : BOOLEAN,
                        hasCross : BOOLEAN]]
  /\ rlive \subseteq Hosts /\ released \subseteq Navs \cup {None}
  /\ \A h \in Hosts : \A i \in 1..Len(toR[h]) :
       toR[h][i].t \in {"Stop", "Close", "ShouldClose", "ClosePage", "Input",
                       "Navigate"}
  /\ \A i \in 1..Len(ui) : ui[i].host \in Hosts
  /\ \A i \in 1..Len(io) : io[i].t \in {"ClosePageACK", "CancelRequests"}
  /\ \A n \in Navs :
       /\ req[n].state \in {"none", "started", "paused", "done"}
       /\ req[n].host \in Hosts \cup {None} /\ req[n].handler \in BOOLEAN
  /\ made \in Hosts /\ navs \in 0..MaxNavs /\ wanted \in 0..navs
  /\ shown \in 0..navs /\ extras \in 0..MaxExtras
  /\ asked \in BOOLEAN /\ closed \in BOOLEAN

\* The tab has its current host and, during a cross-site navigation only, one
\* more: DidNavigateMainFrame counts on hearing from no other, and each host
\* given up keeps no renderer that could still report to the tab.
HostsAreKnown ==
  /\ {h \in Hosts : host[h].exists} = {cur, pend} \ {None}
  /\ cross <=> pend # None

Queued(h, t) == \E i \in 1..Len(toR[h]) : toR[h][i].t = t
Posted(h, t) == \E i \in 1..Len(ui) : ui[i].t = t /\ ui[i].host = h

\* A pending renderer is suspended only until the old page's beforeunload
\* handler is heard of: the question or the answer is on its way, or the hang
\* monitor will speak for the page (UpdateRendererStateForNavigate).
SuspendedHasAnswer ==
  (~closed /\ pend # None /\ host[pend].suspended) =>
    \/ cur \in rlive /\ Queued(cur, "ShouldClose")
    \/ Posted(cur, "ShouldCloseACK")
    \/ host[cur].timer

Releases(m, n) == m.t = "ClosePageACK" /\ m.nav = n

\* A response held back for the unload handler is released by someone: the tab
\* is about to be told of it, the old page or its acknowledgement is on the
\* way, the hang monitor runs, or the request is about to be cancelled.
PausedHasResumer ==
  \A n \in Navs : (~closed /\ req[n].state = "paused") =>
    \/ \E i \in 1..Len(ui) : ui[i].t = "CrossSiteResponse" /\ ui[i].nav = n
    \/ \E h \in rlive : \E i \in 1..Len(toR[h]) :
         \/ toR[h][i].t = "ClosePage" /\ toR[h][i].nav = n
         \/ toR[h][i].t \in {"Stop", "Close"} /\ h = req[n].host
    \/ \E i \in 1..Len(io) : \/ Releases(io[i], n)
                             \/ /\ io[i].t = "CancelRequests"
                                /\ io[i].host = req[n].host
    \/ pend = req[n].host /\ host[pend].reqId = n /\ host[cur].timer

\* A pending renderer is swapped in only once the unload handler of the page it
\* replaces has run for this very navigation, unless the renderer has died or
\* the hang monitor gave it up: "Wrap the event handler to be sure the current
\* page's onunload handler has a chance to run before we render the new page"
\* (ResourceDispatcherHost::BeginRequest).
UnloadRan ==
  cur' # cur => ~host[cur].live \/ Head(ui).nav \in released

UnloadRunsFirst == [][UnloadRan]_vars

NavigatedHead == ui # <<>> /\ Head(ui).t = "Navigated" /\ ui' = Tail(ui)

\* The commit of the navigation the user asked for last is never mistaken for
\* an answer to an earlier question, nor ignored (OnMsgNavigate).
CommitCounts ==
  NavigatedHead /\ Head(ui).nav = wanted /\ host[Head(ui).host].exists
    => shown' = wanted

LatestCommitCounts == [][CommitCounts]_vars

Without(events) == Env \cap events = {}

\* The tab knows its hosts, and nobody waits in vain.  What a renderer that dies, a
\* click on the close button and about:blank do to the second is in the README.
CrossSiteInv ==
  /\ TypeOK
  /\ HostsAreKnown
  /\ Without({"close", "crash"}) => SuspendedHasAnswer
  /\ Without({"blank", "crash"}) => PausedHasResumer

\* Renderers are swapped in their turn: the unload handler first, and for the page
\* that the user asked for last.
SwapsInTurn ==
  [][/\ Without({"blank"}) => UnloadRan
     /\ Without({"close", "crash"}) => CommitCounts]_vars

\* While the renderer has a beforeunload or unload handler to run, the hang
\* monitor watches it, unless it has spoken: "Start the hang monitor in case
\* the renderer hangs in the beforeunload handler" (FirePageBeforeUnload).
HangIsWatched ==
  (~closed /\ pend # None /\ host[pend].suspended /\ Queued(cur, "ShouldClose"))
    => host[cur].timer

\* "there's a danger that the beforeunload handler will later finish and
\* possibly return false ..., but we'll ignore it in this case because it took
\* too long" (ShouldCloseTabOnUnresponsiveRenderer).
LateAnswerIgnored ==
  [][(ui # <<>> /\ ui' = Tail(ui) /\ Head(ui).t = "ShouldCloseACK" /\ pend # None)
       => (host[pend].suspended \/ pend' = pend)]_vars

\* The hang monitor closes no tab the user has not asked to close: Navigate
\* unsets the wait for the unload answer since "otherwise if true and the hang
\* monitor fires we'll incorrectly close the tab".
ClosesOnlyIfAsked == closed => asked

\* A page asked to let its tab close that hangs in its handler is closed: "we
\* always want to think it's for closing the tab if any of the messages were,
\* since otherwise it might be impossible to close" (FirePageBeforeUnload).
HungCloseCloses ==
  [][(host[cur].timer /\ ~host'[cur].timer /\ UNCHANGED <<ui, io, req, cur>>
      /\ host[cur].waitBU /\ ~host[cur].ackCross) => closed']_vars

============================================================================
