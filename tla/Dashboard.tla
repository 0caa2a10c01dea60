----------------------------- MODULE Dashboard -----------------------------
(***************************************************************************)
(* The polling of the Recharts dashboard (src/frontend/src/App.tsx).       *)
(*                                                                         *)
(* fetchData is an async closure: it reads isInitialLoad from the render  *)
(* that created it, raises loading or refreshing, awaits fetch(url), and  *)
(* when the answer arrives sets nodes or error and, in its finally block, *)
(* clears what it raised.  Three things start it: the effect on dataUrl   *)
(* (mount and every URL change), the interval installed by the effect on  *)
(* [dataUrl, refreshInterval], and the Refresh Now button.  Fetches run  *)
(* concurrently and complete in any order.                                *)
(*                                                                         *)
(* A fetch is known by what its closure captured: the URL and the         *)
(* isInitialLoad of its render.  Fetches in flight are counted per kind:  *)
(* two fetches with the same URL and flag are indistinguishable.  A      *)
(* state change and the effects it triggers are one step: the URL and    *)
(* interval inputs are discrete events, whose effects React flushes      *)
(* before the next event.                                                 *)
(***************************************************************************)
EXTENDS Naturals

CONSTANTS
    Urls,          \* the URLs the user may type into the Data URL input
    DefaultUrl,    \* DEFAULT_DATA_URL
    NoData,        \* the {} nodes holds before the first answer
    MaxInFlight,   \* bound on the fetches of one kind in flight at once
    MaxUrlChanges  \* bound on the edits of the Data URL input

ASSUME DashboardAssumption ==
    /\ DefaultUrl \in Urls
    /\ NoData \notin Urls
    /\ MaxInFlight \in Nat \ {0}
    /\ MaxUrlChanges \in Nat

(* What a fetchData closure captured: its URL and its render's isInitialLoad. *)
Fetch == [url : Urls, initial : BOOLEAN]

VARIABLES
    dataUrl,         \* the dataUrl state
    nodes,           \* the URL whose answer nodes holds, or NoData
    loading,         \* the loading state
    isInitialLoad,   \* the isInitialLoad state
    refreshing,      \* the refreshing state
    error,           \* error !== null
    timer,           \* the closure of the installed interval: the fetch it starts
    inflight,        \* fetches awaiting their answer, counted per kind
    urlChanges       \* edits of the URL input so far

vars == <<dataUrl, nodes, loading, isInitialLoad, refreshing, error, timer,
          inflight, urlChanges>>

(***************************************************************************)
(* The synchronous part of fetchData(url) in a closure whose render had   *)
(* isInitialLoad = initial: raise loading or refreshing, send the request. *)
(***************************************************************************)
StartFetch(url, initial) ==
    LET f == [url |-> url, initial |-> initial]
    IN  /\ inflight[f] < MaxInFlight
        /\ inflight' = [inflight EXCEPT ![f] = @ + 1]
        /\ loading' = (initial \/ loading)
        /\ refreshing' = (~initial \/ refreshing)

(***************************************************************************)
(* After the first render's commit: useState's initial values, and both    *)
(* effects have run: fetchData(DEFAULT_DATA_URL) has raised loading (the  *)
(* render's isInitialLoad is true) and the interval holds that closure.   *)
(***************************************************************************)
Init ==
    /\ dataUrl = DefaultUrl
    /\ nodes = NoData
    /\ loading = TRUE
    /\ isInitialLoad = TRUE
    /\ refreshing = FALSE
    /\ error = FALSE
    /\ timer = [url |-> DefaultUrl, initial |-> TRUE]
    /\ inflight = [f \in Fetch |-> IF f = [url |-> DefaultUrl, initial |-> TRUE]
                                   THEN 1 ELSE 0]
    /\ urlChanges = 0

(* The interval fires: fetchData(dataUrl) of the render that installed it. *)
Tick ==
    /\ StartFetch(timer.url, timer.initial)
    /\ UNCHANGED <<dataUrl, nodes, isInitialLoad, error, timer, urlChanges>>

(* Refresh Now: fetchData(dataUrl, true) of the current render.            *)
RefreshNow ==
    /\ StartFetch(dataUrl, isInitialLoad)
    /\ UNCHANGED <<dataUrl, nodes, isInitialLoad, error, timer, urlChanges>>

(* Mutant: the interval effect's dependency list without dataUrl.         *)
ChangeUrlKeepsTimer(u) ==
    /\ u # dataUrl
    /\ urlChanges < MaxUrlChanges
    /\ dataUrl' = u
    /\ StartFetch(u, isInitialLoad)
    /\ urlChanges' = urlChanges + 1
    /\ UNCHANGED <<nodes, isInitialLoad, error, timer>>

(***************************************************************************)
(* An edit of the Data URL input: setDataUrl, then the render's effects:  *)
(* fetchData(dataUrl), and the interval replaced by one holding this      *)
(* render's closure.                                                      *)
(***************************************************************************)
ChangeUrl(u) ==
    /\ u # dataUrl
    /\ urlChanges < MaxUrlChanges
    /\ dataUrl' = u
    /\ timer' = [url |-> u, initial |-> isInitialLoad]
    /\ StartFetch(u, isInitialLoad)
    /\ urlChanges' = urlChanges + 1
    /\ UNCHANGED <<nodes, isInitialLoad, error>>

(***************************************************************************)
(* An edit of the Refresh Interval input to a new value: the interval     *)
(* effect alone runs again and installs this render's closure.            *)
(***************************************************************************)
ChangeInterval ==
    /\ timer' = [url |-> dataUrl, initial |-> isInitialLoad]
    /\ UNCHANGED <<dataUrl, nodes, loading, isInitialLoad, refreshing, error,
                   inflight, urlChanges>>

(* Mutant: setRefreshing(false) inside the if (isInitialLoad) block.       *)
CompleteRefreshingInInitialOnly(f, ok) ==
    /\ inflight[f] > 0
    /\ inflight' = [inflight EXCEPT ![f] = @ - 1]
    /\ nodes' = IF ok THEN f.url ELSE nodes
    /\ error' = ~ok
    /\ loading' = (loading /\ ~f.initial)
    /\ isInitialLoad' = (isInitialLoad /\ ~f.initial)
    /\ refreshing' = (refreshing /\ ~f.initial)
    /\ UNCHANGED <<dataUrl, timer, urlChanges>>

(* Mutant: setLoading(false) in the try block instead of finally.          *)
CompleteLoadingOnSuccessOnly(f, ok) ==
    /\ inflight[f] > 0
    /\ inflight' = [inflight EXCEPT ![f] = @ - 1]
    /\ nodes' = IF ok THEN f.url ELSE nodes
    /\ error' = ~ok
    /\ loading' = (loading /\ ~(f.initial /\ ok))
    /\ isInitialLoad' = (isInitialLoad /\ ~f.initial)
    /\ refreshing' = FALSE
    /\ UNCHANGED <<dataUrl, timer, urlChanges>>

(***************************************************************************)
(* The answer to fetch f arrives: ok (setNodes(data), setError(null)) or  *)
(* a network error, a non-2xx status or bad JSON (setError(message));     *)
(* then the finally block, with the closure's isInitialLoad.              *)
(***************************************************************************)
Complete(f, ok) ==
    /\ inflight[f] > 0
    /\ inflight' = [inflight EXCEPT ![f] = @ - 1]
    /\ nodes' = IF ok THEN f.url ELSE nodes
    /\ error' = ~ok
    /\ loading' = (loading /\ ~f.initial)
    /\ isInitialLoad' = (isInitialLoad /\ ~f.initial)
    /\ refreshing' = FALSE
    /\ UNCHANGED <<dataUrl, timer, urlChanges>>

Next ==
    \/ Tick
    \/ RefreshNow
    \/ \E u \in Urls : ChangeUrl(u)
    \/ ChangeInterval
    \/ \E f \in Fetch, ok \in BOOLEAN : Complete(f, ok)

(***************************************************************************)
(* Fairness: the browser settles every fetch (an answer or a network      *)
(* error), and setInterval keeps firing while the page is open.  The user *)
(* owes nothing: edits and clicks are not fair.                           *)
(***************************************************************************)
Fairness ==
    /\ \A f \in Fetch : WF_vars(\E ok \in BOOLEAN : Complete(f, ok))
    /\ WF_vars(Tick)

Spec == Init /\ [][Next]_vars /\ Fairness

-----------------------------------------------------------------------------
(***************************************************************************)
(*                              PROPERTIES                                 *)
(***************************************************************************)
TypeOK ==
    /\ dataUrl \in Urls
    /\ nodes \in Urls \cup {NoData}
    /\ loading \in BOOLEAN
    /\ isInitialLoad \in BOOLEAN
    /\ refreshing \in BOOLEAN
    /\ error \in BOOLEAN
    /\ timer \in Fetch
    /\ inflight \in [Fetch -> 0..MaxInFlight]
    /\ urlChanges \in 0..MaxUrlChanges

(* The render shows the chart: {!loading && !error && ...}.                *)
ChartShown == ~loading /\ ~error

Idle == \A f \in Fetch : inflight[f] = 0

(***************************************************************************)
(* The Loading... screen and the Refreshing... label are never left up by *)
(* a fetch that has settled: while loading is set some fetch of an        *)
(* initial-load closure is in flight, and while refreshing is set some    *)
(* fetch of a refresh closure is, whatever order the answers come in.     *)
(***************************************************************************)
SpinnerBackedByFetch ==
    /\ loading => \E f \in Fetch : f.initial /\ inflight[f] > 0
    /\ refreshing => \E f \in Fetch : ~f.initial /\ inflight[f] > 0

(***************************************************************************)
(* The Loading... screen always goes away again: every fetch's finally    *)
(* block clears what its closure raised.                                  *)
(***************************************************************************)
LoadingEventuallyClears == loading ~> ~loading

(***************************************************************************)
(* Once the user has stopped editing the URL, the dashboard ends up never *)
(* showing a chart of another URL's data: the interval is re-installed   *)
(* with the new URL and its answers overwrite any late stale one.         *)
(***************************************************************************)
DisplayConvergesToUrl == <>[](ChartShown /\ nodes # NoData => nodes = dataUrl)

(***************************************************************************)
(* The comment on the dataUrl effect: the data shown is fetched for the   *)
(* current URL.  When no fetch is pending, a chart on screen is of        *)
(* dataUrl's data.                                                        *)
(***************************************************************************)
StaleDataNeverShown ==
    Idle /\ ChartShown /\ nodes # NoData => nodes = dataUrl

(***************************************************************************)
(* isInitialLoad separates the first load (Loading..., chart hidden) from *)
(* refreshes (Refreshing..., chart kept): after the first load has ended, *)
(* the Loading... screen never comes back.                                *)
(***************************************************************************)
RefreshKeepsChart == ~isInitialLoad => ~loading

-----------------------------------------------------------------------------
(***************************************************************************)
(* Refinement: the requests in flight for a URL, whatever closure sent    *)
(* them, are the abstract pending requests for it.                         *)
(***************************************************************************)
Pending == [u \in Urls |-> inflight[[url |-> u, initial |-> TRUE]]
                           + inflight[[url |-> u, initial |-> FALSE]]]

Abs == INSTANCE PollingAbstract WITH pending <- Pending

(***************************************************************************)
(* The polling implements PollingAbstract: every fetch the interval, the  *)
(* button or a URL edit starts is for the URL in the input, and what the  *)
(* chart holds is the answer of a fetch that settled.  Closures, spinners *)
(* and the interval's bookkeeping are invisible at that level.            *)
(***************************************************************************)
ImplementsPolling == Abs!ASpec

=============================================================================
