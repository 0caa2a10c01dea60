--------------------------- MODULE PollingAbstract ---------------------------
(***************************************************************************)
(* What the Recharts dashboard's polling promises, whatever its closures  *)
(* and indicators do: requests are only ever made for the URL in the     *)
(* input, each settles at most once, and the data on screen is the answer *)
(* of a request that settled.  Answers settle in any order.  This is the  *)
(* specification Dashboard is shown to implement.                         *)
(***************************************************************************)
EXTENDS Naturals

CONSTANTS Urls, DefaultUrl, NoData

VARIABLES
    dataUrl,   \* the URL in the Data URL input
    nodes,     \* the URL whose answer is on screen, or NoData
    error,     \* the last settled request failed
    pending    \* requests awaiting their answer, counted per URL

avars == <<dataUrl, nodes, error, pending>>

(* The page is mounted: one request for the default URL is out.           *)
AInit ==
    /\ dataUrl = DefaultUrl
    /\ nodes = NoData
    /\ error = FALSE
    /\ pending = [u \in Urls |-> IF u = DefaultUrl THEN 1 ELSE 0]

(* A request for the current URL: the interval or Refresh Now.             *)
Request ==
    /\ pending' = [pending EXCEPT ![dataUrl] = @ + 1]
    /\ UNCHANGED <<dataUrl, nodes, error>>

(* The user types URL u; a request for it goes out.                        *)
Edit(u) ==
    /\ dataUrl' = u
    /\ pending' = [pending EXCEPT ![u] = @ + 1]
    /\ UNCHANGED <<nodes, error>>

(* A request for u settles, with its data or with an error.                *)
Settle(u, ok) ==
    /\ pending[u] > 0
    /\ pending' = [pending EXCEPT ![u] = @ - 1]
    /\ nodes' = IF ok THEN u ELSE nodes
    /\ error' = ~ok
    /\ UNCHANGED dataUrl

ANext ==
    \/ Request
    \/ \E u \in Urls : Edit(u)
    \/ \E u \in Urls, ok \in BOOLEAN : Settle(u, ok)

ASpec == AInit /\ [][ANext]_avars

=============================================================================
