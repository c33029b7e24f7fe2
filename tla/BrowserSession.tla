--------------------------- MODULE BrowserSession ---------------------------
(***************************************************************************)
(* What a page makes of the requests of RefreshTokens: the auth store, the *)
(* guards of the routes, and the navigation of login and logout.           *)
(*                                                                         *)
(* A page is "work" if RequireAuth and RequireRole guard it, else          *)
(* "landing", which has the login form whoever is logged in.  Where login  *)
(* leads, to the page that was asked for or the dashboard, is one "work".  *)
(* A page that is loaded anew hears nothing of the requests before it,     *)
(* although their cookies come.                                            *)
(***************************************************************************)
EXTENDS RefreshTokens

CONSTANT Organizer      \* whether the user's role is one of organizerRoles

ASSUME OrganizerAssumption == Organizer \in BOOLEAN

VARIABLES
  status,               \* useAuthStore
  page,
  asked,                \* the requests that a page waits for
  failed                \* pages whose refresh got no answer

tabVars == <<status, page, asked, failed>>

SessionInit ==
  /\ Init
  /\ status = [b \in Browsers |-> "idle"]
  /\ page \in [Browsers -> {"landing", "work"}]
  /\ asked = {} /\ failed = {}

-----------------------------------------------------------------------------
\* RequireAuth: a splash while it is not known, and away without a session.
RequireAuth(st, p) == IF st = "unauthenticated" THEN "landing" ELSE p

\* RequireRole.
RequireRole(st, p) == IF st = "authenticated" /\ ~Organizer THEN "landing" ELSE p

\* The page of b, at p with status st, after the guards.
Shows(b, st, p) ==
  /\ status' = [status EXCEPT ![b] = st]
  /\ page' = [page EXCEPT ![b] = RequireRole(st, RequireAuth(st, p))]

\* The login form; its button is disabled while it waits.
PressLogin(q, b) ==
  /\ page[b] = "landing" /\ \A r \in Logins \cap asked : from[r] # b
  /\ SendLogin(q, b)
  /\ asked' = asked \cup {q} /\ UNCHANGED <<status, page, failed>>

\* handleLogout, in the sidebar of the work pages.
PressLogout(q, b) ==
  /\ page[b] = "work" /\ status[b] = "authenticated"
  /\ SendLogout(q, b)
  /\ asked' = asked \cup {q} /\ UNCHANGED <<status, page, failed>>

\* Without a cookie the answer comes at once.
LogoutWithoutCookie(b) ==
  /\ page[b] = "work" /\ status[b] = "authenticated" /\ jar[b] = None /\ Undisturbed(b)
  /\ Shows(b, "unauthenticated", "landing")
  /\ UNCHANGED <<vars, asked, failed>>

\* A link to a work page.
Visit(b) ==
  /\ page[b] = "landing" /\ Shows(b, status[b], "work") /\ page' # page
  /\ UNCHANGED <<vars, asked, failed>>

\* The effect of SilentRefresh: setLoading, and the request.
LoadSession(b) ==
  /\ SilentRefresh(b)
  /\ Shows(b, IF jar[b] = None THEN "unauthenticated" ELSE "loading", page[b])
  /\ asked' = asked \cup {q \in Refreshes : at'[q] # at[q]}
  /\ UNCHANGED failed

\* Bound: there is a request left for the new page.
LoadPage(b) ==
  /\ Reload(b) /\ \E q \in Refreshes : at[q] = "idle"
  /\ status' = [status EXCEPT ![b] = "idle"]
  /\ asked' = {q \in asked : from[q] # b} /\ failed' = failed \ {b}
  /\ UNCHANGED page

-----------------------------------------------------------------------------
(***************************************************************************)
(* A request of a page ends, well or not.                                  *)
(***************************************************************************)
LoginEnds(b, ok) ==
  IF ok THEN Shows(b, "authenticated", "work") ELSE UNCHANGED <<status, page>>

RefreshEnds(b, ok) == Shows(b, IF ok THEN "authenticated" ELSE "unauthenticated", page[b])

\* Mutant: the store is not cleared.
LogoutKeepsSession(b) == Shows(b, status[b], "landing")

LogoutEnds(b) == Shows(b, "unauthenticated", "landing")

Ends(q, ok) ==
  LET b == from[q] IN
  IF q \notin asked THEN UNCHANGED tabVars
  ELSE /\ asked' = asked \ {q}
       /\ failed' = IF q \in Refreshes /\ ~ok /\ at[q] # "refused" THEN failed \cup {b} ELSE failed
       /\ \/ q \in Logins    /\ LoginEnds(b, ok)
          \/ q \in Refreshes /\ RefreshEnds(b, ok)
          \/ q \in Logouts   /\ LogoutEnds(b)

\* The answer comes.
Answered(q) == Deliver(q) /\ Ends(q, at[q] # "refused")

\* It does not.
Unanswered(q) == Lose(q) /\ Ends(q, FALSE)

\* The answer is an internal error.
Broken(q) == q \in Refreshes /\ Rollback(q) /\ Ends(q, FALSE)

ServerStep(q) ==
  /\ Statement(q)
  /\ IF at'[q] = "done" THEN Ends(q, FALSE) ELSE UNCHANGED tabVars

Unseen(A) == A /\ UNCHANGED tabVars

SessionNext ==
  \/ \E b \in Browsers : \/ \E q \in Logins : PressLogin(q, b)
                         \/ \E q \in Logouts : PressLogout(q, b)
                         \/ LogoutWithoutCookie(b) \/ Visit(b) \/ LoadSession(b) \/ LoadPage(b)
  \/ \E q \in Requests : ServerStep(q) \/ Answered(q) \/ Unanswered(q) \/ Broken(q)
  \/ \E q \in Logouts : Unseen(LogoutFails(q))
  \/ \E t \in Tokens : Unseen(Expire(t))

SessionSpec == SessionInit /\ [][SessionNext]_<<vars, tabVars>>

\* The server goes on, answers come or fail, and the effect of a page runs.
FairSessionSpec ==
  /\ SessionSpec
  /\ WF_<<vars, tabVars>>(\E q \in Requests : ServerStep(q))
  /\ WF_<<vars, tabVars>>(\E q \in Requests : Answered(q) \/ Unanswered(q))
  /\ WF_<<vars, tabVars>>(\E b \in Browsers : LoadSession(b))

-----------------------------------------------------------------------------
\* In an orderly run a page with nothing under way knows whether its browser is logged
\* in: it works only with a cookie, which the next load can use, and it asks for a login
\* despite a cookie only if its refresh got no answer.
TabMatchesJar ==
  orderly =>
    \A b \in Browsers : Quiet(b) /\ started[b] =>
      /\ status[b] = "authenticated" => jar[b] # None
      /\ status[b] = "unauthenticated" /\ jar[b] # None => b \in failed

\* The splash of RequireAuth ends: the page learns who its user is, whatever becomes of
\* its refresh.
SplashEnds == \A b \in Browsers : []<>(status[b] \notin {"idle", "loading"})

\* Neither a request nor a page waits for ever.
NobodyWaitsForever == RequestsEnd /\ SplashEnds
=============================================================================
