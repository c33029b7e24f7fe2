--------------------------- MODULE RefreshTokens ---------------------------
(***************************************************************************)
(* One user's refresh tokens: login, rotation, the detection of replays    *)
(* and logout (auth/service.go), as transactions on refresh_tokens that    *)
(* interleave at every statement, and the browsers that keep a token in a  *)
(* cookie and refresh it once per page load (SilentRefresh.tsx).           *)
(*                                                                         *)
(* A request issues at most one token and is that token's name.            *)
(* Transactions are READ COMMITTED: a statement sees the rows committed    *)
(* when it starts, waits for a row that another transaction has updated,   *)
(* and then tests its WHERE clause again.                                  *)
(*                                                                         *)
(* A run is orderly if pages are not reloaded, nor buttons pressed, while  *)
(* a request of that browser is under way, and no reply is lost.  In other *)
(* runs a reload also stands for a second tab, which shares the cookie.    *)
(***************************************************************************)
EXTENDS Functions

CONSTANTS Logins, Refreshes, Logouts,    \* the requests
          Browsers,
          Earlier,                       \* logins done before, on these and other devices
          Expiring,                      \* bound: the tokens that may expire in a run
          None

ASSUME RequestsAssumption ==
  /\ Logins \cap Refreshes = {} /\ Logins \cap Logouts = {} /\ Refreshes \cap Logouts = {}
  /\ Earlier \subseteq Logins
  /\ None \notin Logins \cup Refreshes \cup Logouts \cup Browsers

Tokens   == Logins \cup Refreshes
Requests == Tokens \cup Logouts

VARIABLES
  row,            \* refresh_tokens: "none", or "live" or "revoked" by revoked_at
  expired,        \* tokens whose expires_at has passed
  lock,           \* the transaction that has updated a row and not ended
  at,             \* where each request is
  from,           \* the browser that waits for its reply
  held,           \* the token it presents
  snapshot,       \* the rows its RevokeAllUserRefreshTokens has found
  jar,            \* the refresh cookie of each browser
  started,        \* refreshStarted, of each browser's page
  orderly

tableVars   == <<row, expired, lock>>
reqVars     == <<at, from, held, snapshot>>
browserVars == <<jar, started>>
vars        == <<tableVars, reqVars, browserVars, orderly>>

Live == {t \in Tokens : row[t] = "live"}
Quiet(b) == \A q \in Requests : from[q] # b

Init ==
  /\ row = [t \in Tokens |-> IF t \in Earlier THEN "live" ELSE "none"] /\ expired = {}
  /\ lock = [t \in Tokens |-> None]
  /\ at = [q \in Requests |-> IF q \in Earlier THEN "done" ELSE "idle"]
  /\ from = [q \in Requests |-> None] /\ held = [q \in Requests |-> None]
  /\ snapshot = [q \in Refreshes |-> {}]
  /\ jar \in Injection(Browsers, Earlier) /\ started = [b \in Browsers |-> FALSE]
  /\ orderly \in BOOLEAN

-----------------------------------------------------------------------------
(***************************************************************************)
(* The browser.                                                            *)
(***************************************************************************)
Send(q, b, to) ==
  /\ at[q] = "idle"
  /\ at' = [at EXCEPT ![q] = to]
  /\ from' = [from EXCEPT ![q] = b]
  /\ held' = [held EXCEPT ![q] = jar[b]]
  /\ UNCHANGED <<tableVars, snapshot, jar, orderly>>

\* What the user does, in an orderly run, waits until the page is mounted and for
\* the requests under way.
Undisturbed(b) == orderly => Quiet(b) /\ started[b]

SendLogin(q, b) == Undisturbed(b) /\ Send(q, b, "insert") /\ UNCHANGED started

\* Without a cookie the handler answers at once and changes nothing.
SendLogout(q, b) ==
  Undisturbed(b) /\ jar[b] # None /\ Send(q, b, "find") /\ UNCHANGED started

\* Mutant: an effect that runs twice refreshes twice.
EveryEffect(b) == TRUE

\* The module-scoped guard of SilentRefresh: React may run the effect twice.
MayRefresh(b) == ~started[b]

\* The effect of SilentRefresh; without a cookie the handler answers 401 at once.
SilentRefresh(b) ==
  /\ MayRefresh(b)
  /\ started' = [started EXCEPT ![b] = TRUE]
  /\ IF jar[b] = None
     THEN UNCHANGED <<tableVars, reqVars, jar, orderly>>
     ELSE \E q \in Refreshes : Send(q, b, "read")

\* A page load: the module is evaluated again.
Reload(b) ==
  /\ Undisturbed(b) /\ started[b]
  /\ started' = [started EXCEPT ![b] = FALSE]
  /\ UNCHANGED <<tableVars, reqVars, jar, orderly>>

\* The browser waits no longer.
Done(q) == at' = [at EXCEPT ![q] = "done"] /\ from' = [from EXCEPT ![q] = None]

Replies == {"issued", "refused", "cleared", "ignored"}

\* setRefreshCookie after "issued", clearRefreshCookie after a 401 or a logout; an
\* internal error has no cookie, and such a request is done at once.
Deliver(q) ==
  /\ at[q] \in Replies
  /\ Done(q)
  /\ jar' = [jar EXCEPT ![from[q]] = IF at[q] = "issued" THEN q ELSE None]
  /\ UNCHANGED <<tableVars, held, snapshot, started, orderly>>

\* The browser never sees the reply.
Lose(q) ==
  /\ ~orderly /\ at[q] \in Replies
  /\ Done(q)
  /\ UNCHANGED <<tableVars, held, snapshot, browserVars, orderly>>

-----------------------------------------------------------------------------
(***************************************************************************)
(* Login: one statement, committed by itself.                              *)
(***************************************************************************)
Move(q, source, to) == at[q] = source /\ at' = [at EXCEPT ![q] = to]

\* issueSession's INSERT, or its failure.
InsertRefreshToken(q) ==
  /\ \/ Move(q, "insert", "issued") /\ row' = [row EXCEPT ![q] = "live"] /\ UNCHANGED from
     \/ at[q] = "insert" /\ Done(q) /\ UNCHANGED row
  /\ UNCHANGED <<expired, lock, held, snapshot, browserVars, orderly>>

(***************************************************************************)
(* Logout: a SELECT and an UPDATE, each committed by itself; the handler   *)
(* ignores an error of either and clears the cookie.                       *)
(***************************************************************************)
\* An UPDATE waits for the transaction that has updated the row.
Unlocked(t) == lock[t] = None

GetActiveRefreshToken(q) ==
  LET t == held[q]
  IN  /\ at[q] = "find"
      /\ IF row[t] = "live" /\ t \notin expired
         THEN Move(q, "find", "revokeOwn") ELSE Move(q, "find", "cleared")
      /\ UNCHANGED <<tableVars, from, held, snapshot, browserVars, orderly>>

\* Mutant: a row that is being rotated is skipped instead of waited for.
RevokeOwnSkipsLocked(q) ==
  LET t == held[q]
  IN  /\ Move(q, "revokeOwn", "cleared")
      /\ row' = IF lock[t] = None THEN [row EXCEPT ![t] = "revoked"] ELSE row
      /\ UNCHANGED <<expired, lock, from, held, snapshot, browserVars, orderly>>

RevokeOwn(q) ==
  LET t == held[q]
  IN  /\ Move(q, "revokeOwn", "cleared")
      /\ Unlocked(t)
      /\ row' = [row EXCEPT ![t] = "revoked"]
      /\ UNCHANGED <<expired, lock, from, held, snapshot, browserVars, orderly>>

LogoutFails(q) ==
  /\ at[q] \in {"find", "revokeOwn"}
  /\ at' = [at EXCEPT ![q] = "ignored"]
  /\ UNCHANGED <<tableVars, from, held, snapshot, browserVars, orderly>>

-----------------------------------------------------------------------------
(***************************************************************************)
(* Refresh: one transaction.                                               *)
(***************************************************************************)
\* GetRefreshTokenByHash and the tests that follow it.
ReadToken(q) ==
  LET t == held[q]
  IN  /\ at[q] = "read"
      /\ \/ row[t] = "revoked" /\ Move(q, "read", "replay")
         \/ row[t] = "live" /\ t \in expired /\ Move(q, "read", "refused")
         \/ row[t] = "live" /\ t \notin expired /\ Move(q, "read", "revoke")
      /\ UNCHANGED <<tableVars, from, held, snapshot, browserVars, orderly>>

\* Mutant: the row is not updated.
LockNothing(q) == UNCHANGED lock

\* The rows of an UPDATE that is not committed yet: a row revoked in the meantime
\* is not updated, and the number of rows is not looked at.
LockHeld(q) ==
  lock' = IF row[held[q]] = "live" THEN [lock EXCEPT ![held[q]] = q] ELSE lock

RevokeRefreshToken(q) ==
  /\ Move(q, "revoke", "commit")
  /\ Unlocked(held[q])
  /\ LockHeld(q)
  /\ UNCHANGED <<row, expired, from, held, snapshot, browserVars, orderly>>

Release(q) == lock' = [t \in Tokens |-> IF lock[t] = q THEN None ELSE lock[t]]
Updated(q) == [t \in Tokens |-> IF lock[t] = q THEN "revoked" ELSE row[t]]

\* issueSession in the transaction, and Commit.
CommitRotation(q) ==
  /\ Move(q, "commit", "issued")
  /\ row' = [Updated(q) EXCEPT ![q] = "live"]
  /\ Release(q)
  /\ UNCHANGED <<expired, from, held, snapshot, browserVars, orderly>>

\* RevokeAllUserRefreshTokens starts: the rows it sees.
StartRevokeAll(q) ==
  /\ Move(q, "replay", "revokeAll")
  /\ snapshot' = [snapshot EXCEPT ![q] = Live]
  /\ UNCHANGED <<tableVars, from, held, browserVars, orderly>>

\* It updates the next row, in the order of its scan, which nothing fixes.
RevokeNext(q) ==
  /\ at[q] = "revokeAll"
  /\ \E t \in snapshot[q] \cap Live :
       Unlocked(t) /\ lock' = [lock EXCEPT ![t] = q]
  /\ UNCHANGED <<row, expired, reqVars, browserVars, orderly>>

\* Mutant: rows that others have updated are left to them.
AllButLocked(q) == \A t \in snapshot[q] : lock[t] # None \/ row[t] = "revoked"

AllRevoked(q) == \A t \in snapshot[q] : lock[t] = q \/ row[t] = "revoked"

CommitRevokeAll(q) ==
  /\ AllRevoked(q)
  /\ Move(q, "revokeAll", "refused")
  /\ row' = Updated(q)
  /\ Release(q)
  /\ UNCHANGED <<expired, from, held, snapshot, browserVars, orderly>>

InTransaction(q) == at[q] \in {"read", "revoke", "commit", "replay", "revokeAll"}

\* Mutant: the deferred Rollback is missing.
KeepLocks(q) == UNCHANGED lock

EndTransaction(q) == Release(q)

\* A statement fails, or the request is cancelled: the deferred Rollback.
Rollback(q) ==
  /\ InTransaction(q)
  /\ Done(q)
  /\ snapshot' = [snapshot EXCEPT ![q] = {}]
  /\ EndTransaction(q)
  /\ UNCHANGED <<row, expired, held, browserVars, orderly>>

\* Two of them wait for each other's rows: PostgreSQL makes one fail.
WaitsFor(q, r) ==
  at[q] = "revokeAll" /\ q # r /\ \E t \in snapshot[q] : lock[t] = r
BreakDeadlock(q) ==
  (\E r \in Refreshes : WaitsFor(q, r) /\ WaitsFor(r, q)) /\ Rollback(q)

Expire(t) ==
  /\ row[t] # "none" /\ t \in Expiring \ expired
  /\ expired' = expired \cup {t}
  /\ UNCHANGED <<row, lock, reqVars, browserVars, orderly>>

\* The next statement of a request.
Statement(q) ==
  \/ q \in Logins /\ InsertRefreshToken(q)
  \/ q \in Logouts /\ (GetActiveRefreshToken(q) \/ RevokeOwn(q))
  \/ /\ q \in Refreshes
     /\ \/ ReadToken(q) \/ RevokeRefreshToken(q) \/ CommitRotation(q)
        \/ StartRevokeAll(q) \/ RevokeNext(q) \/ CommitRevokeAll(q)
        \/ BreakDeadlock(q)

Next ==
  \/ \E b \in Browsers : \/ \E q \in Logins : SendLogin(q, b)
                         \/ \E q \in Logouts : SendLogout(q, b)
                         \/ SilentRefresh(b) \/ Reload(b)
  \/ \E q \in Requests : Statement(q) \/ Deliver(q) \/ Lose(q)
  \/ \E q \in Logouts : LogoutFails(q)
  \/ \E q \in Refreshes : Rollback(q)
  \/ \E t \in Tokens : Expire(t)

Spec == Init /\ [][Next]_vars

\* The server goes on as long as the next statement of some request can run.
FairSpec == Spec /\ WF_vars(\E q \in Requests : Statement(q))

-----------------------------------------------------------------------------
(***************************************************************************)
(* What the tokens promise.                                                *)
(***************************************************************************)
Places == {"idle", "insert", "find", "revokeOwn", "read", "revoke", "commit", "replay",
           "revokeAll", "done"} \cup Replies

\* Every variable has its type; in particular a row lock belongs to a transaction
\* that has not ended, on a row that others still see as live.
TypeOK ==
  /\ row \in [Tokens -> {"none", "live", "revoked"}]
  /\ expired \subseteq Tokens
  /\ lock \in [Tokens -> Refreshes \cup {None}]
  /\ \A t \in Tokens : lock[t] # None =>
       row[t] = "live" /\ at[lock[t]] \in {"commit", "revokeAll"}
  /\ at \in [Requests -> Places]
  /\ from \in [Requests -> Browsers \cup {None}]
  /\ held \in [Requests -> Tokens \cup {None}]
  /\ snapshot \in [Refreshes -> SUBSET Tokens]
  /\ jar \in [Browsers -> Tokens \cup {None}]
  /\ started \in [Browsers -> BOOLEAN]
  /\ orderly \in BOOLEAN

\* Rotation: once the token of a refresh exists, the token that it was given for is
\* revoked, also if the UPDATE had to wait, found the row revoked or was rolled back
\* by another request.
RotatedTokensAreRevoked ==
  \A q \in Refreshes : row[q] # "none" => row[held[q]] = "revoked"

\* Replay: when a replay is answered, every token that was valid when it was found is
\* revoked, those that another request was rotating meanwhile included.
ReplayRevokesAll ==
  \A q \in Refreshes :
    at[q] # "revokeAll" => \A t \in snapshot[q] : row[t] = "revoked"

\* Logout: when it is answered without an error the token it presented is of no use,
\* even if the same token was being rotated and the rotation was undone.
LogoutRevokes ==
  \A q \in Logouts :
    at[q] = "cleared" => row[held[q]] = "revoked" \/ held[q] \in expired

\* The rows keep what rotation, the detection of replays and logout promise.
TokensAreRevoked ==
  /\ RotatedTokensAreRevoked
  /\ ReplayRevokesAll
  /\ LogoutRevokes

\* SilentRefresh's guard: a browser that is used in an orderly way, on whatever
\* number of devices, never trips the detection of replays and always has a token
\* that is still valid (unless it expired).
OrderlyBrowsersStayLoggedIn ==
  orderly =>
    /\ \A q \in Refreshes : at[q] # "replay"
    /\ \A b \in Browsers : Quiet(b) /\ jar[b] # None => row[jar[b]] = "live"

\* Every request is answered: it does not wait for ever for a row, neither because
\* two requests wait for each other nor because of one that failed.
RequestsEnd == []<>(\A q \in Requests : at[q] \in {"idle", "done"} \cup Replies)
=============================================================================
