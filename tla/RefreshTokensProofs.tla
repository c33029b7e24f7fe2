------------------------ MODULE RefreshTokensProofs ------------------------
(***************************************************************************)
(* Proofs about RefreshTokens, for any number of requests and browsers,    *)
(* and failures at every statement; and that the pages of BrowserSession   *)
(* only do what RefreshTokens allows.                                      *)
(***************************************************************************)
EXTENDS BrowserSession, TLAPS

\* Each kind of request stays in its own places.
KindInv ==
  /\ \A q \in Logins : at[q] \in {"idle", "insert", "issued", "done"}
  /\ \A q \in Logouts :
       at[q] \in {"idle", "find", "revokeOwn", "cleared", "ignored", "done"}
  /\ \A q \in Refreshes :
       at[q] \in {"idle", "read", "revoke", "commit", "replay", "revokeAll", "issued",
                 "refused", "done"}

\* Tokens exist from the reply that carries them on, and only such tokens are kept or
\* presented; a rotation about to commit holds its row or found it revoked.
TokenInv ==
  /\ \A t \in Tokens : /\ row[t] # "none" => at[t] \in {"issued", "done"}
                       /\ at[t] = "issued" => row[t] # "none"
  /\ \A b \in Browsers : jar[b] # None => row[jar[b]] # "none"
  /\ \A q \in Refreshes \cup Logouts :
       at[q] # "idle" => held[q] \in Tokens /\ row[held[q]] # "none"
  /\ \A q \in Refreshes :
       at[q] = "commit" => lock[held[q]] = q \/ row[held[q]] = "revoked"

\* In an orderly run a browser has one request under way, which presents its cookie;
\* no two browsers have the same cookie; and a cookie is valid until the request that
\* spends it is about to be answered.
OneRequest ==
  /\ \A q, r \in Requests : from[q] = from[r] /\ from[q] # None => q = r
  /\ \A b \in Browsers : ~started[b] => Quiet(b)
  /\ \A q \in Requests : from[q] = None <=> at[q] \in {"idle", "done"}
  /\ \A q \in Requests : from[q] # None => held[q] = jar[from[q]]

OwnCookie ==
  /\ \A b, c \in Browsers : jar[b] = jar[c] /\ jar[b] # None => b = c
  /\ \A b \in Browsers : jar[b] # None => at[jar[b]] = "done"
  /\ \A t \in Tokens :
       lock[t] # None => at[lock[t]] = "commit" /\ held[lock[t]] = t

ValidCookie ==
  /\ \A b \in Browsers :
       jar[b] # None => \/ row[jar[b]] = "live"
                       \/ \E q \in Requests : from[q] = b /\ at[q] \in Replies
  /\ \A t \in Tokens : at[t] = "issued" => row[t] = "live"
  /\ \A q \in Refreshes : at[q] \notin {"replay", "revokeAll"}

OrderlyInv == orderly => OneRequest /\ OwnCookie /\ ValidCookie

BaseInv == TypeOK /\ KindInv /\ TokenInv

IInv == /\ BaseInv /\ RotatedTokensAreRevoked /\ ReplayRevokesAll /\ LogoutRevokes
        /\ OrderlyInv

-----------------------------------------------------------------------------
\* The invariant holds at the start: the earlier logins' tokens and nothing else.
LEMMA InitInv == Init => IInv
  BY RequestsAssumption
     DEF Init, IInv, BaseInv, TypeOK, KindInv, TokenInv, OrderlyInv, OneRequest, OwnCookie,
         ValidCookie, Quiet, RotatedTokensAreRevoked, ReplayRevokesAll, LogoutRevokes,
         Requests, Tokens, Places, Replies, Injection, IsInjective

\* Every step keeps the types, and locks belong to open transactions.
LEMMA TypeStep ==
  ASSUME BaseInv, [Next]_vars
  PROVE  TypeOK'
<1>. USE RequestsAssumption DEF Requests, Tokens, tableVars, reqVars, browserVars,
     BaseInv, TypeOK, KindInv, TokenInv, Places, Replies
<1>1. ASSUME NEW b \in Browsers, NEW q \in Logins, SendLogin(q, b) PROVE TypeOK'
  BY <1>1 DEF SendLogin, Undisturbed, Send
<1>2. ASSUME NEW b \in Browsers, NEW q \in Logouts, SendLogout(q, b) PROVE TypeOK'
  BY <1>2 DEF SendLogout, Undisturbed, Send
<1>3. ASSUME NEW b \in Browsers, SilentRefresh(b) PROVE TypeOK'
  BY <1>3 DEF SilentRefresh, MayRefresh, Send
<1>4. ASSUME NEW b \in Browsers, Reload(b) PROVE TypeOK'
  BY <1>4 DEF Reload, Undisturbed
<1>5. ASSUME NEW q \in Requests, Deliver(q) PROVE TypeOK'
  <2>1. at[q] = "issued" => q \in Tokens
    BY <1>5
  <2>2. jar' \in [Browsers -> Tokens \cup {None}]
    BY <1>5, <2>1 DEF Deliver
  <2>. QED
    BY <1>5, <2>2 DEF Deliver, Done
<1>6. ASSUME NEW q \in Requests, Lose(q) PROVE TypeOK'
  BY <1>6 DEF Lose, Done, Replies
<1>7. ASSUME NEW q \in Logins, InsertRefreshToken(q) PROVE TypeOK'
  BY <1>7 DEF InsertRefreshToken, Move, Done
<1>8. ASSUME NEW q \in Logouts, GetActiveRefreshToken(q) PROVE TypeOK'
  BY <1>8 DEF GetActiveRefreshToken, Move
<1>9. ASSUME NEW q \in Logouts, RevokeOwn(q) PROVE TypeOK'
  BY <1>9 DEF RevokeOwn, Move, Unlocked
<1>10. ASSUME NEW q \in Logouts, LogoutFails(q) PROVE TypeOK'
  BY <1>10 DEF LogoutFails
<1>11. ASSUME NEW q \in Refreshes, ReadToken(q) PROVE TypeOK'
  BY <1>11 DEF ReadToken, Move
<1>12. ASSUME NEW q \in Refreshes, RevokeRefreshToken(q) PROVE TypeOK'
  BY <1>12 DEF RevokeRefreshToken, Move, Unlocked, LockHeld
<1>13. ASSUME NEW q \in Refreshes, CommitRotation(q) PROVE TypeOK'
  BY <1>13 DEF CommitRotation, Move, Updated, Release
<1>14. ASSUME NEW q \in Refreshes, StartRevokeAll(q) PROVE TypeOK'
  BY <1>14 DEF StartRevokeAll, Move, Live
<1>15. ASSUME NEW q \in Refreshes, RevokeNext(q) PROVE TypeOK'
  BY <1>15 DEF RevokeNext, Unlocked, Live
<1>16. ASSUME NEW q \in Refreshes, CommitRevokeAll(q) PROVE TypeOK'
  BY <1>16 DEF CommitRevokeAll, Move, AllRevoked, Updated, Release
<1>17. ASSUME NEW q \in Refreshes, Rollback(q) PROVE TypeOK'
  BY <1>17 DEF Rollback, Done, InTransaction, EndTransaction, Release
<1>18. ASSUME NEW t \in Tokens, Expire(t) PROVE TypeOK'
  BY <1>18 DEF Expire
<1>19. ASSUME UNCHANGED vars PROVE TypeOK'
  BY <1>19 DEF vars
<1>. QED
  BY <1>1, <1>2, <1>3, <1>4, <1>5, <1>6, <1>7, <1>8, <1>9, <1>10, <1>11, <1>12,
     <1>13, <1>14, <1>15, <1>16, <1>17, <1>18, <1>19 DEF Next, Statement,
     BreakDeadlock

\* Every step keeps each kind of request in its places.
LEMMA KindStep ==
  ASSUME BaseInv, [Next]_vars
  PROVE  KindInv'
<1>. USE RequestsAssumption DEF Requests, Tokens, tableVars, reqVars, browserVars,
     BaseInv, TypeOK, KindInv, Replies
<1>1. ASSUME NEW b \in Browsers, NEW q \in Logins, SendLogin(q, b) PROVE KindInv'
  BY <1>1 DEF SendLogin, Undisturbed, Send
<1>2. ASSUME NEW b \in Browsers, NEW q \in Logouts, SendLogout(q, b) PROVE KindInv'
  BY <1>2 DEF SendLogout, Undisturbed, Send
<1>3. ASSUME NEW b \in Browsers, SilentRefresh(b) PROVE KindInv'
  BY <1>3 DEF SilentRefresh, MayRefresh, Send
<1>4. ASSUME NEW b \in Browsers, Reload(b) PROVE KindInv'
  BY <1>4 DEF Reload, Undisturbed
<1>5. ASSUME NEW q \in Requests, Deliver(q) PROVE KindInv'
  BY <1>5 DEF Deliver, Done, Replies
<1>6. ASSUME NEW q \in Requests, Lose(q) PROVE KindInv'
  BY <1>6 DEF Lose, Done, Replies
<1>7. ASSUME NEW q \in Logins, InsertRefreshToken(q) PROVE KindInv'
  BY <1>7 DEF InsertRefreshToken, Move, Done
<1>8. ASSUME NEW q \in Logouts, GetActiveRefreshToken(q) PROVE KindInv'
  BY <1>8 DEF GetActiveRefreshToken, Move
<1>9. ASSUME NEW q \in Logouts, RevokeOwn(q) PROVE KindInv'
  BY <1>9 DEF RevokeOwn, Move, Unlocked
<1>10. ASSUME NEW q \in Logouts, LogoutFails(q) PROVE KindInv'
  BY <1>10 DEF LogoutFails
<1>11. ASSUME NEW q \in Refreshes, ReadToken(q) PROVE KindInv'
  BY <1>11 DEF ReadToken, Move
<1>12. ASSUME NEW q \in Refreshes, RevokeRefreshToken(q) PROVE KindInv'
  BY <1>12 DEF RevokeRefreshToken, Move, Unlocked, LockHeld
<1>13. ASSUME NEW q \in Refreshes, CommitRotation(q) PROVE KindInv'
  BY <1>13 DEF CommitRotation, Move, Updated, Release
<1>14. ASSUME NEW q \in Refreshes, StartRevokeAll(q) PROVE KindInv'
  BY <1>14 DEF StartRevokeAll, Move, Live
<1>15. ASSUME NEW q \in Refreshes, RevokeNext(q) PROVE KindInv'
  BY <1>15 DEF RevokeNext, Unlocked, Live
<1>16. ASSUME NEW q \in Refreshes, CommitRevokeAll(q) PROVE KindInv'
  BY <1>16 DEF CommitRevokeAll, Move, AllRevoked, Updated, Release
<1>17. ASSUME NEW q \in Refreshes, Rollback(q) PROVE KindInv'
  BY <1>17 DEF Rollback, Done, InTransaction, EndTransaction, Release
<1>18. ASSUME NEW t \in Tokens, Expire(t) PROVE KindInv'
  BY <1>18 DEF Expire
<1>19. ASSUME UNCHANGED vars PROVE KindInv'
  BY <1>19 DEF vars
<1>. QED
  BY <1>1, <1>2, <1>3, <1>4, <1>5, <1>6, <1>7, <1>8, <1>9, <1>10, <1>11, <1>12,
     <1>13, <1>14, <1>15, <1>16, <1>17, <1>18, <1>19 DEF Next, Statement,
     BreakDeadlock

\* Every step keeps the tokens that are presented among those that exist.
LEMMA TokenStep ==
  ASSUME BaseInv, [Next]_vars
  PROVE  TokenInv'
<1>. USE RequestsAssumption DEF Requests, Tokens, tableVars, reqVars, browserVars,
     BaseInv, TypeOK, KindInv, TokenInv
<1>1. ASSUME NEW b \in Browsers, NEW q \in Logins, SendLogin(q, b) PROVE TokenInv'
  BY <1>1 DEF SendLogin, Undisturbed, Send
<1>2. ASSUME NEW b \in Browsers, NEW q \in Logouts, SendLogout(q, b) PROVE TokenInv'
  BY <1>2 DEF SendLogout, Undisturbed, Send
<1>3. ASSUME NEW b \in Browsers, SilentRefresh(b) PROVE TokenInv'
  BY <1>3 DEF SilentRefresh, MayRefresh, Send
<1>4. ASSUME NEW b \in Browsers, Reload(b) PROVE TokenInv'
  BY <1>4 DEF Reload, Undisturbed
<1>5. ASSUME NEW q \in Requests, Deliver(q) PROVE TokenInv'
  BY <1>5 DEF Deliver, Done, Replies
<1>6. ASSUME NEW q \in Requests, Lose(q) PROVE TokenInv'
  BY <1>6 DEF Lose, Done, Replies
<1>7. ASSUME NEW q \in Logins, InsertRefreshToken(q) PROVE TokenInv'
  BY <1>7 DEF InsertRefreshToken, Move, Done
<1>8. ASSUME NEW q \in Logouts, GetActiveRefreshToken(q) PROVE TokenInv'
  BY <1>8 DEF GetActiveRefreshToken, Move
<1>9. ASSUME NEW q \in Logouts, RevokeOwn(q) PROVE TokenInv'
  BY <1>9 DEF RevokeOwn, Move, Unlocked
<1>10. ASSUME NEW q \in Logouts, LogoutFails(q) PROVE TokenInv'
  BY <1>10 DEF LogoutFails
<1>11. ASSUME NEW q \in Refreshes, ReadToken(q) PROVE TokenInv'
  BY <1>11 DEF ReadToken, Move
<1>12. ASSUME NEW q \in Refreshes, RevokeRefreshToken(q) PROVE TokenInv'
  BY <1>12 DEF RevokeRefreshToken, Move, Unlocked, LockHeld
<1>13. ASSUME NEW q \in Refreshes, CommitRotation(q) PROVE TokenInv'
  BY <1>13 DEF CommitRotation, Move, Updated, Release
<1>14. ASSUME NEW q \in Refreshes, StartRevokeAll(q) PROVE TokenInv'
  BY <1>14 DEF StartRevokeAll, Move, Live
<1>15. ASSUME NEW q \in Refreshes, RevokeNext(q) PROVE TokenInv'
  BY <1>15 DEF RevokeNext, Unlocked, Live
<1>16. ASSUME NEW q \in Refreshes, CommitRevokeAll(q) PROVE TokenInv'
  BY <1>16 DEF CommitRevokeAll, Move, AllRevoked, Updated, Release
<1>17. ASSUME NEW q \in Refreshes, Rollback(q) PROVE TokenInv'
  BY <1>17 DEF Rollback, Done, InTransaction, EndTransaction, Release
<1>18. ASSUME NEW t \in Tokens, Expire(t) PROVE TokenInv'
  BY <1>18 DEF Expire
<1>19. ASSUME UNCHANGED vars PROVE TokenInv'
  BY <1>19 DEF vars
<1>. QED
  BY <1>1, <1>2, <1>3, <1>4, <1>5, <1>6, <1>7, <1>8, <1>9, <1>10, <1>11, <1>12,
     <1>13, <1>14, <1>15, <1>16, <1>17, <1>18, <1>19 DEF Next, Statement,
     BreakDeadlock

\* A rotated token is revoked in the step that creates its successor, and stays so.
LEMMA RotatedStep ==
  ASSUME BaseInv, RotatedTokensAreRevoked, [Next]_vars
  PROVE  RotatedTokensAreRevoked'
<1>. USE RequestsAssumption DEF Requests, Tokens, tableVars, reqVars, browserVars,
     BaseInv, TypeOK, KindInv, TokenInv, RotatedTokensAreRevoked
<1>1. ASSUME NEW b \in Browsers, NEW q \in Logins, SendLogin(q, b)
      PROVE  RotatedTokensAreRevoked'
  BY <1>1 DEF SendLogin, Undisturbed, Send
<1>2. ASSUME NEW b \in Browsers, NEW q \in Logouts, SendLogout(q, b)
      PROVE  RotatedTokensAreRevoked'
  BY <1>2 DEF SendLogout, Undisturbed, Send
<1>3. ASSUME NEW b \in Browsers, SilentRefresh(b) PROVE RotatedTokensAreRevoked'
  BY <1>3 DEF SilentRefresh, MayRefresh, Send
<1>4. ASSUME NEW b \in Browsers, Reload(b) PROVE RotatedTokensAreRevoked'
  BY <1>4 DEF Reload, Undisturbed
<1>5. ASSUME NEW q \in Requests, Deliver(q) PROVE RotatedTokensAreRevoked'
  BY <1>5 DEF Deliver, Done, Replies
<1>6. ASSUME NEW q \in Requests, Lose(q) PROVE RotatedTokensAreRevoked'
  BY <1>6 DEF Lose, Done, Replies
<1>7. ASSUME NEW q \in Logins, InsertRefreshToken(q) PROVE RotatedTokensAreRevoked'
  BY <1>7 DEF InsertRefreshToken, Move, Done
<1>8. ASSUME NEW q \in Logouts, GetActiveRefreshToken(q) PROVE RotatedTokensAreRevoked'
  BY <1>8 DEF GetActiveRefreshToken, Move
<1>9. ASSUME NEW q \in Logouts, RevokeOwn(q) PROVE RotatedTokensAreRevoked'
  BY <1>9 DEF RevokeOwn, Move, Unlocked
<1>10. ASSUME NEW q \in Logouts, LogoutFails(q) PROVE RotatedTokensAreRevoked'
  BY <1>10 DEF LogoutFails
<1>11. ASSUME NEW q \in Refreshes, ReadToken(q) PROVE RotatedTokensAreRevoked'
  BY <1>11 DEF ReadToken, Move
<1>12. ASSUME NEW q \in Refreshes, RevokeRefreshToken(q) PROVE RotatedTokensAreRevoked'
  BY <1>12 DEF RevokeRefreshToken, Move, Unlocked, LockHeld
<1>13. ASSUME NEW q \in Refreshes, CommitRotation(q) PROVE RotatedTokensAreRevoked'
  BY <1>13 DEF CommitRotation, Move, Updated, Release
<1>14. ASSUME NEW q \in Refreshes, StartRevokeAll(q) PROVE RotatedTokensAreRevoked'
  BY <1>14 DEF StartRevokeAll, Move, Live
<1>15. ASSUME NEW q \in Refreshes, RevokeNext(q) PROVE RotatedTokensAreRevoked'
  BY <1>15 DEF RevokeNext, Unlocked, Live
<1>16. ASSUME NEW q \in Refreshes, CommitRevokeAll(q) PROVE RotatedTokensAreRevoked'
  BY <1>16 DEF CommitRevokeAll, Move, AllRevoked, Updated, Release
<1>17. ASSUME NEW q \in Refreshes, Rollback(q) PROVE RotatedTokensAreRevoked'
  BY <1>17 DEF Rollback, Done, InTransaction, EndTransaction, Release
<1>18. ASSUME NEW t \in Tokens, Expire(t) PROVE RotatedTokensAreRevoked'
  BY <1>18 DEF Expire
<1>19. ASSUME UNCHANGED vars PROVE RotatedTokensAreRevoked'
  BY <1>19 DEF vars
<1>. QED
  BY <1>1, <1>2, <1>3, <1>4, <1>5, <1>6, <1>7, <1>8, <1>9, <1>10, <1>11, <1>12,
     <1>13, <1>14, <1>15, <1>16, <1>17, <1>18, <1>19 DEF Next, Statement,
     BreakDeadlock

\* A replay ends when all it has found is revoked, and revoked rows stay so.
LEMMA ReplayStep ==
  ASSUME BaseInv, ReplayRevokesAll, [Next]_vars
  PROVE  ReplayRevokesAll'
<1>. USE RequestsAssumption DEF Requests, Tokens, tableVars, reqVars, browserVars,
     BaseInv, TypeOK, KindInv, TokenInv, ReplayRevokesAll
<1>1. ASSUME NEW b \in Browsers, NEW q \in Logins, SendLogin(q, b) PROVE ReplayRevokesAll'
  BY <1>1 DEF SendLogin, Undisturbed, Send
<1>2. ASSUME NEW b \in Browsers, NEW q \in Logouts, SendLogout(q, b) PROVE ReplayRevokesAll'
  BY <1>2 DEF SendLogout, Undisturbed, Send
<1>3. ASSUME NEW b \in Browsers, SilentRefresh(b) PROVE ReplayRevokesAll'
  BY <1>3 DEF SilentRefresh, MayRefresh, Send
<1>4. ASSUME NEW b \in Browsers, Reload(b) PROVE ReplayRevokesAll'
  BY <1>4 DEF Reload, Undisturbed
<1>5. ASSUME NEW q \in Requests, Deliver(q) PROVE ReplayRevokesAll'
  BY <1>5 DEF Deliver, Done, Replies
<1>6. ASSUME NEW q \in Requests, Lose(q) PROVE ReplayRevokesAll'
  BY <1>6 DEF Lose, Done, Replies
<1>7. ASSUME NEW q \in Logins, InsertRefreshToken(q) PROVE ReplayRevokesAll'
  BY <1>7 DEF InsertRefreshToken, Move, Done
<1>8. ASSUME NEW q \in Logouts, GetActiveRefreshToken(q) PROVE ReplayRevokesAll'
  BY <1>8 DEF GetActiveRefreshToken, Move
<1>9. ASSUME NEW q \in Logouts, RevokeOwn(q) PROVE ReplayRevokesAll'
  BY <1>9 DEF RevokeOwn, Move, Unlocked
<1>10. ASSUME NEW q \in Logouts, LogoutFails(q) PROVE ReplayRevokesAll'
  BY <1>10 DEF LogoutFails
<1>11. ASSUME NEW q \in Refreshes, ReadToken(q) PROVE ReplayRevokesAll'
  BY <1>11 DEF ReadToken, Move
<1>12. ASSUME NEW q \in Refreshes, RevokeRefreshToken(q) PROVE ReplayRevokesAll'
  BY <1>12 DEF RevokeRefreshToken, Move, Unlocked, LockHeld
<1>13. ASSUME NEW q \in Refreshes, CommitRotation(q) PROVE ReplayRevokesAll'
  BY <1>13 DEF CommitRotation, Move, Updated, Release
<1>14. ASSUME NEW q \in Refreshes, StartRevokeAll(q) PROVE ReplayRevokesAll'
  BY <1>14 DEF StartRevokeAll, Move, Live
<1>15. ASSUME NEW q \in Refreshes, RevokeNext(q) PROVE ReplayRevokesAll'
  BY <1>15 DEF RevokeNext, Unlocked, Live
<1>16. ASSUME NEW q \in Refreshes, CommitRevokeAll(q) PROVE ReplayRevokesAll'
  BY <1>16 DEF CommitRevokeAll, Move, AllRevoked, Updated, Release
<1>17. ASSUME NEW q \in Refreshes, Rollback(q) PROVE ReplayRevokesAll'
  BY <1>17 DEF Rollback, Done, InTransaction, EndTransaction, Release
<1>18. ASSUME NEW t \in Tokens, Expire(t) PROVE ReplayRevokesAll'
  BY <1>18 DEF Expire
<1>19. ASSUME UNCHANGED vars PROVE ReplayRevokesAll'
  BY <1>19 DEF vars
<1>. QED
  BY <1>1, <1>2, <1>3, <1>4, <1>5, <1>6, <1>7, <1>8, <1>9, <1>10, <1>11, <1>12,
     <1>13, <1>14, <1>15, <1>16, <1>17, <1>18, <1>19 DEF Next, Statement,
     BreakDeadlock

\* A logout ends when its token is revoked or was of no use.
LEMMA LogoutStep ==
  ASSUME BaseInv, LogoutRevokes, [Next]_vars
  PROVE  LogoutRevokes'
<1>. USE RequestsAssumption DEF Requests, Tokens, tableVars, reqVars, browserVars,
     BaseInv, TypeOK, KindInv, TokenInv, LogoutRevokes
<1>1. ASSUME NEW b \in Browsers, NEW q \in Logins, SendLogin(q, b) PROVE LogoutRevokes'
  BY <1>1 DEF SendLogin, Undisturbed, Send
<1>2. ASSUME NEW b \in Browsers, NEW q \in Logouts, SendLogout(q, b) PROVE LogoutRevokes'
  BY <1>2 DEF SendLogout, Undisturbed, Send
<1>3. ASSUME NEW b \in Browsers, SilentRefresh(b) PROVE LogoutRevokes'
  BY <1>3 DEF SilentRefresh, MayRefresh, Send
<1>4. ASSUME NEW b \in Browsers, Reload(b) PROVE LogoutRevokes'
  BY <1>4 DEF Reload, Undisturbed
<1>5. ASSUME NEW q \in Requests, Deliver(q) PROVE LogoutRevokes'
  BY <1>5 DEF Deliver, Done, Replies
<1>6. ASSUME NEW q \in Requests, Lose(q) PROVE LogoutRevokes'
  BY <1>6 DEF Lose, Done, Replies
<1>7. ASSUME NEW q \in Logins, InsertRefreshToken(q) PROVE LogoutRevokes'
  BY <1>7 DEF InsertRefreshToken, Move, Done
<1>8. ASSUME NEW q \in Logouts, GetActiveRefreshToken(q) PROVE LogoutRevokes'
  BY <1>8 DEF GetActiveRefreshToken, Move
<1>9. ASSUME NEW q \in Logouts, RevokeOwn(q) PROVE LogoutRevokes'
  BY <1>9 DEF RevokeOwn, Move, Unlocked
<1>10. ASSUME NEW q \in Logouts, LogoutFails(q) PROVE LogoutRevokes'
  BY <1>10 DEF LogoutFails
<1>11. ASSUME NEW q \in Refreshes, ReadToken(q) PROVE LogoutRevokes'
  BY <1>11 DEF ReadToken, Move
<1>12. ASSUME NEW q \in Refreshes, RevokeRefreshToken(q) PROVE LogoutRevokes'
  BY <1>12 DEF RevokeRefreshToken, Move, Unlocked, LockHeld
<1>13. ASSUME NEW q \in Refreshes, CommitRotation(q) PROVE LogoutRevokes'
  BY <1>13 DEF CommitRotation, Move, Updated, Release
<1>14. ASSUME NEW q \in Refreshes, StartRevokeAll(q) PROVE LogoutRevokes'
  BY <1>14 DEF StartRevokeAll, Move, Live
<1>15. ASSUME NEW q \in Refreshes, RevokeNext(q) PROVE LogoutRevokes'
  BY <1>15 DEF RevokeNext, Unlocked, Live
<1>16. ASSUME NEW q \in Refreshes, CommitRevokeAll(q) PROVE LogoutRevokes'
  BY <1>16 DEF CommitRevokeAll, Move, AllRevoked, Updated, Release
<1>17. ASSUME NEW q \in Refreshes, Rollback(q) PROVE LogoutRevokes'
  BY <1>17 DEF Rollback, Done, InTransaction, EndTransaction, Release
<1>18. ASSUME NEW t \in Tokens, Expire(t) PROVE LogoutRevokes'
  BY <1>18 DEF Expire
<1>19. ASSUME UNCHANGED vars PROVE LogoutRevokes'
  BY <1>19 DEF vars
<1>. QED
  BY <1>1, <1>2, <1>3, <1>4, <1>5, <1>6, <1>7, <1>8, <1>9, <1>10, <1>11, <1>12,
     <1>13, <1>14, <1>15, <1>16, <1>17, <1>18, <1>19 DEF Next, Statement,
     BreakDeadlock

\* Orderly runs: one request per browser at a time.
LEMMA OneRequestStep ==
  ASSUME BaseInv, orderly, OneRequest, [Next]_vars
  PROVE  OneRequest'
<1>. USE RequestsAssumption DEF Requests, Tokens, tableVars, reqVars, browserVars,
     BaseInv, TypeOK, KindInv, OneRequest, Quiet, Replies
<1>1. ASSUME NEW b \in Browsers, NEW q \in Logins, SendLogin(q, b) PROVE OneRequest'
  BY <1>1 DEF SendLogin, Undisturbed, Send
<1>2. ASSUME NEW b \in Browsers, NEW q \in Logouts, SendLogout(q, b) PROVE OneRequest'
  BY <1>2 DEF SendLogout, Undisturbed, Send
<1>3. ASSUME NEW b \in Browsers, SilentRefresh(b) PROVE OneRequest'
  <2>1. CASE jar[b] = None
    BY <1>3, <2>1 DEF SilentRefresh
  <2>2. CASE jar[b] # None
    <3>1. PICK q \in Refreshes : Send(q, b, "read")
      BY <1>3, <2>2 DEF SilentRefresh
    <3>. QED
      BY <1>3, <2>2, <3>1 DEF SilentRefresh, MayRefresh, Send
  <2>. QED
    BY <2>1, <2>2
<1>4. ASSUME NEW b \in Browsers, Reload(b) PROVE OneRequest'
  BY <1>4 DEF Reload, Undisturbed
<1>5. ASSUME NEW q \in Requests, Deliver(q) PROVE OneRequest'
  BY <1>5 DEF Deliver, Done, Replies
<1>6. ASSUME NEW q \in Requests, Lose(q) PROVE OneRequest'
  BY <1>6 DEF Lose, Done, Replies
<1>7. ASSUME NEW q \in Logins, InsertRefreshToken(q) PROVE OneRequest'
  BY <1>7 DEF InsertRefreshToken, Move, Done
<1>8. ASSUME NEW q \in Logouts, GetActiveRefreshToken(q) PROVE OneRequest'
  BY <1>8 DEF GetActiveRefreshToken, Move
<1>9. ASSUME NEW q \in Logouts, RevokeOwn(q) PROVE OneRequest'
  BY <1>9 DEF RevokeOwn, Move, Unlocked
<1>10. ASSUME NEW q \in Logouts, LogoutFails(q) PROVE OneRequest'
  BY <1>10 DEF LogoutFails
<1>11. ASSUME NEW q \in Refreshes, ReadToken(q) PROVE OneRequest'
  BY <1>11 DEF ReadToken, Move
<1>12. ASSUME NEW q \in Refreshes, RevokeRefreshToken(q) PROVE OneRequest'
  BY <1>12 DEF RevokeRefreshToken, Move, Unlocked, LockHeld
<1>13. ASSUME NEW q \in Refreshes, CommitRotation(q) PROVE OneRequest'
  BY <1>13 DEF CommitRotation, Move, Updated, Release
<1>14. ASSUME NEW q \in Refreshes, StartRevokeAll(q) PROVE OneRequest'
  BY <1>14 DEF StartRevokeAll, Move, Live
<1>15. ASSUME NEW q \in Refreshes, RevokeNext(q) PROVE OneRequest'
  BY <1>15 DEF RevokeNext, Unlocked, Live
<1>16. ASSUME NEW q \in Refreshes, CommitRevokeAll(q) PROVE OneRequest'
  BY <1>16 DEF CommitRevokeAll, Move, AllRevoked, Updated, Release
<1>17. ASSUME NEW q \in Refreshes, Rollback(q) PROVE OneRequest'
  BY <1>17 DEF Rollback, Done, InTransaction, EndTransaction, Release
<1>18. ASSUME NEW t \in Tokens, Expire(t) PROVE OneRequest'
  BY <1>18 DEF Expire
<1>19. ASSUME UNCHANGED vars PROVE OneRequest'
  BY <1>19 DEF vars
<1>. QED
  BY <1>1, <1>2, <1>3, <1>4, <1>5, <1>6, <1>7, <1>8, <1>9, <1>10, <1>11, <1>12,
     <1>13, <1>14, <1>15, <1>16, <1>17, <1>18, <1>19 DEF Next, Statement,
     BreakDeadlock

\* Orderly runs: a browser's cookie is its own.
LEMMA OwnCookieStep ==
  ASSUME BaseInv, orderly, OneRequest, OwnCookie, ValidCookie, [Next]_vars
  PROVE  OwnCookie'
<1>. USE RequestsAssumption DEF Requests, Tokens, tableVars, reqVars, browserVars,
     BaseInv, TypeOK, KindInv, TokenInv, OneRequest, OwnCookie, ValidCookie, Quiet, Replies
<1>1. ASSUME NEW b \in Browsers, NEW q \in Logins, SendLogin(q, b) PROVE OwnCookie'
  BY <1>1 DEF SendLogin, Undisturbed, Send
<1>2. ASSUME NEW b \in Browsers, NEW q \in Logouts, SendLogout(q, b) PROVE OwnCookie'
  BY <1>2 DEF SendLogout, Undisturbed, Send
<1>3. ASSUME NEW b \in Browsers, SilentRefresh(b) PROVE OwnCookie'
  <2>1. CASE jar[b] = None
    BY <1>3, <2>1 DEF SilentRefresh
  <2>2. CASE jar[b] # None
    <3>1. PICK q \in Refreshes : Send(q, b, "read")
      BY <1>3, <2>2 DEF SilentRefresh
    <3>. QED
      BY <1>3, <2>2, <3>1 DEF SilentRefresh, MayRefresh, Send
  <2>. QED
    BY <2>1, <2>2
<1>4. ASSUME NEW b \in Browsers, Reload(b) PROVE OwnCookie'
  BY <1>4 DEF Reload, Undisturbed
<1>5. ASSUME NEW q \in Requests, Deliver(q) PROVE OwnCookie'
  BY <1>5 DEF Deliver, Done, Replies
<1>6. ASSUME NEW q \in Requests, Lose(q) PROVE OwnCookie'
  BY <1>6 DEF Lose, Done, Replies
<1>7. ASSUME NEW q \in Logins, InsertRefreshToken(q) PROVE OwnCookie'
  BY <1>7 DEF InsertRefreshToken, Move, Done
<1>8. ASSUME NEW q \in Logouts, GetActiveRefreshToken(q) PROVE OwnCookie'
  BY <1>8 DEF GetActiveRefreshToken, Move
<1>9. ASSUME NEW q \in Logouts, RevokeOwn(q) PROVE OwnCookie'
  BY <1>9 DEF RevokeOwn, Move, Unlocked
<1>10. ASSUME NEW q \in Logouts, LogoutFails(q) PROVE OwnCookie'
  BY <1>10 DEF LogoutFails
<1>11. ASSUME NEW q \in Refreshes, ReadToken(q) PROVE OwnCookie'
  BY <1>11 DEF ReadToken, Move
<1>12. ASSUME NEW q \in Refreshes, RevokeRefreshToken(q) PROVE OwnCookie'
  BY <1>12 DEF RevokeRefreshToken, Move, Unlocked, LockHeld
<1>13. ASSUME NEW q \in Refreshes, CommitRotation(q) PROVE OwnCookie'
  BY <1>13 DEF CommitRotation, Move, Updated, Release
<1>14. ASSUME NEW q \in Refreshes, StartRevokeAll(q) PROVE OwnCookie'
  BY <1>14 DEF StartRevokeAll, Move, Live
<1>15. ASSUME NEW q \in Refreshes, RevokeNext(q) PROVE OwnCookie'
  BY <1>15 DEF RevokeNext, Unlocked, Live
<1>16. ASSUME NEW q \in Refreshes, CommitRevokeAll(q) PROVE OwnCookie'
  BY <1>16 DEF CommitRevokeAll, Move, AllRevoked, Updated, Release
<1>17. ASSUME NEW q \in Refreshes, Rollback(q) PROVE OwnCookie'
  BY <1>17 DEF Rollback, Done, InTransaction, EndTransaction, Release
<1>18. ASSUME NEW t \in Tokens, Expire(t) PROVE OwnCookie'
  BY <1>18 DEF Expire
<1>19. ASSUME UNCHANGED vars PROVE OwnCookie'
  BY <1>19 DEF vars
<1>. QED
  BY <1>1, <1>2, <1>3, <1>4, <1>5, <1>6, <1>7, <1>8, <1>9, <1>10, <1>11, <1>12,
     <1>13, <1>14, <1>15, <1>16, <1>17, <1>18, <1>19 DEF Next, Statement,
     BreakDeadlock

\* Orderly runs: a cookie is revoked only by the request that spends it.
LEMMA ValidCookieStep ==
  ASSUME BaseInv, orderly, OneRequest, OwnCookie, ValidCookie, [Next]_vars
  PROVE  ValidCookie'
<1>. USE RequestsAssumption DEF Requests, Tokens, tableVars, reqVars, browserVars,
     BaseInv, TypeOK, KindInv, TokenInv, OneRequest, OwnCookie, ValidCookie, Quiet, Replies
<1>1. ASSUME NEW b \in Browsers, NEW q \in Logins, SendLogin(q, b) PROVE ValidCookie'
  BY <1>1 DEF SendLogin, Undisturbed, Send
<1>2. ASSUME NEW b \in Browsers, NEW q \in Logouts, SendLogout(q, b) PROVE ValidCookie'
  BY <1>2 DEF SendLogout, Undisturbed, Send
<1>3. ASSUME NEW b \in Browsers, SilentRefresh(b) PROVE ValidCookie'
  <2>1. CASE jar[b] = None
    BY <1>3, <2>1 DEF SilentRefresh
  <2>2. CASE jar[b] # None
    <3>1. PICK q \in Refreshes : Send(q, b, "read")
      BY <1>3, <2>2 DEF SilentRefresh
    <3>. QED
      BY <1>3, <2>2, <3>1 DEF SilentRefresh, MayRefresh, Send
  <2>. QED
    BY <2>1, <2>2
<1>4. ASSUME NEW b \in Browsers, Reload(b) PROVE ValidCookie'
  BY <1>4 DEF Reload, Undisturbed
<1>5. ASSUME NEW q \in Requests, Deliver(q) PROVE ValidCookie'
  BY <1>5 DEF Deliver, Done, Replies
<1>6. ASSUME NEW q \in Requests, Lose(q) PROVE ValidCookie'
  BY <1>6 DEF Lose, Done, Replies
<1>7. ASSUME NEW q \in Logins, InsertRefreshToken(q) PROVE ValidCookie'
  BY <1>7 DEF InsertRefreshToken, Move, Done
<1>8. ASSUME NEW q \in Logouts, GetActiveRefreshToken(q) PROVE ValidCookie'
  BY <1>8 DEF GetActiveRefreshToken, Move
<1>9. ASSUME NEW q \in Logouts, RevokeOwn(q) PROVE ValidCookie'
  BY <1>9 DEF RevokeOwn, Move, Unlocked
<1>10. ASSUME NEW q \in Logouts, LogoutFails(q) PROVE ValidCookie'
  BY <1>10 DEF LogoutFails
<1>11. ASSUME NEW q \in Refreshes, ReadToken(q) PROVE ValidCookie'
  BY <1>11 DEF ReadToken, Move
<1>12. ASSUME NEW q \in Refreshes, RevokeRefreshToken(q) PROVE ValidCookie'
  BY <1>12 DEF RevokeRefreshToken, Move, Unlocked, LockHeld
<1>13. ASSUME NEW q \in Refreshes, CommitRotation(q) PROVE ValidCookie'
  BY <1>13 DEF CommitRotation, Move, Updated, Release
<1>14. ASSUME NEW q \in Refreshes, StartRevokeAll(q) PROVE ValidCookie'
  BY <1>14 DEF StartRevokeAll, Move, Live
<1>15. ASSUME NEW q \in Refreshes, RevokeNext(q) PROVE ValidCookie'
  BY <1>15 DEF RevokeNext, Unlocked, Live
<1>16. ASSUME NEW q \in Refreshes, CommitRevokeAll(q) PROVE ValidCookie'
  BY <1>16 DEF CommitRevokeAll, Move, AllRevoked, Updated, Release
<1>17. ASSUME NEW q \in Refreshes, Rollback(q) PROVE ValidCookie'
  BY <1>17 DEF Rollback, Done, InTransaction, EndTransaction, Release
<1>18. ASSUME NEW t \in Tokens, Expire(t) PROVE ValidCookie'
  BY <1>18 DEF Expire
<1>19. ASSUME UNCHANGED vars PROVE ValidCookie'
  BY <1>19 DEF vars
<1>. QED
  BY <1>1, <1>2, <1>3, <1>4, <1>5, <1>6, <1>7, <1>8, <1>9, <1>10, <1>11, <1>12,
     <1>13, <1>14, <1>15, <1>16, <1>17, <1>18, <1>19 DEF Next, Statement,
     BreakDeadlock

\* Whether a run is orderly is settled at its start.
LEMMA OrderlyFixed == ASSUME [Next]_vars PROVE orderly' = orderly
  BY DEF Next, Statement, vars, SendLogin, SendLogout, SilentRefresh, Send, Reload, Deliver,
         Lose, InsertRefreshToken, GetActiveRefreshToken, RevokeOwn, LogoutFails, ReadToken,
         RevokeRefreshToken, CommitRotation, StartRevokeAll, RevokeNext, CommitRevokeAll,
         BreakDeadlock, Rollback, Expire

\* The invariant of the specification.
THEOREM Invariance == Spec => []IInv
<1>1. IInv /\ [Next]_vars => IInv'
  BY TypeStep, KindStep, TokenStep, RotatedStep, ReplayStep, LogoutStep, OneRequestStep,
     OwnCookieStep, ValidCookieStep, OrderlyFixed DEF IInv, BaseInv, OrderlyInv
<1>. QED
  BY <1>1, InitInv, PTL DEF Spec

\* Every variable keeps its type, and a row lock belongs to an open transaction.
THEOREM TypeCorrect == Spec => []TypeOK
  BY Invariance, PTL DEF IInv, BaseInv

\* Once a token has a successor it is revoked (Service.Refresh).
THEOREM RotationIsSafe == Spec => []RotatedTokensAreRevoked
  BY Invariance, PTL DEF IInv

\* A replay revokes every token that it finds valid, those being rotated included
\* (Service.Refresh, RevokeAllUserRefreshTokens).
THEOREM ReplayIsSafe == Spec => []ReplayRevokesAll
  BY Invariance, PTL DEF IInv

\* A logout answered without an error has revoked its token (Service.Logout).
THEOREM LogoutIsSafe == Spec => []LogoutRevokes
  BY Invariance, PTL DEF IInv

\* Rotation, replay detection and logout revoke what they promise to revoke.
THEOREM TokensAreSafe == Spec => []TokensAreRevoked
  BY RotationIsSafe, ReplayIsSafe, LogoutIsSafe, PTL DEF TokensAreRevoked

\* Browsers used in an orderly way keep their sessions, on any number of devices
\* (SilentRefresh, Service.Refresh).
THEOREM OrderlyIsSafe == Spec => []OrderlyBrowsersStayLoggedIn
<1>1. IInv => OrderlyBrowsersStayLoggedIn
  BY DEF IInv, OrderlyInv, ValidCookie, OrderlyBrowsersStayLoggedIn, Quiet
<1>. QED
  BY <1>1, Invariance, PTL

-----------------------------------------------------------------------------
\* What the buttons, effects and guards of the pages do is a run of RefreshTokens, so
\* that everything above holds for them.
THEOREM PagesUseTokens == SessionSpec => Spec
<1>1. SessionInit => Init
  BY DEF SessionInit
<1>2. [SessionNext]_<<vars, tabVars>> => [Next]_vars
  <2> SUFFICES ASSUME SessionNext
               PROVE  [Next]_vars
    OBVIOUS
  <2>1. ASSUME NEW b \in Browsers, NEW q \in Logins, PressLogin(q, b)
        PROVE  Next
    BY <2>1 DEF PressLogin, Next
  <2>2. ASSUME NEW b \in Browsers, NEW q \in Logouts, PressLogout(q, b)
        PROVE  Next
    BY <2>2 DEF PressLogout, Next
  <2>3. ASSUME NEW b \in Browsers, LogoutWithoutCookie(b) \/ Visit(b)
        PROVE  UNCHANGED vars
    BY <2>3 DEF LogoutWithoutCookie, Visit
  <2>4. ASSUME NEW b \in Browsers, LoadSession(b) \/ LoadPage(b)
        PROVE  Next
    BY <2>4 DEF LoadSession, LoadPage, Next
  <2>5. ASSUME NEW q \in Requests, ServerStep(q) \/ Answered(q) \/ Unanswered(q) \/ Broken(q)
        PROVE  Next
    BY <2>5 DEF ServerStep, Answered, Unanswered, Broken, Next
  <2>6. ASSUME NEW q \in Logouts, Unseen(LogoutFails(q))
        PROVE  Next
    BY <2>6 DEF Unseen, Next
  <2>7. ASSUME NEW t \in Tokens, Unseen(Expire(t))
        PROVE  Next
    BY <2>7 DEF Unseen, Next
  <2>. QED
    BY <2>1, <2>2, <2>3, <2>4, <2>5, <2>6, <2>7 DEF SessionNext
<1>. QED
  BY <1>1, <1>2, PTL DEF SessionSpec, Spec

-----------------------------------------------------------------------------
(***************************************************************************)
(* What the pages know of their sessions.                                  *)
(***************************************************************************)

\* In an orderly run a page waits for every request of its browser; and one that waits
\* for no refresh and no logout knows whether it is logged in, also while a login that may
\* fail is under way.
Matches(b) ==
  /\ status[b] = "authenticated" => jar[b] # None
  /\ status[b] = "unauthenticated" /\ jar[b] # None => b \in failed

Idles(b) == started[b] /\ \A q \in Refreshes \cup Logouts : from[q] # b

SessionStates == {"idle", "loading", "authenticated", "unauthenticated"}

PageInv ==
  /\ status \in [Browsers -> SessionStates]
  /\ orderly => /\ \A q \in Requests : q \in asked <=> from[q] # None
                /\ \A b \in Browsers : Idles(b) => Matches(b)

\* A step of a request: what it leaves alone, and whether the page is answered.
LEMMA StatementFrames ==
  ASSUME BaseInv, NEW q \in Requests, Statement(q)
  PROVE  /\ UNCHANGED <<jar, started, orderly>>
         /\ \/ at'[q] # "done" /\ from' = from
            \/ at'[q] = "done" /\ Done(q) /\ q \in Tokens
         /\ at[q] # "refused"
<1>. USE DEF Requests, Tokens, tableVars, reqVars, browserVars, BaseInv, TypeOK, Move
<1>1. CASE q \in Logins /\ InsertRefreshToken(q)
  BY <1>1 DEF InsertRefreshToken, Done
<1>2. CASE q \in Logouts /\ (GetActiveRefreshToken(q) \/ RevokeOwn(q))
  BY <1>2 DEF GetActiveRefreshToken, RevokeOwn
<1>3. CASE q \in Refreshes /\ (ReadToken(q) \/ RevokeRefreshToken(q) \/ CommitRotation(q))
  BY <1>3 DEF ReadToken, RevokeRefreshToken, CommitRotation
<1>4. CASE q \in Refreshes /\ (StartRevokeAll(q) \/ RevokeNext(q) \/ CommitRevokeAll(q))
  BY <1>4 DEF StartRevokeAll, RevokeNext, CommitRevokeAll
<1>5. CASE q \in Refreshes /\ BreakDeadlock(q)
  BY <1>5 DEF BreakDeadlock, Rollback, InTransaction, Done
<1>. QED
  BY <1>1, <1>2, <1>3, <1>4, <1>5 DEF Statement

\* A page that hears the end of its request knows whether it is logged in afterwards: a
\* request that ended well left a cookie, one that was refused and a logout left none, and
\* a refresh that ended otherwise is remembered.
LEMMA EndsKeep ==
  ASSUME IInv, PageInv, orderly, orderly', NEW q \in Requests, from[q] # None, Done(q),
         NEW ok \in BOOLEAN, Ends(q, ok), started' = started,
         \A c \in Browsers : c # from[q] => jar'[c] = jar[c],
         q \in Logins => IF ok THEN jar'[from[q]] # None ELSE jar'[from[q]] = jar[from[q]],
         q \in Refreshes => IF ok THEN jar'[from[q]] # None
                            ELSE at[q] # "refused" \/ jar'[from[q]] = None,
         q \in Logouts => jar'[from[q]] = None
  PROVE  PageInv'
<1>0. PICK b \in Browsers : b = from[q]
  BY DEF IInv, BaseInv, TypeOK
<1>1. /\ q \in asked /\ asked' = asked \ {q}
      /\ failed' = IF q \in Refreshes /\ ~ok /\ at[q] # "refused" THEN failed \cup {b} ELSE failed
      /\ \/ q \in Logins    /\ LoginEnds(b, ok)
         \/ q \in Refreshes /\ RefreshEnds(b, ok)
         \/ q \in Logouts   /\ LogoutEnds(b)
  BY <1>0 DEF PageInv, Ends
<1>2. /\ from' = [from EXCEPT ![q] = None] /\ from \in [Requests -> Browsers \cup {None}]
      /\ None \notin Browsers
  BY RequestsAssumption DEF Done, IInv, BaseInv, TypeOK
<1>3. \A r \in Requests : r \in asked' <=> from'[r] # None
  BY <1>1, <1>2 DEF PageInv
<1>4. \A r \in Requests : from[r] = b => r = q
  BY <1>0, <1>2 DEF IInv, OrderlyInv, OneRequest
<1>5. /\ status' \in [Browsers -> SessionStates]
      /\ \A c \in Browsers : c # b => status'[c] = status[c]
  BY <1>1 DEF PageInv, LoginEnds, RefreshEnds, LogoutEnds, Shows, SessionStates
<1>6. ASSUME NEW c \in Browsers, c # b, Idles(c)' PROVE Matches(c)'
  <2>1. Idles(c)
    <3>1. \A r \in Refreshes \cup Logouts : from'[r] # c
      BY <1>6 DEF Idles
    <3>2. \A r \in Refreshes \cup Logouts : r # q => from'[r] = from[r]
      BY <1>2 DEF Requests, Tokens
    <3>. QED
      BY <1>0, <1>6, <3>1, <3>2 DEF Idles
  <2>2. Matches(c) /\ failed \subseteq failed'
    BY <1>1, <2>1 DEF PageInv
  <2>. QED
    BY <1>0, <1>5, <1>6, <2>2 DEF Matches
<1>7. ASSUME Idles(b)' PROVE Matches(b)'
  <2>1. CASE q \in Logins
    <3>1. LoginEnds(b, ok) /\ q \notin Refreshes /\ failed' = failed
      BY <1>1, <2>1, RequestsAssumption
    <3>2. CASE ok
      <4>1. status'[b] = "authenticated" /\ jar'[b] # None
        BY <1>0, <1>1, <2>1, <3>1, <3>2 DEF LoginEnds, Shows, PageInv
      <4>. QED
        BY <4>1 DEF Matches
    <3>3. CASE ~ok
      <4>1. status' = status /\ jar'[b] = jar[b]
        BY <1>0, <2>1, <3>1, <3>3 DEF LoginEnds
      <4>2. \A r \in Refreshes \cup Logouts : r # q /\ r \in Requests
        BY <2>1, RequestsAssumption DEF Requests, Tokens
      <4>3. Idles(b)
        BY <1>4, <1>7, <4>2 DEF Idles
      <4>4. Matches(b)
        BY <1>1, <4>3 DEF PageInv
      <4>. QED
        BY <3>1, <4>1, <4>4 DEF Matches
    <3>. QED
      BY <3>2, <3>3
  <2>2. CASE q \in Refreshes
    <3>1. RefreshEnds(b, ok)
      BY <1>1, <2>2, RequestsAssumption
    <3>2. status'[b] = IF ok THEN "authenticated" ELSE "unauthenticated"
      BY <1>1, <3>1 DEF RefreshEnds, Shows, PageInv
    <3>3. IF ok THEN jar'[b] # None ELSE b \in failed' \/ jar'[b] = None
      BY <1>0, <1>1, <2>2
    <3>. QED
      BY <3>2, <3>3 DEF Matches
  <2>3. CASE q \in Logouts
    <3>1. LogoutEnds(b)
      BY <1>1, <2>3, RequestsAssumption
    <3>2. status'[b] = "unauthenticated" /\ jar'[b] = None
      BY <1>0, <1>1, <2>3, <3>1 DEF LogoutEnds, Shows, PageInv
    <3>. QED
      BY <3>2 DEF Matches
  <2>. QED
    BY <2>1, <2>2, <2>3 DEF Requests, Tokens
<1>. QED
  BY <1>3, <1>5, <1>6, <1>7 DEF PageInv

\* Steps that no page hears of.
LEMMA UnheardKeeps ==
  ASSUME PageInv, UNCHANGED <<tabVars, from, jar, started, orderly>>
  PROVE  PageInv'
  BY DEF PageInv, Idles, Matches, tabVars

\* What a page does keeps the invariant.
LEMMA PageActs ==
  ASSUME IInv, PageInv, orderly, orderly', NEW b \in Browsers,
         \/ \E q \in Logins : PressLogin(q, b)
         \/ \E q \in Logouts : PressLogout(q, b)
         \/ LogoutWithoutCookie(b) \/ Visit(b) \/ LoadSession(b) \/ LoadPage(b)
  PROVE  PageInv'
<1>1. /\ from \in [Requests -> Browsers \cup {None}] /\ at \in [Requests -> Places]
      /\ None \notin Browsers /\ status \in [Browsers -> SessionStates]
      /\ \A q \in Requests : q \in asked <=> from[q] # None
      /\ \A c \in Browsers : Idles(c) => Matches(c)
  BY RequestsAssumption DEF IInv, BaseInv, TypeOK, PageInv
<1>2. ASSUME NEW q \in Logins \cup Logouts, NEW to, Send(q, b, to), Undisturbed(b),
             started' = started, asked' = asked \cup {q}, UNCHANGED <<status, failed>>
      PROVE  PageInv'
  <2>1. /\ q \in Requests /\ from' = [from EXCEPT ![q] = b] /\ jar' = jar
        /\ Quiet(b) /\ started[b]
    BY <1>2 DEF Send, Requests, Tokens, Undisturbed
  <2>2. \A r \in Requests : r \in asked' <=> from'[r] # None
    BY <1>1, <1>2, <2>1
  <2>3. ASSUME NEW c \in Browsers, Idles(c)' PROVE Matches(c)'
    <3>1. from[q] # b
      BY <2>1 DEF Quiet
    <3>2. Idles(c)
      <4>1. CASE c = b
        BY <2>1, <4>1 DEF Idles, Quiet, Requests, Tokens
      <4>2. CASE c # b
        <5>1. \A r \in Refreshes \cup Logouts : from'[r] # c /\ r \in Requests
          BY <2>3 DEF Idles, Requests, Tokens
        <5>2. \A r \in Requests : r # q => from'[r] = from[r]
          BY <1>1, <2>1
        <5>3. from[q] = None
          BY <1>1, <1>2, <2>1 DEF Send, IInv, OrderlyInv, OneRequest
        <5>. QED
          BY <1>1, <1>2, <2>3, <5>1, <5>2, <5>3 DEF Idles
      <4>. QED
        BY <4>1, <4>2
    <3>. QED
      BY <1>1, <1>2, <2>1, <3>2 DEF Matches
  <2>. QED
    BY <1>1, <1>2, <2>2, <2>3 DEF PageInv
<1>3. ASSUME NEW q \in Logins, PressLogin(q, b) PROVE PageInv'
  BY <1>2, <1>3 DEF PressLogin, SendLogin
<1>4. ASSUME NEW q \in Logouts, PressLogout(q, b) PROVE PageInv'
  BY <1>2, <1>4 DEF PressLogout, SendLogout
<1>5. CASE LogoutWithoutCookie(b)
  <2>1. /\ jar[b] = None /\ status' = [status EXCEPT ![b] = "unauthenticated"]
        /\ UNCHANGED <<from, jar, started, asked, failed>>
    BY <1>5 DEF LogoutWithoutCookie, Shows, vars, reqVars, browserVars
  <2>. QED
    BY <1>1, <2>1 DEF PageInv, Idles, Matches, SessionStates
<1>6. CASE Visit(b)
  <2>1. status' = status /\ UNCHANGED <<from, jar, started, asked, failed>>
    BY <1>1, <1>6 DEF Visit, Shows, vars, reqVars, browserVars
  <2>. QED
    BY <1>1, <2>1 DEF PageInv, Idles, Matches
<1>7. CASE LoadSession(b)
  <2>1. /\ started' = [started EXCEPT ![b] = TRUE] /\ failed' = failed
        /\ status' = [status EXCEPT ![b] = IF jar[b] = None THEN "unauthenticated" ELSE "loading"]
        /\ asked' = asked \cup {q \in Refreshes : at'[q] # at[q]}
        /\ DOMAIN started = Browsers
    BY <1>7 DEF LoadSession, SilentRefresh, Shows, IInv, BaseInv, TypeOK
  <2>2. CASE jar[b] = None
    <3>1. UNCHANGED <<from, at, jar>>
      BY <1>7, <2>2 DEF LoadSession, SilentRefresh, reqVars
    <3>2. asked' = asked
      BY <2>1, <3>1
    <3>. QED
      BY <1>1, <2>1, <2>2, <3>1, <3>2 DEF PageInv, Idles, Matches, SessionStates
  <2>3. CASE jar[b] # None
    <3>1. PICK q \in Refreshes : Send(q, b, "read")
      BY <1>7, <2>3 DEF LoadSession, SilentRefresh
    <3>2. /\ q \in Requests /\ from' = [from EXCEPT ![q] = b] /\ jar' = jar
          /\ at' = [at EXCEPT ![q] = "read"] /\ at[q] = "idle"
      BY <3>1 DEF Send, Requests, Tokens
    <3>3. asked' = asked \cup {q} /\ from[q] = None
      BY <1>1, <2>1, <3>1, <3>2 DEF Requests, Tokens, IInv, OrderlyInv, OneRequest
    <3>4. \A r \in Requests : r \in asked' <=> from'[r] # None
      BY <1>1, <3>2, <3>3
    <3>5. ASSUME NEW c \in Browsers, Idles(c)' PROVE Matches(c)'
      <4>1. c # b
        BY <1>1, <3>1, <3>2, <3>5 DEF Idles
      <4>2. \A r \in Requests : r # q => from'[r] = from[r]
        BY <1>1, <3>2
      <4>3. \A r \in Refreshes \cup Logouts : r \in Requests /\ from'[r] # c
        BY <3>5 DEF Idles, Requests, Tokens
      <4>4. Idles(c)
        BY <1>1, <2>1, <3>3, <3>5, <4>1, <4>2, <4>3 DEF Idles
      <4>. QED
        BY <1>1, <2>1, <3>2, <4>1, <4>4 DEF Matches
    <3>. QED
      BY <1>1, <2>1, <3>4, <3>5 DEF PageInv, SessionStates
  <2>. QED
    BY <2>2, <2>3
<1>8. CASE LoadPage(b)
  <2>1. /\ started' = [started EXCEPT ![b] = FALSE] /\ DOMAIN started = Browsers
        /\ status' = [status EXCEPT ![b] = "idle"] /\ UNCHANGED <<from, jar>>
        /\ asked' = {q \in asked : from[q] # b} /\ failed' = failed \ {b} /\ Quiet(b)
    BY <1>8 DEF LoadPage, Reload, Undisturbed, reqVars, IInv, BaseInv, TypeOK
  <2>2. \A r \in Requests : r \in asked' <=> from'[r] # None
    BY <1>1, <2>1 DEF Quiet
  <2>3. ASSUME NEW c \in Browsers, Idles(c)' PROVE Matches(c)'
    <3>1. c # b /\ Idles(c)
      BY <2>1, <2>3 DEF Idles
    <3>. QED
      BY <1>1, <2>1, <3>1 DEF Matches
  <2>. QED
    BY <1>1, <2>1, <2>2, <2>3 DEF PageInv, SessionStates
<1>. QED
  BY <1>3, <1>4, <1>5, <1>6, <1>7, <1>8


\* What the server does, and what comes of it, keeps the invariant.
LEMMA PageHears ==
  ASSUME IInv, IInv', PageInv, orderly, orderly', NEW q \in Requests,
         ServerStep(q) \/ Answered(q) \/ Unanswered(q) \/ Broken(q)
  PROVE  PageInv'
<1>1. /\ from \in [Requests -> Browsers \cup {None}] /\ jar \in [Browsers -> Tokens \cup {None}]
      /\ BaseInv /\ KindInv /\ None \notin Tokens
      /\ at[q] \notin {"idle", "done"} => from[q] # None /\ from[q] \in Browsers
  BY RequestsAssumption DEF IInv, BaseInv, TypeOK, OrderlyInv, OneRequest, Tokens
<1>2. CASE ServerStep(q)
  <2>1. /\ UNCHANGED <<jar, started>> /\ at[q] # "refused"
        /\ \/ at'[q] # "done" /\ UNCHANGED <<from, tabVars>>
           \/ at'[q] = "done" /\ Done(q) /\ q \in Tokens /\ Ends(q, FALSE)
    BY <1>1, <1>2, StatementFrames DEF ServerStep
  <2>2. CASE UNCHANGED <<from, tabVars>>
    BY <2>1, <2>2, UnheardKeeps
  <2>3. CASE Done(q) /\ q \in Tokens /\ Ends(q, FALSE)
    <3>1. from[q] # None
      BY <1>1, <1>2 DEF ServerStep, Statement, InsertRefreshToken, GetActiveRefreshToken,
         RevokeOwn, ReadToken, RevokeRefreshToken, CommitRotation, StartRevokeAll, RevokeNext,
         CommitRevokeAll, BreakDeadlock, Rollback, InTransaction, Move
    <3>2. q \notin Logouts
      BY <2>3, RequestsAssumption DEF Tokens
    <3>. QED
      BY <2>1, <2>3, <3>1, <3>2, EndsKeep
  <2>. QED
    BY <2>1, <2>2, <2>3
<1>3. CASE Answered(q)
  <2> DEFINE ok == at[q] # "refused"
  <2>1. /\ at[q] \in Replies /\ Done(q) /\ started' = started /\ Ends(q, ok)
        /\ jar' = [jar EXCEPT ![from[q]] = IF at[q] = "issued" THEN q ELSE None]
    BY <1>3 DEF Answered, Deliver
  <2>2. from[q] # None /\ from[q] \in Browsers
    BY <1>1, <2>1 DEF Replies
  <2>3. /\ \A c \in Browsers : c # from[q] => jar'[c] = jar[c]
        /\ jar'[from[q]] = IF at[q] = "issued" THEN q ELSE None
    BY <1>1, <2>1, <2>2
  <2>4. /\ q \in Logins => at[q] = "issued"
        /\ q \in Refreshes => at[q] \in {"issued", "refused"}
        /\ q \in Logouts => at[q] \in {"cleared", "ignored"}
    BY <1>1, <2>1 DEF KindInv, Replies
  <2>5. q # None
    BY RequestsAssumption DEF Requests, Tokens
  <2>6. /\ ok \in BOOLEAN
        /\ q \in Logins => IF ok THEN jar'[from[q]] # None ELSE jar'[from[q]] = jar[from[q]]
        /\ q \in Refreshes => IF ok THEN jar'[from[q]] # None
                              ELSE at[q] # "refused" \/ jar'[from[q]] = None
        /\ q \in Logouts => jar'[from[q]] = None
    BY <2>3, <2>4, <2>5
  <2> HIDE DEF ok
  <2>. QED
    BY <2>1, <2>2, <2>3, <2>6, EndsKeep
<1>4. CASE Unanswered(q)
  BY <1>4 DEF Unanswered, Lose
<1>5. CASE Broken(q)
  <2>1. /\ q \in Refreshes /\ Done(q) /\ UNCHANGED <<jar, started>> /\ Ends(q, FALSE)
        /\ InTransaction(q)
    BY <1>5 DEF Broken, Rollback, browserVars
  <2>2. from[q] # None /\ at[q] # "refused" /\ q \notin Logins /\ q \notin Logouts
    BY <1>1, <2>1, RequestsAssumption DEF InTransaction
  <2>. QED
    BY <2>1, <2>2, EndsKeep
<1>. QED
  BY <1>2, <1>3, <1>4, <1>5

\* Every step of the pages and of the server keeps the invariant.
LEMMA PageStep ==
  ASSUME IInv, IInv', orderly' = orderly, PageInv, [SessionNext]_<<vars, tabVars>>
  PROVE  PageInv'
<1>1. CASE ~orderly
  <2>1. status \in [Browsers -> SessionStates] => status' \in [Browsers -> SessionStates]
    BY DEF SessionNext, PressLogin, PressLogout, LogoutWithoutCookie, Visit, LoadSession,
       LoadPage, ServerStep, Answered, Unanswered, Broken, Unseen, Ends, LoginEnds,
       RefreshEnds, LogoutEnds, Shows, SessionStates, tabVars
  <2>. QED
    BY <1>1, <2>1 DEF PageInv
<1>2. CASE orderly
  <2>1. ASSUME NEW b \in Browsers,
               \/ \E q \in Logins : PressLogin(q, b)
               \/ \E q \in Logouts : PressLogout(q, b)
               \/ LogoutWithoutCookie(b) \/ Visit(b) \/ LoadSession(b) \/ LoadPage(b)
        PROVE  PageInv'
    BY <1>2, <2>1, PageActs
  <2>2. ASSUME NEW q \in Requests,
               ServerStep(q) \/ Answered(q) \/ Unanswered(q) \/ Broken(q)
        PROVE  PageInv'
    BY <1>2, <2>2, PageHears
  <2>3. ASSUME NEW q \in Logouts, Unseen(LogoutFails(q)) PROVE PageInv'
    <3>1. UNCHANGED <<tabVars, from, jar, started, orderly>>
      BY <2>3 DEF Unseen, LogoutFails, browserVars
    <3>. QED
      BY <3>1, UnheardKeeps
  <2>4. ASSUME NEW t \in Tokens, Unseen(Expire(t)) PROVE PageInv'
    <3>1. UNCHANGED <<tabVars, from, jar, started, orderly>>
      BY <2>4 DEF Unseen, Expire, browserVars, reqVars
    <3>. QED
      BY <3>1, UnheardKeeps
  <2>5. ASSUME UNCHANGED <<vars, tabVars>> PROVE PageInv'
    <3>1. UNCHANGED <<tabVars, from, jar, started, orderly>>
      BY <2>5 DEF vars, browserVars, reqVars
    <3>. QED
      BY <3>1, UnheardKeeps
  <2>. QED
    BY <2>1, <2>2, <2>3, <2>4, <2>5 DEF SessionNext
<1>. QED
  BY <1>1, <1>2

\* At first no page has asked for its session.
LEMMA PageInit == ASSUME SessionInit PROVE PageInv
<1>1. status \in [Browsers -> SessionStates] /\ asked = {}
  BY DEF SessionInit, SessionStates
<1>2. \A q \in Requests : from[q] = None
  BY DEF SessionInit, Init
<1>3. \A b \in Browsers : ~started[b]
  BY DEF SessionInit, Init
<1>. QED
  BY <1>1, <1>2, <1>3 DEF PageInv, Idles

\* In an orderly run a page that has nothing under way works only with a cookie, and asks
\* for a login despite a cookie only when its refresh got no answer (SilentRefresh.tsx,
\* useAuthStore, the login form, DashboardSidebar's handleLogout).
THEOREM PagesMatchTheirJars == SessionSpec => []TabMatchesJar
<1>1. PageInv => TabMatchesJar
  BY DEF PageInv, TabMatchesJar, Idles, Matches, Quiet, Requests, Tokens
<1>2. [SessionNext]_<<vars, tabVars>> /\ [Next]_vars /\ IInv /\ IInv' /\ PageInv => PageInv'
  BY OrderlyFixed, PageStep
<1>3. Spec => [][Next]_vars
  BY PTL DEF Spec
<1>. QED
  BY <1>1, <1>2, <1>3, PageInit, PagesUseTokens, Invariance, PTL DEF SessionSpec

=============================================================================
