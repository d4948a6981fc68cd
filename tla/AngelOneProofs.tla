--------------------------- MODULE AngelOneProofs ---------------------------
(***************************************************************************)
(* The two clients of Angel One.                                           *)
(*                                                                         *)
(* AngelSession: the retry of a request is sound for any number of         *)
(* requests and accounts and any number of logins next to them.  The       *)
(* sessions are numbered, and what a request has seen of the numbers       *)
(* bounds what it can meet later.                                          *)
(*                                                                         *)
(* LiveFeed: the reference counts, the routes, the socket and its reader   *)
(* fit together for any number of charts, symbols and lost connections,    *)
(* wherever a chart is closed.                                             *)
(***************************************************************************)
EXTENDS AngelSession, LiveFeed, FiniteSetTheorems, SequenceTheorems, TLAPS

-----------------------------------------------------------------------------
(* The session: what a request has seen.                                   *)

\* What holds of a request when n sessions have been issued.  Its own logins
\* are among the sessions issued since it began; every attempt has one login at
\* most; and the second attempt runs on a login of its own, which is the newest
\* of all it has made.
RequestInv(rq, n) ==
    /\ rq.since + rq.logins <= n
    /\ rq.session <= n /\ rq.earlier <= n
    /\ rq.logins <= rq.attempt
    /\ rq.step = "idle" => rq = IdleRequest
    /\ rq.step = "loggingIn" => rq.logins < rq.attempt /\ rq.account \in Accounts
    /\ rq.attempt = 2 /\ rq.step \in {"loginReplied", "calling", "answered"} =>
           rq.session > rq.earlier /\ rq.session >= rq.since + rq.logins
    /\ rq.step = "failed" /\ rq.cause = "superseded" => n > rq.since + rq.logins

DialogInv == dialog.step = "loggingIn" => dialog.account \in Accounts

SessionInv ==
    /\ TypeOK
    /\ DialogInv
    /\ \A r \in Requests : RequestInv(request[r], LastIssued)

-----------------------------------------------------------------------------
\* A login adds one session and leaves the earlier ones.
LEMMA Issuing ==
    ASSUME accountOf \in Seq(Accounts), NEW a \in Accounts, IssueTo(a)
    PROVE  /\ accountOf' \in Seq(Accounts)
           /\ LastIssued \in Nat /\ LastIssued' = LastIssued + 1
           /\ Issued = 1 .. LastIssued /\ Issued' = 1 .. LastIssued'
  BY DEF IssueTo, LastIssued, Issued

\* More sessions do no harm to a request that is left alone.
LEMMA RequestInvGrows ==
    ASSUME NEW rq \in Request, NEW n \in Nat, NEW m \in Nat, n <= m, RequestInv(rq, n)
    PROVE  RequestInv(rq, m)
  BY DEF RequestInv, Request

\* A step of one request leaves the others as they are.
LEMMA OneRequestMoves ==
    ASSUME SessionInv, NEW r \in Requests, NEW rq \in Request,
           request' = [request EXCEPT ![r] = rq],
           LastIssued \in Nat, LastIssued' \in Nat, LastIssued <= LastIssued',
           RequestInv(rq, LastIssued')
    PROVE  /\ request' \in [Requests -> Request]
           /\ \A q \in Requests : RequestInv(request'[q], LastIssued')
<1>1. request \in [Requests -> Request]
  BY DEF SessionInv, TypeOK
<1>2. ASSUME NEW q \in Requests
      PROVE  RequestInv(request'[q], LastIssued')
  <2>1. CASE q = r
    BY <2>1, <1>1
  <2>2. CASE q # r
    <3>1. request'[q] = request[q] /\ request[q] \in Request
      BY <2>2, <1>1
    <3>2. RequestInv(request[q], LastIssued)
      BY DEF SessionInv
    <3> QED
      BY <3>1, <3>2, RequestInvGrows
  <2> QED
    BY <2>1, <2>2
<1> QED
  BY <1>1, <1>2

LEMMA OnlyARequestMoves ==
    ASSUME SessionInv, NEW r \in Requests, NEW rq \in Request,
           request' = [request EXCEPT ![r] = rq], UNCHANGED accountOf, RequestInv(rq, LastIssued)
    PROVE  /\ request' \in [Requests -> Request]
           /\ \A q \in Requests : RequestInv(request'[q], LastIssued')
<1>1. LastIssued' = LastIssued /\ LastIssued \in Nat
  BY DEF SessionInv, TypeOK, LastIssued
<1>2. RequestInv(rq, LastIssued') /\ LastIssued <= LastIssued' /\ LastIssued' \in Nat
  BY <1>1
<1> QED
  BY <1>1, <1>2, OneRequestMoves

\* Where _ensure_session leaves a request that has a login left in this attempt.
LEMMA Ensured ==
    ASSUME SessionInv, NEW rq \in Request, NEW current \in Nat, LastIssued \in Nat,
           rq.since + rq.logins <= LastIssued, rq.session <= LastIssued, rq.earlier <= LastIssued,
           rq.logins < rq.attempt, current <= LastIssued, rq.attempt = 2 => current = NoSession
    PROVE  /\ EnsureSession(rq, current) \in Request
           /\ RequestInv(EnsureSession(rq, current), LastIssued)
<1>1. credentials \in Accounts \cup {NoAccount}
  BY DEF SessionInv, TypeOK
<1>2. CASE credentials = NoAccount
  <2> DEFINE new == [rq EXCEPT !.step = "notConfigured"]
  <2>1. new \in Request
    BY DEF Request, RequestStep, Ended
  <2>2. /\ new.step = "notConfigured" /\ new.attempt = rq.attempt /\ new.session = rq.session
        /\ new.earlier = rq.earlier /\ new.since = rq.since /\ new.logins = rq.logins
    BY DEF Request
  <2>3. RequestInv(new, LastIssued)
    BY <2>2 DEF RequestInv, Request
  <2> QED
    BY <2>1, <2>3, <1>2 DEF EnsureSession
<1>3. CASE credentials # NoAccount /\ current # NoSession
  <2> DEFINE new == [rq EXCEPT !.step = "calling", !.session = current]
  <2>1. new \in Request
    BY DEF Request, RequestStep, Ended
  <2>2. /\ new.step = "calling" /\ new.attempt = rq.attempt /\ new.session = current
        /\ new.earlier = rq.earlier /\ new.since = rq.since /\ new.logins = rq.logins
    BY DEF Request
  <2>3. RequestInv(new, LastIssued)
    BY <1>3, <2>2 DEF RequestInv, Request
  <2> QED
    BY <2>1, <2>3, <1>3 DEF EnsureSession
<1>4. CASE credentials # NoAccount /\ current = NoSession
  <2> DEFINE new == [rq EXCEPT !.step = "loggingIn", !.account = credentials]
  <2>1. new \in Request
    BY <1>1 DEF Request, RequestStep, Ended
  <2>2. /\ new.step = "loggingIn" /\ new.attempt = rq.attempt /\ new.session = rq.session
        /\ new.earlier = rq.earlier /\ new.since = rq.since /\ new.logins = rq.logins
        /\ new.account = credentials
    BY DEF Request
  <2>3. RequestInv(new, LastIssued)
    BY <1>1, <1>4, <2>2 DEF RequestInv, Request
  <2> QED
    BY <2>1, <2>3, <1>4 DEF EnsureSession
<1> QED
  BY <1>2, <1>3, <1>4

\* A login of its own gives a request the newest session.
LEMMA OwnLogin ==
    ASSUME NEW rq \in Request, NEW n \in Nat, RequestInv(rq, n), rq.step = "loggingIn",
           NEW new, new = [rq EXCEPT !.step = "loginReplied", !.session = n + 1, !.logins = rq.logins + 1]
    PROVE  new \in Request /\ RequestInv(new, n + 1)
<1>1. /\ rq.since \in Nat /\ rq.logins \in Nat /\ rq.earlier \in Nat /\ rq.attempt \in 1 .. 2
      /\ n + 1 \in Nat /\ rq.logins + 1 \in Nat
  BY DEF Request
<1>2. /\ rq.since + rq.logins <= n /\ rq.earlier <= n /\ rq.logins < rq.attempt
  BY DEF RequestInv
<1>3. new \in Request
  BY <1>1 DEF Request, RequestStep, Ended
<1>4. /\ new.step = "loginReplied" /\ new.attempt = rq.attempt
      /\ new.session = n + 1 /\ new.earlier = rq.earlier
      /\ new.since = rq.since /\ new.logins = rq.logins + 1
  BY DEF Request
<1> QED
  BY <1>1, <1>2, <1>3, <1>4 DEF RequestInv

\* An error of the candle call: the first attempt starts over without a session,
\* the second one ends the request.
LEMMA Raising ==
    ASSUME SessionInv, NEW r \in Requests, NEW cause \in Cause, request[r].step = "calling",
           cause = "superseded" => ~Accepted(request[r].session),
           CallRaises(r, cause), UNCHANGED accountOf
    PROVE  /\ request' \in [Requests -> Request]
           /\ \A q \in Requests : RequestInv(request'[q], LastIssued')
           /\ session' \in {session, NoSession}
<1> DEFINE rq == [request[r] EXCEPT !.cause = cause, !.earlier = request[r].session]
<1>1. request[r] \in Request /\ RequestInv(request[r], LastIssued)
  BY DEF SessionInv, TypeOK
<1>2. /\ LastIssued \in Nat /\ LastIssued' = LastIssued
      /\ Issued = 1 .. LastIssued
  BY DEF SessionInv, TypeOK, LastIssued, Issued
<1>3. /\ rq \in Request
      /\ rq.step = "calling" /\ rq.attempt = request[r].attempt /\ rq.session = request[r].session
      /\ rq.earlier = request[r].session /\ rq.since = request[r].since
      /\ rq.logins = request[r].logins /\ rq.cause = cause
  BY <1>1 DEF Request
<1>4. CASE rq.attempt = 2
  <2> DEFINE new == [rq EXCEPT !.step = "failed"]
  <2>1. request' = [request EXCEPT ![r] = new] /\ session' = session
    BY <1>4 DEF CallRaises
  <2>2. /\ new \in Request
        /\ new.step = "failed" /\ new.attempt = 2 /\ new.session = request[r].session
        /\ new.earlier = request[r].session /\ new.since = request[r].since
        /\ new.logins = request[r].logins /\ new.cause = cause
    BY <1>3, <1>4 DEF Request, RequestStep, Ended
  <2>3. cause = "superseded" => LastIssued > request[r].since + request[r].logins
    <3> HAVE cause = "superseded"
    <3>1. PICK n \in 1 .. LastIssued : ~(n <= request[r].session)
      BY <1>2 DEF Accepted
    <3>2. request[r].session >= request[r].since + request[r].logins
      BY <1>1, <1>3, <1>4 DEF RequestInv
    <3> QED
      BY <3>1, <3>2, <1>1, <1>2 DEF Request
  <2>4. RequestInv(new, LastIssued)
    BY <1>1, <1>2, <2>2, <2>3 DEF RequestInv, Request
  <2> HIDE DEF new
  <2>5. /\ request' \in [Requests -> Request]
        /\ \A q \in Requests : RequestInv(request'[q], LastIssued')
    BY <2>1, <2>2, <2>4, OnlyARequestMoves
  <2> QED
    BY <2>1, <2>5
<1>5. CASE rq.attempt # 2
  <2> DEFINE again == [rq EXCEPT !.attempt = 2]
             new == EnsureSession(again, NoSession)
  <2>1. request' = [request EXCEPT ![r] = new] /\ session' = NoSession
    BY <1>5 DEF CallRaises
  <2> HIDE DEF rq
  <2>2. /\ again \in Request
        /\ again.attempt = 2 /\ again.session = request[r].session
        /\ again.earlier = request[r].session /\ again.since = request[r].since
        /\ again.logins = request[r].logins
    BY <1>3 DEF Request
  <2>3. again.logins < 2
    BY <1>1, <1>3, <1>5, <2>2 DEF RequestInv, Request
  <2>4. /\ again.since + again.logins <= LastIssued
        /\ again.session <= LastIssued /\ again.earlier <= LastIssued
    BY <1>1, <2>2 DEF RequestInv
  <2>5. NoSession \in Nat /\ NoSession <= LastIssued
    BY <1>2 DEF NoSession
  <2> HIDE DEF again
  <2>6. new \in Request /\ RequestInv(new, LastIssued)
    BY <1>2, <2>2, <2>3, <2>4, <2>5, Ensured
  <2> HIDE DEF new
  <2>7. /\ request' \in [Requests -> Request]
        /\ \A q \in Requests : RequestInv(request'[q], LastIssued')
    BY <2>1, <2>6, OnlyARequestMoves
  <2> QED
    BY <2>1, <2>7
<1> QED
  BY <1>4, <1>5

-----------------------------------------------------------------------------
\* The invariant is inductive: every step of a request, of the settings dialog
\* and of the owner of an account keeps it.
THEOREM SessionInvariant == Spec => []SessionInv
<1>1. Init => SessionInv
  <2> SUFFICES ASSUME Init
               PROVE  SessionInv
    OBVIOUS
  <2>1. LastIssued = 0 /\ accountOf \in Seq(Accounts)
    BY DEF Init, LastIssued
  <2>2. IdleRequest \in Request /\ RequestInv(IdleRequest, 0)
    BY DEF IdleRequest, Request, RequestStep, Ended, Cause, RequestInv, NoSession
  <2>3. TypeOK
    BY <2>1, <2>2, InitialAssumption DEF Init, TypeOK, IdleDialog, NoSession
  <2> QED
    BY <2>1, <2>2, <2>3 DEF Init, SessionInv, DialogInv, IdleDialog
<1>2. SessionInv /\ [Next]_vars => SessionInv'
  <2> SUFFICES ASSUME SessionInv, [Next]_vars
               PROVE  SessionInv'
    OBVIOUS
  <2>1. /\ TypeOK /\ DialogInv
        /\ LastIssued \in Nat /\ Issued = 1 .. LastIssued
        /\ \A r \in Requests : request[r] \in Request /\ RequestInv(request[r], LastIssued)
    BY DEF SessionInv, TypeOK, LastIssued, Issued
  <2>2. ASSUME UNCHANGED <<accountOf, dialog, credentials>>, session' \in {session, NoSession},
               request' \in [Requests -> Request],
               \A r \in Requests : RequestInv(request'[r], LastIssued')
        PROVE  SessionInv'
    BY <2>1, <2>2 DEF SessionInv, TypeOK, DialogInv, Issued, NoSession
  <2>3. ASSUME UNCHANGED <<accountOf, request>>
        PROVE  \A r \in Requests : RequestInv(request'[r], LastIssued')
    BY <2>1, <2>3 DEF LastIssued
  <2>4. ASSUME NEW a \in Accounts, IssueTo(a), UNCHANGED <<provider, request>>,
               dialog' \in [step: {"idle", "loggingIn", "loginReplied", "clearing"},
                            op: {"none", "test", "connect", "disconnect"},
                            account: Accounts \cup {NoAccount}],
               DialogInv'
        PROVE  SessionInv'
    <3>1. /\ accountOf' \in Seq(Accounts) /\ LastIssued' = LastIssued + 1
          /\ Issued' = 1 .. LastIssued'
      BY <2>1, <2>4, Issuing DEF TypeOK
    <3>2. \A r \in Requests : RequestInv(request'[r], LastIssued')
      BY <2>1, <2>4, <3>1, RequestInvGrows
    <3> QED
      BY <2>1, <2>4, <3>1, <3>2 DEF SessionInv, TypeOK, provider
  <2>5. CASE UNCHANGED vars
    BY <2>1, <2>2, <2>3, <2>5 DEF vars, provider, TypeOK
  <2>6. ASSUME NEW r \in Requests, Begin(r)
        PROVE  SessionInv'
    <3> DEFINE begun == [request[r] EXCEPT !.since = LastIssued]
               new == EnsureSession(begun, session)
    <3>1. /\ request' = [request EXCEPT ![r] = new]
          /\ UNCHANGED <<provider, accountOf, dialog>> /\ LastIssued' = LastIssued
      BY <2>1, <2>6 DEF Begin, TypeOK, LastIssued
    <3>2. request[r] = IdleRequest
      BY <2>1, <2>6 DEF Begin, RequestInv
    <3>3. /\ begun \in Request /\ begun.since = LastIssued /\ begun.logins = 0
          /\ begun.session = 0 /\ begun.earlier = 0 /\ begun.attempt = 1
      BY <2>1, <3>2 DEF IdleRequest, Request, NoSession
    <3>4. session \in Nat /\ session <= LastIssued
      BY <2>1 DEF TypeOK, NoSession
    <3> HIDE DEF begun
    <3>5. new \in Request /\ RequestInv(new, LastIssued)
      BY <2>1, <3>3, <3>4, Ensured
    <3> HIDE DEF new
    <3>6. /\ request' \in [Requests -> Request]
          /\ \A q \in Requests : RequestInv(request'[q], LastIssued')
      BY <3>1, <3>5, OnlyARequestMoves
    <3> QED
      BY <2>2, <3>1, <3>6 DEF provider
  <2>7. ASSUME NEW r \in Requests, LoginIssued(r)
        PROVE  SessionInv'
    <3> DEFINE new == [request[r] EXCEPT !.step = "loginReplied", !.session = LastIssued + 1,
                                         !.logins = request[r].logins + 1]
    <3>1. /\ request' = [request EXCEPT ![r] = new]
          /\ request[r].step = "loggingIn"
          /\ IssueTo(request[r].account) /\ UNCHANGED <<provider, dialog>>
      BY <2>1, <2>7 DEF LoginIssued, TypeOK
    <3>2. request[r].account \in Accounts /\ request[r].logins < request[r].attempt
      BY <2>1, <3>1 DEF RequestInv
    <3>3. /\ accountOf' \in Seq(Accounts) /\ LastIssued' = LastIssued + 1
          /\ Issued' = 1 .. LastIssued'
      BY <2>1, <3>1, <3>2, Issuing DEF TypeOK
    <3>4. request[r] \in Request /\ RequestInv(request[r], LastIssued) /\ LastIssued \in Nat
      BY <2>1
    <3>5. /\ new \in Request /\ RequestInv(new, LastIssued')
      BY <3>1, <3>3, <3>4, OwnLogin
    <3>6. LastIssued' \in Nat /\ LastIssued <= LastIssued'
      BY <3>3, <3>4
    <3> HIDE DEF new
    <3>7. /\ request' \in [Requests -> Request]
          /\ \A q \in Requests : RequestInv(request'[q], LastIssued')
      BY <3>1, <3>4, <3>5, <3>6, OneRequestMoves
    <3> QED
      BY <2>1, <3>1, <3>3, <3>7 DEF SessionInv, TypeOK, DialogInv, provider
  <2>8. ASSUME NEW r \in Requests, LoginFails(r)
        PROVE  SessionInv'
    <3> DEFINE new == [request[r] EXCEPT !.step = "failed", !.cause = "login"]
    <3>1. /\ request' = [request EXCEPT ![r] = new]
          /\ UNCHANGED <<provider, accountOf, dialog>> /\ LastIssued' = LastIssued
      BY <2>1, <2>8 DEF LoginFails, TypeOK, LastIssued
    <3>2. /\ new \in Request
          /\ new.step = "failed" /\ new.cause = "login" /\ new.attempt = request[r].attempt
          /\ new.session = request[r].session /\ new.earlier = request[r].earlier
          /\ new.since = request[r].since /\ new.logins = request[r].logins
      BY <2>1 DEF Request, RequestStep, Ended, Cause
    <3>3. RequestInv(new, LastIssued)
      BY <2>1, <3>2 DEF RequestInv, Request
    <3> HIDE DEF new
    <3>4. /\ request' \in [Requests -> Request]
          /\ \A q \in Requests : RequestInv(request'[q], LastIssued')
      BY <3>1, <3>2, <3>3, OnlyARequestMoves
    <3> QED
      BY <2>2, <3>1, <3>4 DEF provider
  <2>9. ASSUME NEW r \in Requests, LoginReturns(r)
        PROVE  SessionInv'
    <3> DEFINE new == [request[r] EXCEPT !.step = "calling", !.account = NoAccount]
    <3>1. /\ request' = [request EXCEPT ![r] = new]
          /\ request[r].step = "loginReplied" /\ session' = request[r].session
          /\ UNCHANGED <<credentials, accountOf, dialog>> /\ LastIssued' = LastIssued
      BY <2>1, <2>9 DEF LoginReturns, TypeOK, LastIssued
    <3>2. /\ new \in Request
          /\ new.step = "calling" /\ new.attempt = request[r].attempt
          /\ new.session = request[r].session /\ new.earlier = request[r].earlier
          /\ new.since = request[r].since /\ new.logins = request[r].logins
      BY <2>1 DEF Request, RequestStep, Ended
    <3>3. RequestInv(new, LastIssued)
      BY <2>1, <3>1, <3>2 DEF RequestInv, Request
    <3>4. session' \in Nat /\ session' <= LastIssued
      BY <2>1, <3>1 DEF RequestInv, Request
    <3> HIDE DEF new
    <3>5. /\ request' \in [Requests -> Request]
          /\ \A q \in Requests : RequestInv(request'[q], LastIssued')
      BY <3>1, <3>2, <3>3, OnlyARequestMoves
    <3> QED
      BY <2>1, <3>1, <3>4, <3>5 DEF SessionInv, TypeOK, DialogInv, Issued, NoSession
  <2>10. ASSUME NEW r \in Requests, CallAnswered(r)
         PROVE  SessionInv'
    <3> DEFINE new == [request[r] EXCEPT !.step = "answered"]
    <3>1. /\ request' = [request EXCEPT ![r] = new] /\ request[r].step = "calling"
          /\ UNCHANGED <<provider, accountOf, dialog>> /\ LastIssued' = LastIssued
      BY <2>1, <2>10 DEF CallAnswered, TypeOK, LastIssued
    <3>2. /\ new \in Request
          /\ new.step = "answered" /\ new.attempt = request[r].attempt
          /\ new.session = request[r].session /\ new.earlier = request[r].earlier
          /\ new.since = request[r].since /\ new.logins = request[r].logins
      BY <2>1 DEF Request, RequestStep, Ended
    <3>3. RequestInv(new, LastIssued)
      BY <2>1, <3>1, <3>2 DEF RequestInv, Request
    <3> HIDE DEF new
    <3>4. /\ request' \in [Requests -> Request]
          /\ \A q \in Requests : RequestInv(request'[q], LastIssued')
      BY <3>1, <3>2, <3>3, OnlyARequestMoves
    <3> QED
      BY <2>2, <3>1, <3>4 DEF provider
  <2>11. ASSUME NEW r \in Requests, CallRejected(r)
         PROVE  SessionInv'
    <3>1. "superseded" \in Cause /\ request[r].step = "calling" /\ ~Accepted(request[r].session)
          /\ CallRaises(r, "superseded") /\ UNCHANGED <<credentials, accountOf, dialog>>
      BY <2>11 DEF CallRejected, Cause
    <3> QED
      BY <3>1, <2>2, Raising
  <2>12. ASSUME NEW r \in Requests, CallGlitches(r)
         PROVE  SessionInv'
    <3>1. "glitch" \in Cause /\ "glitch" # "superseded" /\ request[r].step = "calling"
          /\ CallRaises(r, "glitch") /\ UNCHANGED <<credentials, accountOf, dialog>>
      BY <2>12 DEF CallGlitches, Cause
    <3> QED
      BY <3>1, <2>2, Raising
  <2>13. CASE Dialog
    <3>1. ASSUME NEW op \in {"test", "connect"}, NEW account \in Accounts, DialogBegins(op, account)
          PROVE  SessionInv'
      BY <2>1, <2>3, <3>1 DEF DialogBegins, SessionInv, TypeOK, DialogInv, Issued, provider
    <3>2. CASE DialogLoginIssued
      BY <2>1, <2>4, <3>2 DEF DialogLoginIssued, DialogInv, TypeOK
    <3>3. CASE DialogLoginFails \/ TestConnectionReturns
      BY <2>1, <2>3, <3>3
      DEF DialogLoginFails, TestConnectionReturns, IdleDialog, SessionInv, TypeOK, DialogInv, Issued, provider
    <3>4. CASE ConnectReturns
      BY <2>1, <2>3, <3>4
      DEF ConnectReturns, IdleDialog, SessionInv, TypeOK, DialogInv, Issued, NoSession
    <3>5. CASE DisconnectClears
      BY <2>1, <2>3, <3>5 DEF DisconnectClears, SessionInv, TypeOK, DialogInv, Issued
    <3>6. CASE DisconnectResets
      BY <2>1, <2>3, <3>6
      DEF DisconnectResets, IdleDialog, SessionInv, TypeOK, DialogInv, Issued, NoSession
    <3> QED
      BY <2>13, <3>1, <3>2, <3>3, <3>4, <3>5, <3>6 DEF Dialog
  <2>14. ASSUME NEW account \in Accounts, LoginElsewhere(account)
         PROVE  SessionInv'
    BY <2>1, <2>4, <2>14 DEF LoginElsewhere, DialogInv, TypeOK
  <2> QED
    BY <2>5, <2>6, <2>7, <2>8, <2>9, <2>10, <2>11, <2>12, <2>13, <2>14 DEF Next, RequestStepOf
<1> QED
  BY <1>1, <1>2, PTL DEF Spec

\* A request logs in at most twice, its retry runs on a session newer than the
\* one that was refused, and the types hold.
THEOREM RetriesStaySound == Spec => []RetriesAreSound
<1>1. SessionInv => RetriesAreSound
  <2> SUFFICES ASSUME SessionInv
               PROVE  RetriesAreSound
    OBVIOUS
  <2>1. \A r \in Requests : request[r] \in Request /\ RequestInv(request[r], LastIssued)
    BY DEF SessionInv, TypeOK
  <2>2. ASSUME NEW r \in Requests
        PROVE  request[r].logins <= 2
    <3>1. request[r].logins <= request[r].attempt /\ request[r].attempt \in 1 .. 2 /\ request[r].logins \in Nat
      BY <2>1 DEF RequestInv, Request
    <3> QED
      BY <3>1
  <2>3. RetryUsesNewerSession
    BY <2>1 DEF RetryUsesNewerSession, RequestInv
  <2> QED
    BY <2>2, <2>3 DEF RetriesAreSound, SessionInv
<1> QED
  BY <1>1, SessionInvariant, PTL

\* A request fails for the want of a session only when somebody else has logged
\* in since it began.
THEOREM LoneRequestRecovers == Spec => []UndisturbedRequestRecovers
<1>1. SessionInv => UndisturbedRequestRecovers
  BY DEF SessionInv, RequestInv, UndisturbedRequestRecovers
<1> QED
  BY <1>1, SessionInvariant, PTL

-----------------------------------------------------------------------------
(* The live feed: the streams and the connection.                          *)

\* The streams and the manager, and the connection: FeedIsConsistent in the two
\* halves that a step disturbs one at a time.
StreamTypeOK ==
    /\ stream \in [Streams -> StreamStep]
    /\ lockHolder \in Streams \cup {NoStream}
    /\ \A c \in Streams : stream[c] \in {"resolving", "subscribing"} <=> lockHolder = c
    /\ refcounts \in [Symbols -> Nat]

StreamInv == StreamTypeOK /\ RefcountCoversViewers

ConnectionInv ==
    /\ routed \subseteq Listed /\ served \subseteq Listed
    /\ state \in State /\ run \in RunStep /\ linkUp \in BOOLEAN
    /\ ConnectedServesRouted /\ SocketHasReader

LEMMA FeedInTwoHalves == FeedIsConsistent <=> StreamInv /\ ConnectionInv
  BY DEF FeedIsConsistent, FeedTypeOK, StreamInv, StreamTypeOK, ConnectionInv

-----------------------------------------------------------------------------
(* Counting viewers.                                                       *)

LEMMA ViewersFinite ==
    ASSUME NEW s
    PROVE  /\ IsFiniteSet(Viewers(s)) /\ Cardinality(Viewers(s)) \in Nat
           /\ IsFiniteSet(Viewers(s)') /\ Cardinality(Viewers(s)') \in Nat
<1>1. Viewers(s) \subseteq Streams /\ Viewers(s)' \subseteq Streams
  BY DEF Viewers
<1> QED
  BY <1>1, FiniteAssumption, FS_Subset, FS_CardinalityType

\* A stream that is counted only if it was before, with the counts as they are.
LEMMA NobodyIsCounted ==
    ASSUME StreamInv, NEW c \in Streams, NEW step, stream' = [stream EXCEPT ![c] = step],
           UNCHANGED refcounts, step \in Counted => stream[c] \in Counted
    PROVE  RefcountCoversViewers'
<1>1. ASSUME NEW s \in Symbols
      PROVE  refcounts'[s] >= Cardinality(Viewers(s)')
  <2>1. Viewers(s)' \subseteq Viewers(s)
    BY DEF Viewers, StreamInv, StreamTypeOK
  <2>2. Cardinality(Viewers(s)') <= Cardinality(Viewers(s))
    BY <2>1, ViewersFinite, FS_Subset
  <2>3. refcounts[s] >= Cardinality(Viewers(s)) /\ refcounts[s] \in Nat
    BY DEF StreamInv, StreamTypeOK, RefcountCoversViewers
  <2> QED
    BY <2>2, <2>3, ViewersFinite
<1> QED
  BY <1>1 DEF RefcountCoversViewers

\* acquire counts the stream.
LEMMA AViewerIsCounted ==
    ASSUME StreamInv, NEW c \in Streams, NEW step, stream' = [stream EXCEPT ![c] = step],
           refcounts' = [refcounts EXCEPT ![SymbolOf[c]] = @ + 1]
    PROVE  refcounts' \in [Symbols -> Nat] /\ RefcountCoversViewers'
<1>1. SymbolOf[c] \in Symbols /\ refcounts \in [Symbols -> Nat]
  BY StreamAssumption DEF StreamInv, StreamTypeOK
<1>2. ASSUME NEW s \in Symbols
      PROVE  refcounts'[s] >= Cardinality(Viewers(s)')
  <2>1. refcounts[s] >= Cardinality(Viewers(s)) /\ refcounts[s] \in Nat
    BY DEF StreamInv, StreamTypeOK, RefcountCoversViewers
  <2>2. CASE s = SymbolOf[c]
    <3>1. Viewers(s)' \subseteq Viewers(s) \cup {c}
      BY DEF Viewers, StreamInv, StreamTypeOK
    <3>f. IsFiniteSet(Viewers(s)) /\ Cardinality(Viewers(s)) \in Nat
      BY ViewersFinite
    <3>g. /\ IsFiniteSet(Viewers(s) \cup {c})
          /\ \/ Cardinality(Viewers(s) \cup {c}) = Cardinality(Viewers(s))
             \/ Cardinality(Viewers(s) \cup {c}) = Cardinality(Viewers(s)) + 1
      BY <3>f, FS_AddElement, Zenon
    <3>2. /\ IsFiniteSet(Viewers(s) \cup {c})
          /\ Cardinality(Viewers(s) \cup {c}) \in Nat
          /\ Cardinality(Viewers(s) \cup {c}) <= Cardinality(Viewers(s)) + 1
      BY <3>f, <3>g
    <3>3. Cardinality(Viewers(s)') <= Cardinality(Viewers(s) \cup {c})
      BY <3>1, <3>2, FS_Subset
    <3> QED
      BY <2>1, <2>2, <3>2, <3>3, <1>1, ViewersFinite
  <2>3. CASE s # SymbolOf[c]
    <3>1. Viewers(s)' = Viewers(s)
      BY <2>3 DEF Viewers, StreamInv, StreamTypeOK
    <3> QED
      BY <2>1, <2>3, <3>1, <1>1
  <2> QED
    BY <2>2, <2>3
<1> QED
  BY <1>1, <1>2 DEF RefcountCoversViewers

\* A stream that is counted has its share of the count.
LEMMA ACountedStreamCounts ==
    ASSUME StreamInv, NEW c \in Streams, stream[c] \in Counted
    PROVE  /\ refcounts[SymbolOf[c]] >= Cardinality(Viewers(SymbolOf[c]))
           /\ refcounts[SymbolOf[c]] \in Nat
           /\ Cardinality(Viewers(SymbolOf[c])) \in Nat
           /\ Cardinality(Viewers(SymbolOf[c]) \ {c}) = Cardinality(Viewers(SymbolOf[c])) - 1
           /\ Cardinality(Viewers(SymbolOf[c]) \ {c}) \in Nat
<1>1. c \in Viewers(SymbolOf[c]) /\ SymbolOf[c] \in Symbols
  BY StreamAssumption DEF Viewers
<1> QED
  BY <1>1, ViewersFinite, FS_RemoveElement, FS_CardinalityType
  DEF StreamInv, StreamTypeOK, RefcountCoversViewers

\* release takes the share of the stream back, and that of no other.
LEMMA AViewerIsReleased ==
    ASSUME StreamInv, NEW c \in Streams, stream[c] \in Counted, stream' = [stream EXCEPT ![c] = "over"],
           refcounts' = [refcounts EXCEPT ![SymbolOf[c]] = @ - 1]
    PROVE  refcounts' \in [Symbols -> Nat] /\ RefcountCoversViewers'
<1>1. SymbolOf[c] \in Symbols /\ refcounts \in [Symbols -> Nat]
  BY StreamAssumption DEF StreamInv, StreamTypeOK
<1>2. refcounts[SymbolOf[c]] - 1 \in Nat
  <2>1. /\ refcounts[SymbolOf[c]] \in Nat
        /\ refcounts[SymbolOf[c]] >= Cardinality(Viewers(SymbolOf[c]))
        /\ Cardinality(Viewers(SymbolOf[c])) \in Nat
        /\ Cardinality(Viewers(SymbolOf[c])) - 1 \in Nat
    <3> HIDE DEF Viewers
    <3> QED
      BY ACountedStreamCounts
  <2> QED
    BY <2>1
<1>3. ASSUME NEW s \in Symbols
      PROVE  refcounts'[s] >= Cardinality(Viewers(s)')
  <2>1. CASE s = SymbolOf[c]
    <3>1. Viewers(s)' = Viewers(s) \ {c}
      BY DEF Viewers, StreamInv, StreamTypeOK, Counted
    <3> QED
      BY <2>1, <3>1, <1>1, ACountedStreamCounts
  <2>2. CASE s # SymbolOf[c]
    <3>1. Viewers(s)' = Viewers(s)
      BY <2>2 DEF Viewers, StreamInv, StreamTypeOK
    <3> QED
      BY <2>2, <3>1, <1>1 DEF StreamInv, RefcountCoversViewers
  <2> QED
    BY <2>1, <2>2
<1> QED
  BY <1>1, <1>2, <1>3 DEF RefcountCoversViewers

-----------------------------------------------------------------------------
(* The streams and the manager.                                            *)

\* Every step of a stream writes its own entry, and counts it, releases it or
\* leaves the counts alone; the lock is with the stream that subscribes.
LEMMA AStreamMoves ==
    ASSUME StreamInv, NEW c \in Streams, NEW step \in StreamStep,
           stream' = [stream EXCEPT ![c] = step],
           \/ UNCHANGED refcounts /\ (step \in Counted => stream[c] \in Counted)
           \/ refcounts' = [refcounts EXCEPT ![SymbolOf[c]] = @ + 1]
           \/ /\ refcounts' = [refcounts EXCEPT ![SymbolOf[c]] = @ - 1]
              /\ stream[c] \in Counted /\ step = "over",
           \/ step \in {"resolving", "subscribing"} /\ lockHolder' = c
                 /\ lockHolder \in {c, NoStream}
           \/ step \notin {"resolving", "subscribing"} /\ lockHolder' = NoStream
                 /\ lockHolder \in {c, NoStream}
           \/ step \notin {"resolving", "subscribing"} /\ lockHolder' = lockHolder
                 /\ lockHolder # c
    PROVE  StreamInv'
<1>1. stream' \in [Streams -> StreamStep] /\ lockHolder' \in Streams \cup {NoStream}
  BY DEF StreamInv, StreamTypeOK
<1>2. \A d \in Streams : stream'[d] \in {"resolving", "subscribing"} <=> lockHolder' = d
  BY StreamAssumption DEF StreamInv, StreamTypeOK
<1>3. refcounts' \in [Symbols -> Nat] /\ RefcountCoversViewers'
  <2>1. CASE UNCHANGED refcounts /\ (step \in Counted => stream[c] \in Counted)
    BY <2>1, NobodyIsCounted DEF StreamInv, StreamTypeOK
  <2>2. CASE refcounts' = [refcounts EXCEPT ![SymbolOf[c]] = @ + 1]
    BY <2>2, AViewerIsCounted
  <2>3. CASE /\ refcounts' = [refcounts EXCEPT ![SymbolOf[c]] = @ - 1]
             /\ stream[c] \in Counted /\ step = "over"
    BY <2>3, AViewerIsReleased
  <2> QED
    BY <2>1, <2>2, <2>3
<1> QED
  BY <1>1, <1>2, <1>3 DEF StreamInv, StreamTypeOK

\* The run task and the network do not touch the streams.
LEMMA StreamsAreLeft ==
    ASSUME StreamInv, UNCHANGED <<stream, manager>>
    PROVE  StreamInv'
  BY DEF StreamInv, StreamTypeOK, RefcountCoversViewers, Viewers, manager

LEMMA StreamStepKeepsCounts ==
    ASSUME StreamInv, NEW c \in Streams,
           \/ Open(c) \/ StreamNext(c)
           \/ CloseChart(c) \/ CloseWhileSending(c) \/ CloseEarly(c)
    PROVE  StreamInv'
<1>0. /\ stream[c] \in {"resolving", "subscribing"} <=> lockHolder = c
      /\ c # NoStream
  BY StreamAssumption DEF StreamInv, StreamTypeOK
<1>1. CASE Open(c)
  BY <1>0, <1>1, AStreamMoves DEF Open, manager, StreamStep, Counted
<1>2. CASE Acquire(c)
  BY <1>0, <1>2, AStreamMoves DEF Acquire, StreamStep, Counted
<1>3. CASE ResolveRaises(c)
  BY <1>0, <1>3, AStreamMoves DEF ResolveRaises, StreamStep, Counted
<1>4. CASE ResolveFindsNothing(c)
  BY <1>0, <1>4, AStreamMoves DEF ResolveFindsNothing, StreamStep, Counted
<1>5. CASE ResolveMatches(c)
  BY <1>0, <1>5, AStreamMoves DEF ResolveMatches, StreamStep, Counted
<1>6. CASE SubscribeReturns(c)
  BY <1>0, <1>6, AStreamMoves DEF SubscribeReturns, StreamStep, Counted
<1>7. CASE FinaliserReleases(c)
  BY <1>0, <1>7, AStreamMoves DEF FinaliserReleases, Release, StreamStep, Counted
<1>8. CASE CloseChart(c)
  BY <1>0, <1>8, AStreamMoves DEF CloseChart, Release, StreamStep, Counted
<1>9. CASE CloseWhileSending(c)
  BY <1>0, <1>9, AStreamMoves DEF CloseWhileSending, manager, StreamStep, Counted
<1>10. CASE CloseEarly(c)
  BY <1>0, <1>10, AStreamMoves DEF CloseEarly, StreamStep, Counted
<1> QED
  BY <1>1, <1>2, <1>3, <1>4, <1>5, <1>6, <1>7, <1>8, <1>9, <1>10 DEF StreamNext

-----------------------------------------------------------------------------
(* The routes and the connection.                                          *)

LEMMA ConnectionIsLeft ==
    ASSUME ConnectionInv, UNCHANGED <<routed, connection>>
    PROVE  ConnectionInv'
  BY DEF ConnectionInv, ConnectedServesRouted, SocketHasReader, connection

\* The last subscriber's leaving takes the route, or stops the connection.
LEMMA ReleasingKeepsConnection ==
    ASSUME ConnectionInv, NEW s, NEW cut, Release(s, cut)
    PROVE  ConnectionInv'
<1>1. CASE UNCHANGED <<routed, connection>>
  BY <1>1, ConnectionIsLeft
<1>2. CASE s \in routed /\ routed' = routed \ {s} /\ Stop(cut)
  BY <1>2 DEF Stop, ConnectionInv, ConnectedServesRouted, SocketHasReader, State, RunStep
<1>3. CASE /\ s \in routed /\ routed' = routed \ {s}
           /\ served' = IF state = "CONNECTED" THEN served \ {s} ELSE served
           /\ UNCHANGED <<state, run, linkUp>>
  BY <1>3 DEF ConnectionInv, ConnectedServesRouted, SocketHasReader
<1> QED
  BY <1>1, <1>2, <1>3 DEF Release, Unsubscribe

LEMMA StreamStepKeepsConnection ==
    ASSUME ConnectionInv, NEW c \in Streams,
           \/ Open(c) \/ StreamNext(c)
           \/ CloseChart(c) \/ CloseWhileSending(c) \/ CloseEarly(c)
    PROVE  ConnectionInv'
<1>1. CASE UNCHANGED <<routed, connection>>
  BY <1>1, ConnectionIsLeft
<1>2. CASE ResolveMatches(c)
  BY <1>2 DEF ResolveMatches, EnsureRunning, ConnectionInv, ConnectedServesRouted,
              SocketHasReader, State, RunStep
<1>3. CASE FinaliserReleases(c)
  BY <1>3, ReleasingKeepsConnection DEF FinaliserReleases
<1>4. CASE CloseChart(c)
  BY <1>1, <1>4, ReleasingKeepsConnection DEF CloseChart
<1> QED
  BY <1>1, <1>2, <1>3, <1>4
  DEF StreamNext, Open, Acquire, ResolveRaises, ResolveFindsNothing, SubscribeReturns,
      CloseWhileSending, CloseEarly

\* Making, restoring and losing the connection.
LEMMA RunKeepsConnection ==
    ASSUME ConnectionInv, RunNext \/ LinkDrops
    PROVE  ConnectionInv'
<1> USE DEF ConnectionInv, ConnectedServesRouted, SocketHasReader, State, RunStep
<1>1. CASE RunConnects
  BY <1>1 DEF RunConnects
<1>2. CASE RunRestored
  BY <1>2 DEF RunRestored
<1>3. CASE RunConnectFails
  BY <1>3 DEF RunConnectFails
<1>4. CASE RunNoticesLoss
  BY <1>4 DEF RunNoticesLoss
<1>5. CASE RunWakes
  BY <1>5 DEF RunWakes
<1>6. CASE LinkDrops
  BY <1>6 DEF LinkDrops
<1> QED
  BY <1>1, <1>2, <1>3, <1>4, <1>5, <1>6 DEF RunNext

-----------------------------------------------------------------------------
\* Counts, routes, the socket and its reader fit together at every moment,
\* wherever a chart is closed and however often the connection is lost.
THEOREM FeedStaysConsistent == FeedSpec => []FeedIsConsistent
<1>1. FeedInit => FeedIsConsistent
  <2> SUFFICES ASSUME FeedInit
               PROVE  FeedIsConsistent
    OBVIOUS
  <2>1. StreamTypeOK
    BY StreamAssumption DEF FeedInit, StreamTypeOK, StreamStep
  <2>2. RefcountCoversViewers
    <3>1. \A s \in Symbols : Viewers(s) = {}
      BY DEF FeedInit, Viewers, Counted
    <3> QED
      BY <3>1, FS_EmptySet DEF FeedInit, RefcountCoversViewers
  <2>3. ConnectionInv
    BY DEF FeedInit, ConnectionInv, ConnectedServesRouted, SocketHasReader, State, RunStep
  <2> QED
    BY <2>1, <2>2, <2>3, FeedInTwoHalves DEF StreamInv
<1>2. FeedIsConsistent /\ [FeedNext]_feedVars => FeedIsConsistent'
  <2> SUFFICES ASSUME StreamInv, ConnectionInv, [FeedNext]_feedVars
               PROVE  StreamInv' /\ ConnectionInv'
    BY FeedInTwoHalves DEF FeedIsConsistent, FeedTypeOK, StreamInv, StreamTypeOK, ConnectionInv
  <2>1. ASSUME NEW c \in Streams,
               \/ Open(c) \/ StreamNext(c)
               \/ CloseChart(c) \/ CloseWhileSending(c) \/ CloseEarly(c)
        PROVE  StreamInv' /\ ConnectionInv'
    BY <2>1, StreamStepKeepsCounts, StreamStepKeepsConnection
  <2>2. CASE RunNext \/ LinkDrops
    <3>1. UNCHANGED <<stream, manager>>
      BY <2>2 DEF RunNext, RunConnects, RunRestored, RunConnectFails, RunNoticesLoss, RunWakes,
                  LinkDrops
    <3> QED
      BY <2>2, <3>1, StreamsAreLeft, RunKeepsConnection
  <2>3. CASE UNCHANGED feedVars
    BY <2>3, StreamsAreLeft, ConnectionIsLeft DEF feedVars
  <2> QED
    BY <2>1, <2>2, <2>3 DEF FeedNext
<1> QED
  BY <1>1, <1>2, PTL DEF FeedSpec

\* A stream that goes as the last one counted leaves no other chart behind.
LEMMA TheLastLeavesNobody ==
    ASSUME StreamInv, NEW c \in Streams, NEW d \in Streams,
           stream[c] \in Counted, stream[d] \in Counted, c # d, SymbolOf[c] = SymbolOf[d]
    PROVE  refcounts[SymbolOf[d]] # 1
<1>1. c \in Viewers(SymbolOf[d]) \ {d}
  BY DEF Viewers
<1>2. IsFiniteSet(Viewers(SymbolOf[d]) \ {d})
  BY ViewersFinite, FS_RemoveElement
<1>3. Cardinality(Viewers(SymbolOf[d]) \ {d}) # 0
  BY <1>1, <1>2, FS_EmptySet
<1> HIDE DEF Viewers
<1>4. /\ refcounts[SymbolOf[d]] >= Cardinality(Viewers(SymbolOf[d]))
      /\ refcounts[SymbolOf[d]] \in Nat
      /\ Cardinality(Viewers(SymbolOf[d])) \in Nat
      /\ Cardinality(Viewers(SymbolOf[d]) \ {d}) = Cardinality(Viewers(SymbolOf[d])) - 1
      /\ Cardinality(Viewers(SymbolOf[d]) \ {d}) \in Nat
  BY ACountedStreamCounts
<1> QED
  BY <1>3, <1>4

\* Closing one chart never takes the route from a chart that stays open on the
\* same symbol, however many charts there are and wherever they were closed.
THEOREM OpenChartsKeepTheirRoute == FeedSpec => OpenChartKeepsRoute
<1>1. FeedIsConsistent /\ [FeedNext]_feedVars =>
        \A c \in Streams :
          stream[c] = "streaming" /\ stream'[c] = "streaming" /\ SymbolOf[c] \in routed
              => SymbolOf[c] \in routed'
  <2> SUFFICES ASSUME StreamInv, [FeedNext]_feedVars, NEW c \in Streams,
                      stream[c] = "streaming", stream'[c] = "streaming",
                      SymbolOf[c] \in routed, SymbolOf[c] \notin routed'
               PROVE  FALSE
    BY FeedInTwoHalves
  <2>1. PICK d \in Streams : CloseChart(d) \/ FinaliserReleases(d)
    BY DEF FeedNext, StreamNext, RunNext, Open, Acquire, ResolveRaises, ResolveFindsNothing,
           ResolveMatches, SubscribeReturns, CloseWhileSending, CloseEarly, RunConnects,
           RunRestored, RunConnectFails, RunNoticesLoss, RunWakes, LinkDrops, feedVars
  <2>2. stream[d] \in Counted /\ stream' = [stream EXCEPT ![d] = "over"]
    BY <2>1 DEF CloseChart, FinaliserReleases, Counted
  <2>3. c # d
    BY <2>2 DEF StreamInv, StreamTypeOK
  <2>4. refcounts[SymbolOf[d]] = 1 /\ SymbolOf[c] = SymbolOf[d]
    BY <2>1 DEF CloseChart, FinaliserReleases, Release, Unsubscribe
  <2> QED
    BY <2>2, <2>3, <2>4, TheLastLeavesNobody DEF Counted
<1> QED
  BY <1>1, FeedStaysConsistent, PTL DEF FeedSpec, OpenChartKeepsRoute
=============================================================================
