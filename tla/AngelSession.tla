---------------------------- MODULE AngelSession ----------------------------
(***************************************************************************)
(* The one Angel One session of the process (providers/angelone_provider). *)
(* Requests of every scan, chart and the live feed share it: a request     *)
(* logs in when there is none, and on any API error drops it, logs in      *)
(* again and retries once.  Next to them the settings dialog logs in on    *)
(* its own to test, save or clear credentials (api/angelone.py), and the   *)
(* account's owner logs in from a phone.                                   *)
(*                                                                         *)
(* Angel One keeps one active session per account: a login makes the       *)
(* earlier sessions of the account invalid.  Sessions are numbered in the  *)
(* order in which Angel One issues them; a reply may arrive late.          *)
(***************************************************************************)
EXTENDS Naturals, Sequences

CONSTANTS
    Requests,         \* get_intraday_ohlc / get_daily_ohlc_range calls
    Accounts,         \* what may be saved as credentials
    NoAccount,        \* no credentials are saved
    InitialAccount,   \* the credentials at startup
    OutsideLogins,    \* how often the owner logs in elsewhere (bound)
    DialogUses,       \* how often the settings dialog is used (bound)
    Glitches          \* API errors that have nothing to do with the session (bound)

ASSUME AccountAssumption == NoAccount \notin Accounts
ASSUME InitialAssumption == InitialAccount \in Accounts \cup {NoAccount}
ASSUME BoundsAssumption == OutsideLogins \in Nat /\ DialogUses \in Nat /\ Glitches \in Nat

NoSession == 0

VARIABLES
    credentials,   \* the saved credentials
    session,       \* AngelOneProvider._session
    accountOf,     \* the accounts of the sessions Angel One has issued so far
    request,       \* request -> where it is, with the session it uses
    dialog,        \* the settings dialog: its step, operation and session
    glitchesLeft, outsideLeft, dialogsLeft

provider == <<credentials, session>>
budgets == <<glitchesLeft, outsideLeft, dialogsLeft>>
vars == <<credentials, session, accountOf, request, dialog, budgets>>

Issued == DOMAIN accountOf
LastIssued == Len(accountOf)
\* Angel One accepts only the newest session of an account.
Accepted(s) == \A n \in Issued : accountOf[n] = accountOf[s] => n <= s

Ended == {"answered", "failed", "notConfigured"}
RequestStep == {"idle", "loggingIn", "loginReplied", "calling"} \cup Ended
Cause == {"none", "login", "glitch", "superseded"}

\* since: the number of sessions issued when the request first asked for one;
\* logins: how many of the sessions issued since are its own.
Request == [step: RequestStep, attempt: 1 .. 2, account: Accounts \cup {NoAccount},
            session: Nat, earlier: Nat, since: Nat, logins: Nat, cause: Cause]

IdleRequest == [step |-> "idle", attempt |-> 1, account |-> NoAccount, session |-> NoSession,
                earlier |-> NoSession, since |-> 0, logins |-> 0, cause |-> "none"]
IdleDialog == [step |-> "idle", op |-> "none", account |-> NoAccount]

IssueTo(account) == accountOf' = Append(accountOf, account)

Init ==
    /\ credentials = InitialAccount
    /\ session = NoSession
    /\ accountOf = <<>>
    /\ request = [r \in Requests |-> IdleRequest]
    /\ dialog = IdleDialog
    /\ glitchesLeft = Glitches /\ outsideLeft = OutsideLogins /\ dialogsLeft = DialogUses

-----------------------------------------------------------------------------
\* _ensure_session up to its first await: not configured, the cached session,
\* or a login of its own (nobody waits for a login that is under way).
EnsureSession(rq, current) ==
    IF credentials = NoAccount THEN [rq EXCEPT !.step = "notConfigured"]
    ELSE IF current # NoSession THEN [rq EXCEPT !.step = "calling", !.session = current]
    ELSE [rq EXCEPT !.step = "loggingIn", !.account = credentials]

Begin(r) ==
    /\ request[r].step = "idle"
    /\ request' = [request EXCEPT ![r] = EnsureSession([@ EXCEPT !.since = LastIssued], session)]
    /\ UNCHANGED <<provider, accountOf, dialog, budgets>>

\* Angel One answers the login of a request; the reply is on its way.
LoginIssued(r) ==
    /\ request[r].step = "loggingIn"
    /\ IssueTo(request[r].account)
    /\ request' = [request EXCEPT ![r].step = "loginReplied",
                                  ![r].session = LastIssued + 1,
                                  ![r].logins = @ + 1]
    /\ UNCHANGED <<provider, dialog, budgets>>

\* login() raises after its three attempts, outside the try of the request.
LoginFails(r) ==
    /\ request[r].step = "loggingIn" /\ glitchesLeft > 0
    /\ glitchesLeft' = glitchesLeft - 1
    /\ request' = [request EXCEPT ![r].step = "failed", ![r].cause = "login"]
    /\ UNCHANGED <<provider, accountOf, dialog, outsideLeft, dialogsLeft>>

\* The session is cached, whatever has happened to it or to the credentials
\* since it was asked for.
LoginReturns(r) ==
    /\ request[r].step = "loginReplied"
    /\ session' = request[r].session
    /\ request' = [request EXCEPT ![r].step = "calling", ![r].account = NoAccount]
    /\ UNCHANGED <<credentials, accountOf, dialog, budgets>>

CallAnswered(r) ==
    /\ request[r].step = "calling" /\ Accepted(request[r].session)
    /\ request' = [request EXCEPT ![r].step = "answered"]
    /\ UNCHANGED <<provider, accountOf, dialog, budgets>>

\* Mutants: the retry keeps the session; there is no retry; it retries for ever.
CallRaises_KeepsSession(r, cause) ==
    LET rq == [request[r] EXCEPT !.cause = cause, !.earlier = request[r].session] IN
    IF rq.attempt = 2
    THEN /\ request' = [request EXCEPT ![r] = [rq EXCEPT !.step = "failed"]]
         /\ UNCHANGED session
    ELSE /\ UNCHANGED session
         /\ request' = [request EXCEPT ![r] = EnsureSession([rq EXCEPT !.attempt = 2], session)]
CallRaises_NoRetry(r, cause) ==
    /\ request' = [request EXCEPT ![r].step = "failed", ![r].cause = cause]
    /\ session' = NoSession
\* An AngelOneApiError of the candle call: the first one drops whatever session
\* is cached by now and asks for another, the second one is the caller's.
CallRaises(r, cause) ==
    LET rq == [request[r] EXCEPT !.cause = cause, !.earlier = request[r].session] IN
    IF rq.attempt = 2
    THEN /\ request' = [request EXCEPT ![r] = [rq EXCEPT !.step = "failed"]]
         /\ UNCHANGED session
    ELSE /\ session' = NoSession
         /\ request' = [request EXCEPT ![r] = EnsureSession([rq EXCEPT !.attempt = 2], NoSession)]

CallRejected(r) ==
    /\ request[r].step = "calling" /\ ~Accepted(request[r].session)
    /\ CallRaises(r, "superseded")
    /\ UNCHANGED <<credentials, accountOf, dialog, budgets>>

\* A bad symbol, a rate limit, no network: handled like a dead session.
CallGlitches(r) ==
    /\ request[r].step = "calling" /\ glitchesLeft > 0
    /\ glitchesLeft' = glitchesLeft - 1
    /\ CallRaises(r, "glitch")
    /\ UNCHANGED <<credentials, accountOf, dialog, outsideLeft, dialogsLeft>>

-----------------------------------------------------------------------------
\* test_connection and connect both log in on their own first.
DialogBegins(op, account) ==
    /\ dialog.step = "idle" /\ dialogsLeft > 0
    /\ dialogsLeft' = dialogsLeft - 1
    /\ dialog' = [step |-> "loggingIn", op |-> op, account |-> account]
    /\ UNCHANGED <<provider, accountOf, request, glitchesLeft, outsideLeft>>

DialogLoginIssued ==
    /\ dialog.step = "loggingIn"
    /\ IssueTo(dialog.account)
    /\ dialog' = [dialog EXCEPT !.step = "loginReplied"]
    /\ UNCHANGED <<provider, request, budgets>>

\* Wrong credentials: nothing is saved.
DialogLoginFails ==
    /\ dialog.step = "loggingIn"
    /\ dialog' = IdleDialog
    /\ UNCHANGED <<provider, accountOf, request, budgets>>

TestConnectionReturns ==
    /\ dialog.step = "loginReplied" /\ dialog.op = "test"
    /\ dialog' = IdleDialog
    /\ UNCHANGED <<provider, accountOf, request, budgets>>

\* connect saves the credentials and resets the session; its own session is
\* not kept.
ConnectReturns ==
    /\ dialog.step = "loginReplied" /\ dialog.op = "connect"
    /\ credentials' = dialog.account
    /\ session' = NoSession
    /\ dialog' = IdleDialog
    /\ UNCHANGED <<accountOf, request, budgets>>

\* disconnect runs in a worker thread: the credentials first, then the session.
DisconnectClears ==
    /\ dialog.step = "idle" /\ dialogsLeft > 0
    /\ dialogsLeft' = dialogsLeft - 1
    /\ credentials' = NoAccount
    /\ dialog' = [step |-> "clearing", op |-> "disconnect", account |-> NoAccount]
    /\ UNCHANGED <<session, accountOf, request, glitchesLeft, outsideLeft>>

DisconnectResets ==
    /\ dialog.step = "clearing"
    /\ session' = NoSession
    /\ dialog' = IdleDialog
    /\ UNCHANGED <<credentials, accountOf, request, budgets>>

\* The account is used from Angel One's own app or another process.
LoginElsewhere(account) ==
    /\ outsideLeft > 0
    /\ outsideLeft' = outsideLeft - 1
    /\ IssueTo(account)
    /\ UNCHANGED <<provider, request, dialog, glitchesLeft, dialogsLeft>>

-----------------------------------------------------------------------------
RequestStepOf(r) ==
    \/ Begin(r) \/ LoginIssued(r) \/ LoginFails(r) \/ LoginReturns(r)
    \/ CallAnswered(r) \/ CallRejected(r) \/ CallGlitches(r)

Dialog ==
    \/ \E op \in {"test", "connect"}, account \in Accounts : DialogBegins(op, account)
    \/ DialogLoginIssued \/ DialogLoginFails \/ TestConnectionReturns \/ ConnectReturns
    \/ DisconnectClears \/ DisconnectResets

Next ==
    \/ \E r \in Requests : RequestStepOf(r)
    \/ Dialog
    \/ \E account \in Accounts : LoginElsewhere(account)

Spec == Init /\ [][Next]_vars

-----------------------------------------------------------------------------
\* Type invariant.
TypeOK ==
    /\ credentials \in Accounts \cup {NoAccount}
    /\ session \in Nat /\ (session # NoSession => session \in Issued)
    /\ accountOf \in Seq(Accounts)
    /\ request \in [Requests -> Request]
    /\ dialog \in [step: {"idle", "loggingIn", "loginReplied", "clearing"},
                   op: {"none", "test", "connect", "disconnect"}, account: Accounts \cup {NoAccount}]

\* "Force exactly one fresh re-login and retry": whatever other requests and
\* the dialog do meanwhile, the second attempt uses a session that Angel One
\* issued after the one the first attempt was refused with.
RetryUsesNewerSession ==
    \A r \in Requests :
        request[r].attempt = 2 /\ request[r].step \in {"calling", "answered"}
            => request[r].session > request[r].earlier

\* Logins are what the rate limit and the 30-second TOTP window make expensive:
\* a request never logs in more than twice, and its retry is worth the login.
RetriesAreSound == TypeOK /\ RetryUsesNewerSession /\ \A r \in Requests : request[r].logins <= 2

\* A request that nobody else logs in beside recovers from a session that died
\* before it began: it does not fail for the want of a session.
UndisturbedRequestRecovers ==
    \A r \in Requests :
        request[r].step = "failed" /\ request[r].cause = "superseded"
            => LastIssued > request[r].since + request[r].logins

\* What the comments of connect say: every consumer picks up the new credentials
\* immediately, so no session of another account stays cached.
SessionIsOfCredentials ==
    session # NoSession /\ dialog.step = "idle" /\ credentials # NoAccount
        => accountOf[session] = credentials

\* What the docstring of test_connection says: it does not touch the active
\* session.
TestLeavesSessionActive ==
    [][dialog.op = "test" /\ DialogLoginIssued /\ session # NoSession /\ Accepted(session)
         => Accepted(session)']_vars

\* What the comment of get_intraday_ohlc says: a request whose session was lost
\* recovers by the one re-login unless the credentials are the problem.
ConcurrentRequestsRecover ==
    \A r \in Requests : request[r].step = "failed" => request[r].cause # "superseded"
=============================================================================
