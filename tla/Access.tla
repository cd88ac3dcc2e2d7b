------------------------------- MODULE Access -------------------------------
(***************************************************************************)
(* Accounts, sessions and one-time tokens: internal/service/auth,         *)
(* internal/transport/http (auth_handler, middleware_auth, cookie) and    *)
(* the users, sessions, email_verifications and password_reset_tokens     *)
(* tables.                                                                 *)
(*                                                                         *)
(* A request runs in a slot and makes one database call per step, so that *)
(* requests of several browsers interleave between their calls: what a    *)
(* request read stays in its record `row` while the table moves on.  A    *)
(* refused request changes nothing and is a step not taken.  Statements   *)
(* are atomic steps.  The transaction that resets a password is a step    *)
(* for each statement and one for its COMMIT, when what it wrote becomes  *)
(* visible; until then the rows it wrote are locked, and statements that  *)
(* write them wait.                                                       *)
(***************************************************************************)
EXTENDS Integers, FiniteSets

CONSTANTS
    Emails,         \* users.email is UNIQUE and names the account
    RealEmails,     \* those people have and type; the rest are made up
    Passwords,      \* the passwords validatePassword accepts
    Externals,      \* accounts at the OAuth providers (provider, external_id)
    Browsers,
    Slots,          \* requests the process handles at once
    NoVal,          \* NULL, an absent row, an empty cookie
    IdleTTL, AbsoluteTTL, RefreshBelow,    \* 24 h, 7 days and 12 h
    OneTimeTTL,     \* lifetime of a token, by its kind
    LockFor,        \* failures reached |-> how long the account is locked
    FirstUsers,     \* the contents of users to begin from
    MaxTokens, MaxRequests, MaxFails, MaxClock  \* bounds of the exploration

UserRow == [status : {"pending_verification", "active", "blocked"},
            pwd : Passwords \cup {NoVal}, fails : Nat, lock : Nat]

ASSUME AccessAssumption ==
    /\ {IdleTTL, AbsoluteTTL, RefreshBelow, MaxTokens, MaxRequests, MaxFails, MaxClock} \subseteq Nat
    /\ RealEmails \subseteq Emails
    /\ IdleTTL =< AbsoluteTTL /\ IdleTTL > 0
    /\ OneTimeTTL \in [{"verify", "reset", "state", "link"} -> Nat]
    /\ DOMAIN LockFor \subseteq Nat \ {0}
    /\ \A n \in DOMAIN LockFor : LockFor[n] \in Nat \ {0}
    /\ FirstUsers \subseteq [Emails -> UserRow \cup {NoVal}]
    /\ NoVal \notin Emails \cup Passwords \cup Externals \cup Nat

VARIABLES
    users,      \* [Emails -> row of users, or NoVal]
    sessions,   \* [token -> row of sessions, or NoVal]
    oneTime,    \* [token -> row of the two token tables, or NoVal]
    cookie,     \* [Browsers -> the rx_session cookie, a token or NoVal]
    tasks,      \* [Slots -> the request being handled, or NoVal]
    issued,     \* how many tokens were generated: a token is its number
    begun,      \* how many requests began
    clock

-----------------------------------------------------------------------------
Tokens == 1 .. MaxTokens
Fresh == issued + 1

\* `under`, `raced` and `via` are no columns.  They keep, for the properties,
\* the password the request had verified, whether a reset raced it, and the
\* external account it came from.
SessionRow == [user : Emails, idle : Nat, absolute : Nat,
               under : Passwords \cup {NoVal}, raced : BOOLEAN,
               via : Externals \cup {NoVal}]
TokenRow == [kind : {"verify", "reset"}, user : Emails, expires : Nat,
             used : BOOLEAN]
Task == [op : {"login", "link", "oauth", "resend", "register", "forgot",
               "request", "reset"},
         stage : {"verify", "open", "lookup", "email", "attach", "create",
                  "invalidate", "token", "issue", "admit", "run",
                  "password", "sweep", "commit"},
         browser : Browsers \cup {NoVal}, email : Emails \cup {NoVal},
         ext : Externals \cup {NoVal}, row : UserRow \cup {NoVal},
         pwd : Passwords \cup {NoVal}, tok : Tokens \cup {NoVal}, at : Nat,
         gone : SUBSET Tokens, barred : SUBSET Emails, raced : BOOLEAN]

ASSUME NoValIsNoRow == NoVal \notin UserRow \cup SessionRow \cup TokenRow \cup Task

Exists(e) == users[e] # NoVal
Live(t) == /\ sessions[t] # NoVal
           /\ sessions[t].idle > clock
           /\ sessions[t].absolute > clock
Usable(t, kind) == /\ oneTime[t] # NoVal
                   /\ oneTime[t].kind = kind
                   /\ ~oneTime[t].used
                   /\ oneTime[t].expires > clock
Earlier(a, b) == IF a =< b THEN a ELSE b

\* The accounts that are blocked when a request begins, kept with it (and
\* whether a reset of its account has committed since, `raced`) so that a
\* property can say which accounts it must not let in.
Barred == {e \in Emails : Exists(e) /\ users[e].status = "blocked"}

NewTask(op, stage) ==
    [op |-> op, stage |-> stage, browser |-> NoVal, email |-> NoVal,
     ext |-> NoVal, row |-> NoVal, pwd |-> NoVal, tok |-> NoVal,
     at |-> 0, gone |-> {}, barred |-> {}, raced |-> FALSE]

Begin(s, task) ==
    /\ tasks[s] = NoVal /\ begun < MaxRequests
    /\ begun' = begun + 1
    /\ tasks' = [tasks EXCEPT ![s] = task]
At(s, stage) == tasks[s] # NoVal /\ tasks[s].stage = stage
Goto(s, stage) == tasks' = [tasks EXCEPT ![s].stage = stage]
End(s) == tasks' = [tasks EXCEPT ![s] = NoVal]

\* Set-Cookie in the answer, whatever the browser holds by then.
SetSessionCookie(b, t) == cookie' = [cookie EXCEPT ![b] = t]
ClearSessionCookie(b) == cookie' = [cookie EXCEPT ![b] = NoVal]

-----------------------------------------------------------------------------
(* Locks of the transactions that reset a password. *)

Reset(r, e) == tasks[r] # NoVal /\ tasks[r].op = "reset" /\ tasks[r].email = e

\* The row of password_reset_tokens, from the first statement on.
TokenFree(t) ==
    \A r \in Slots : tasks[r] # NoVal /\ tasks[r].op = "reset" => tasks[r].tok # t
\* The row of users, from the second on.  The INSERT of a session refers to
\* its key, which the UPDATE leaves, and does not wait.
UserFree(e) == \A r \in Slots : ~(Reset(r, e) /\ tasks[r].stage \in {"sweep", "commit"})
\* The rows of sessions, from the DELETE on.
SessionFree(t) == \A r \in Slots : tasks[r] # NoVal => t \notin tasks[r].gone

\* A reset of the account is between its DELETE and its COMMIT.
Swept(e) == \E r \in Slots : Reset(r, e) /\ tasks[r].stage = "commit"

-----------------------------------------------------------------------------
(* Statements of the repositories. *)

\* lockoutUntil: the longest threshold reached decides; 0 is no lockout.
LockoutUntil(fails, now) ==
    LET reached == {n \in DOMAIN LockFor : n =< fails}
    IN  IF reached = {} THEN 0
        ELSE now + LockFor[CHOOSE n \in reached : \A m \in reached : m =< n]

\* The table the exploration begins from was written by this code: an account
\* is locked for no longer than its failures earn.
ASSUME FirstUsersAssumption ==
    \A table \in FirstUsers : \A e \in Emails :
        table[e] # NoVal /\ table[e].lock # 0 =>
            table[e].lock =< LockoutUntil(table[e].fails, 0)

\* Mutant: a status that users_status_check does not know.
CreateUserUnchecked(e, status, pwd) ==
    /\ users[e] = NoVal
    /\ users' = [users EXCEPT ![e] = [status |-> "unverified", pwd |-> pwd,
                                      fails |-> 0, lock |-> 0]]

CreateUser(e, status, pwd) ==
    /\ users[e] = NoVal
    /\ users' = [users EXCEPT ![e] = [status |-> status, pwd |-> pwd,
                                      fails |-> 0, lock |-> 0]]

RegisterFailedLogin(e, count, until) ==
    /\ UserFree(e)
    /\ users' = [users EXCEPT ![e].fails = count, ![e].lock = until]

\* Mutant of ResetFailedLogin: lockout_until is left.
ResetCountOnly(e) == users' = [users EXCEPT ![e].fails = 0]

ResetFailedLogin(e) ==
    /\ UserFree(e)
    /\ users' = [users EXCEPT ![e].fails = 0, ![e].lock = 0]

\* Mutant of SessionsOf: the DELETE finds no session.
NoSessions(e) == {}

SessionsOf(e) == {t \in Tokens : sessions[t] # NoVal /\ sessions[t].user = e}

\* DELETE FROM sessions.
Delete(rows) ==
    /\ \A t \in rows : SessionFree(t)
    /\ sessions' = [t \in Tokens |-> IF t \in rows THEN NoVal ELSE sessions[t]]

DeleteByUser(e) == Delete(SessionsOf(e))

CreateToken(kind, e, others) ==
    /\ Fresh \in Tokens
    /\ issued' = Fresh
    /\ oneTime' = [others EXCEPT ![Fresh] =
            [kind |-> kind, user |-> e, expires |-> clock + OneTimeTTL[kind],
             used |-> FALSE]]

\* used_at = now() for every unused token of that kind of the account.
InvalidateTokens(kind, e) ==
    [t \in Tokens |->
        IF oneTime[t] # NoVal /\ oneTime[t].kind = kind /\ oneTime[t].user = e
        THEN [oneTime[t] EXCEPT !.used = TRUE] ELSE oneTime[t]]

Spend(t) ==
    oneTime' = [n \in Tokens |->
        IF n = t /\ oneTime[n] # NoVal THEN [oneTime[n] EXCEPT !.used = TRUE] ELSE oneTime[n]]

\* TouchSession extends the session when it is due, and the cookie with it.
\* The request goes on if it is not, or if the statement fails.
TouchIdleIfNeeded(t, b) ==
    \/ /\ sessions[t] # NoVal /\ sessions[t].idle - clock < RefreshBelow
       /\ SessionFree(t)
       /\ sessions' = [sessions EXCEPT ![t].idle =
                           Earlier(clock + IdleTTL, sessions[t].absolute)]
       /\ SetSessionCookie(b, t)
    \/ UNCHANGED <<sessions, cookie>>

InsertSession(t, task, now) ==
    sessions' = [sessions EXCEPT ![t] =
        [user |-> task.email, idle |-> now + IdleTTL, absolute |-> now + AbsoluteTTL,
         under |-> task.pwd, raced |-> task.raced \/ Swept(task.email),
         via |-> task.ext]]

DeleteSession(t) ==
    /\ SessionFree(t)
    /\ sessions' = [sessions EXCEPT ![t] = NoVal]

-----------------------------------------------------------------------------
(* Registration and email confirmation. *)

\* Register: the account is stored, the letter is left to a goroutine.
Register(s, e, p) ==
    /\ CreateUser(e, "pending_verification", p)
    /\ Begin(s, [NewTask("register", "token") EXCEPT !.email = e])
    /\ UNCHANGED <<sessions, oneTime, cookie, issued, clock>>

\* sendVerification.  A letter that is lost is a token nobody uses.
SendVerification(s) ==
    /\ At(s, "token")
    /\ CreateToken("verify", tasks[s].email, oneTime)
    /\ End(s)
    /\ UNCHANGED <<users, sessions, cookie, begun, clock>>

\* VerifyEmail: ConsumeAndActivate spends the token, and activates the
\* account if it is still pending, in one statement.
VerifyEmail(t) ==
    /\ Usable(t, "verify")
    /\ Spend(t)
    /\ LET e == oneTime[t].user IN
        IF users[e].status = "pending_verification"
        THEN UserFree(e) /\ users' = [users EXCEPT ![e].status = "active"]
        ELSE UNCHANGED users
    /\ UNCHANGED <<sessions, cookie, tasks, issued, begun, clock>>

ResendVerification(s, e) ==
    /\ Exists(e) /\ users[e].status = "pending_verification"
    /\ Begin(s, [NewTask("resend", "invalidate") EXCEPT !.email = e])
    /\ UNCHANGED <<users, sessions, oneTime, cookie, issued, clock>>

InvalidatePending(s) ==
    /\ At(s, "invalidate")
    /\ oneTime' = InvalidateTokens("verify", tasks[s].email)
    /\ Goto(s, "token")
    /\ UNCHANGED <<users, sessions, cookie, issued, begun, clock>>

-----------------------------------------------------------------------------
(* Password reset. *)

ForgotPassword(s, e) ==
    /\ Exists(e) /\ users[e].status = "active"
    /\ Begin(s, [NewTask("forgot", "issue") EXCEPT !.email = e])
    /\ UNCHANGED <<users, sessions, oneTime, cookie, issued, clock>>

\* Issue: earlier tokens are spent, the new one stored.
IssueReset(s) ==
    /\ At(s, "issue")
    /\ \A t \in Tokens : oneTime[t] # NoVal /\ ~oneTime[t].used
                            /\ oneTime[t].user = tasks[s].email => TokenFree(t)
    /\ CreateToken("reset", tasks[s].email, InvalidateTokens("reset", tasks[s].email))
    /\ End(s)
    /\ UNCHANGED <<users, sessions, cookie, begun, clock>>

\* Consume, first statement: the token is spent, if it is usable and its
\* account active.
ConsumeToken(s, b, t, p) ==
    /\ Usable(t, "reset")
    /\ users[oneTime[t].user].status = "active"
    /\ TokenFree(t)
    /\ Begin(s, [NewTask("reset", "password") EXCEPT
                    !.browser = b, !.email = oneTime[t].user, !.tok = t, !.pwd = p])
    /\ UNCHANGED <<users, sessions, oneTime, cookie, issued, clock>>

\* Second statement: the password and the counters of the account.
ChangePassword(s) ==
    /\ At(s, "password")
    /\ UserFree(tasks[s].email)
    /\ Goto(s, "sweep")
    /\ UNCHANGED <<users, sessions, oneTime, cookie, issued, begun, clock>>

\* Third statement: the DELETE takes the sessions that are there now.
SweepSessions(s) ==
    /\ At(s, "sweep")
    /\ LET rows == SessionsOf(tasks[s].email) IN
        /\ \A t \in rows : SessionFree(t)
        /\ tasks' = [tasks EXCEPT ![s].stage = "commit", ![s].gone = rows]
    /\ UNCHANGED <<users, sessions, oneTime, cookie, issued, begun, clock>>

\* A request that works with what it read of the account before the COMMIT.
MarkRaced(e) ==
    [r \in Slots |-> IF tasks[r] # NoVal /\ tasks[r].email = e
                                        /\ tasks[r].op \in {"login", "link"}
                     THEN [tasks[r] EXCEPT !.raced = TRUE] ELSE tasks[r]]

\* COMMIT makes the three visible at once; before it, an error rolls them back
\* (Abort).
CommitReset(s) ==
    /\ At(s, "commit")
    /\ LET task == tasks[s]
           e == task.email IN
        /\ Spend(task.tok)
        /\ users' = [users EXCEPT ![e].pwd = task.pwd, ![e].fails = 0, ![e].lock = 0]
        /\ sessions' = [t \in Tokens |-> IF t \in task.gone THEN NoVal ELSE sessions[t]]
        /\ ClearSessionCookie(task.browser)
        /\ tasks' = [MarkRaced(e) EXCEPT ![s] = NoVal]
    /\ UNCHANGED <<issued, begun, clock>>

-----------------------------------------------------------------------------
(* Login with a password, and the password step of linking an account. *)

\* Login reads the account and its lockout before the slow hash.
LoginLoad(s, b, e, p) ==
    /\ Exists(e) /\ users[e].lock =< clock
    /\ Begin(s, [NewTask("login", "verify") EXCEPT
                    !.browser = b, !.email = e, !.row = users[e], !.pwd = p,
                    !.at = clock, !.barred = Barred])
    /\ UNCHANGED <<users, sessions, oneTime, cookie, issued, clock>>

\* A wrong password writes the counter computed from the row read earlier.
PasswordWrong(s) ==
    /\ At(s, "verify")
    /\ LET task == tasks[s] IN
        /\ task.row.pwd # task.pwd
        /\ task.row.fails < MaxFails
        /\ RegisterFailedLogin(task.email, task.row.fails + 1,
                               LockoutUntil(task.row.fails + 1, task.at))
    /\ End(s)
    /\ UNCHANGED <<sessions, oneTime, cookie, issued, begun, clock>>

\* A right one resets it; the request goes on even if that fails.  Login also
\* asks for an active account here; ConfirmOAuthLink has refused a blocked one
\* before (SocialLogin.tla).
PasswordRight(s) ==
    /\ At(s, "verify")
    /\ LET task == tasks[s] IN
        /\ task.row.pwd = task.pwd
        /\ task.op = "login" => task.row.status = "active"
        /\ ResetFailedLogin(task.email) \/ UNCHANGED users
        /\ tasks' = [tasks EXCEPT
               ![s].stage = IF task.op = "login" THEN "open" ELSE "attach",
               ![s].row = NoVal]
    /\ UNCHANGED <<sessions, oneTime, cookie, issued, begun, clock>>

\* Sessions.Create and SetSessionCookie.  Login counts the lifetimes from its
\* first line, createSession from its own.
OpenSession(s) ==
    /\ At(s, "open")
    /\ Fresh \in Tokens
    /\ LET task == tasks[s]
           now == IF task.op = "login" THEN task.at ELSE clock IN
        /\ InsertSession(Fresh, task, now)
        /\ SetSessionCookie(task.browser, Fresh)
    /\ issued' = Fresh
    /\ End(s)
    /\ UNCHANGED <<users, oneTime, begun, clock>>

-----------------------------------------------------------------------------
(* RequireAuth and logout. *)

\* GetSessionByToken finds no live row, or fails: the cookie is dropped.
AuthReject(b) ==
    /\ cookie[b] # NoVal
    /\ ClearSessionCookie(b)
    /\ UNCHANGED <<users, sessions, oneTime, tasks, issued, begun, clock>>

AuthLoad(s, b) ==
    /\ cookie[b] # NoVal /\ Live(cookie[b])
    /\ Begin(s, [NewTask("request", "admit") EXCEPT
                    !.browser = b, !.tok = cookie[b], !.email = sessions[cookie[b]].user])
    /\ UNCHANGED <<users, sessions, oneTime, cookie, issued, clock>>

\* GetUser answers with an active account.
Admit(s) ==
    /\ At(s, "admit")
    /\ users[tasks[s].email].status = "active"
    /\ TouchIdleIfNeeded(tasks[s].tok, tasks[s].browser)
    /\ Goto(s, "run")
    /\ UNCHANGED <<users, oneTime, issued, begun, clock>>

\* The account is not active, or GetUser fails for any account: all of its
\* sessions are revoked, best effort.
Expel(s) ==
    /\ At(s, "admit")
    /\ DeleteByUser(tasks[s].email) \/ UNCHANGED sessions
    /\ ClearSessionCookie(tasks[s].browser)
    /\ End(s)
    /\ UNCHANGED <<users, oneTime, issued, begun, clock>>

Logout(s) ==
    /\ At(s, "run")
    /\ DeleteSession(tasks[s].tok)
    /\ ClearSessionCookie(tasks[s].browser)
    /\ End(s)
    /\ UNCHANGED <<users, oneTime, issued, begun, clock>>

-----------------------------------------------------------------------------
(* The surroundings. *)

\* The handler returns, its call fails or the process dies: what was written
\* stays, the rest of the request is lost.
Abort(s) ==
    /\ tasks[s] # NoVal
    /\ End(s)
    /\ UNCHANGED <<users, sessions, oneTime, cookie, issued, begun, clock>>

\* The scheduler's cleanup tick deletes expired sessions and tokens.
Cleanup ==
    /\ Delete({t \in Tokens : sessions[t] # NoVal
                    /\ (sessions[t].idle < clock \/ sessions[t].absolute < clock)})
    /\ LET old == {t \in Tokens : oneTime[t] # NoVal /\ oneTime[t].expires < clock} IN
        /\ \A t \in old : TokenFree(t)
        /\ oneTime' = [t \in Tokens |-> IF t \in old THEN NoVal ELSE oneTime[t]]
    /\ UNCHANGED <<users, cookie, tasks, issued, begun, clock>>

\* users.status is set to blocked by hand: no code in src/ does it.
Block(e) ==
    /\ Exists(e) /\ users[e].status # "blocked"
    /\ UserFree(e)
    /\ users' = [users EXCEPT ![e].status = "blocked"]
    /\ UNCHANGED <<sessions, oneTime, cookie, tasks, issued, begun, clock>>

Tick ==
    /\ clock < MaxClock
    /\ clock' = clock + 1
    /\ UNCHANGED <<users, sessions, oneTime, cookie, tasks, issued, begun>>

-----------------------------------------------------------------------------
AccessInit ==
    /\ users \in FirstUsers
    /\ sessions = [t \in Tokens |-> NoVal]
    /\ oneTime = [t \in Tokens |-> NoVal]
    /\ cookie = [b \in Browsers |-> NoVal]
    /\ tasks = [s \in Slots |-> NoVal]
    /\ issued = 0
    /\ begun = 0
    /\ clock = 0

AccountStep ==
    \/ \E s \in Slots, e \in RealEmails, p \in Passwords : Register(s, e, p)
    \/ \E s \in Slots : SendVerification(s) \/ InvalidatePending(s) \/ IssueReset(s)
    \/ \E s \in Slots, e \in RealEmails : ResendVerification(s, e) \/ ForgotPassword(s, e)
    \/ \E t \in Tokens : VerifyEmail(t)
    \/ \E s \in Slots, b \in Browsers, t \in Tokens, p \in Passwords : ConsumeToken(s, b, t, p)
    \/ \E s \in Slots : ChangePassword(s) \/ SweepSessions(s) \/ CommitReset(s)

SessionStep ==
    \/ \E s \in Slots, b \in Browsers, e \in RealEmails, p \in Passwords : LoginLoad(s, b, e, p)
    \/ \E s \in Slots : PasswordWrong(s) \/ PasswordRight(s) \/ OpenSession(s)
    \/ \E b \in Browsers : AuthReject(b)
    \/ \E s \in Slots, b \in Browsers : AuthLoad(s, b)
    \/ \E s \in Slots : Admit(s) \/ Expel(s) \/ Logout(s)

Surroundings ==
    \/ \E s \in Slots : Abort(s)
    \/ \E e \in Emails : Block(e)
    \/ Cleanup
    \/ Tick
=============================================================================
