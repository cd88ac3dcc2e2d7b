---------------------------- MODULE SocialLogin ----------------------------
(***************************************************************************)
(* Signing in through VK ID and Yandex ID, and linking such an account to *)
(* one that has a password: service/auth/oauth.go, pkg/oauthstate and the *)
(* oauth_identities table, on top of the requests of Access.              *)
(***************************************************************************)
EXTENDS Access

CONSTANT PlaceholderOf      \* the address made up for an account without email

ASSUME SocialAssumption == PlaceholderOf \in [Externals -> Emails \ RealEmails]

VARIABLES
    redis,          \* [token -> key of Redis with its payload, or NoVal]
    identities      \* [Externals -> account it is bound to, or NoVal]

socialVars == <<redis, identities>>
vars == <<users, sessions, oneTime, cookie, tasks, issued, begun, clock,
          redis, identities>>

RedisKey == [kind : {"state", "link"}, user : Emails \cup {NoVal},
             ext : Externals \cup {NoVal}, expires : Nat]

ASSUME NoValIsNoKey == NoVal \notin RedisKey

-----------------------------------------------------------------------------
(* The store: SET with EX, and GETDEL. *)

SaveKey(kind, e, x) ==
    /\ Fresh \in Tokens
    /\ issued' = Fresh
    /\ redis' = [redis EXCEPT ![Fresh] =
           [kind |-> kind, user |-> e, ext |-> x, expires |-> clock + OneTimeTTL[kind]]]

Held(t, kind) == /\ redis[t] # NoVal
                 /\ redis[t].kind = kind
                 /\ redis[t].expires > clock

Consume(t) == redis' = [redis EXCEPT ![t] = NoVal]

\* Mutant of NotBlocked, and of IdentityFree (an upsert).
AnyStatus(u) == TRUE
AnyIdentity(x) == TRUE

NotBlocked(u) == u.status # "blocked"

\* oauth_identities is UNIQUE (provider, external_id).
IdentityFree(x) == identities[x] = NoVal

oauthEmailFor(x, reported) == IF reported = NoVal THEN PlaceholderOf[x] ELSE reported

-----------------------------------------------------------------------------
BeginOAuth ==
    /\ SaveKey("state", NoVal, NoVal)
    /\ UNCHANGED <<users, sessions, oneTime, cookie, tasks, begun, clock, identities>>

\* Exchange and FetchUser: who signed in and, in lower case, the address the
\* provider has for them, if any.  A provider that refuses or does not answer
\* leaves a request that has consumed its state and ends (Abort).
FetchUser == Externals \X (RealEmails \cup {NoVal})

\* The callback consumes its state and learns from the provider who x is and,
\* perhaps, an email: which one may differ from one visit to the next.
CompleteOAuth(s, b, t, x, reported) ==
    /\ Held(t, "state")
    /\ Consume(t)
    /\ Begin(s, [NewTask("oauth", "lookup") EXCEPT
                    !.browser = b, !.ext = x, !.email = reported, !.barred = Barred])
    /\ UNCHANGED <<users, sessions, oneTime, cookie, issued, clock, identities>>

\* 1) The external account is bound already.
LookupIdentity(s) ==
    /\ At(s, "lookup")
    /\ LET e == identities[tasks[s].ext] IN
        \/ e = NoVal /\ Goto(s, "email")
        \/ e # NoVal /\ ~NotBlocked(users[e]) /\ End(s)
        \/ /\ e # NoVal /\ NotBlocked(users[e])
           /\ tasks' = [tasks EXCEPT ![s].stage = "open", ![s].email = e]
    /\ UNCHANGED <<users, sessions, oneTime, cookie, issued, begun, clock, redis, identities>>

\* 2) It is not, and the reported email may belong to an account: one with a
\* password has to be linked by it, one without is attached at once.
LookupEmail(s) ==
    /\ At(s, "email")
    /\ LET e == tasks[s].email
           x == tasks[s].ext
           known == e # NoVal /\ Exists(e) IN
        \/ /\ ~known
           /\ tasks' = [tasks EXCEPT ![s].stage = "create",
                                     ![s].email = oauthEmailFor(x, e)]
           /\ UNCHANGED <<issued, redis>>
        \/ /\ known /\ ~NotBlocked(users[e])
           /\ End(s)
           /\ UNCHANGED <<issued, redis>>
        \/ /\ known /\ NotBlocked(users[e]) /\ users[e].pwd # NoVal
           /\ SaveKey("link", e, x)
           /\ End(s)
        \/ /\ known /\ NotBlocked(users[e]) /\ users[e].pwd = NoVal
           /\ Goto(s, "attach")
           /\ UNCHANGED <<issued, redis>>
    /\ UNCHANGED <<users, sessions, oneTime, cookie, begun, clock, identities>>

\* 3) Neither: a new account, active at once.  A taken email ends the
\* request with ErrOAuthProviderFailed.
CreateAccount(s) ==
    /\ At(s, "create")
    /\ IF Exists(tasks[s].email)
       THEN End(s) /\ UNCHANGED users
       ELSE /\ CreateUser(tasks[s].email, "active", NoVal)
            /\ Goto(s, "attach")
    /\ UNCHANGED <<sessions, oneTime, cookie, issued, begun, clock, redis, identities>>

\* ErrDuplicate ends the request.
AttachIdentity(s) ==
    /\ At(s, "attach")
    /\ LET x == tasks[s].ext IN
        IF IdentityFree(x)
        THEN /\ identities' = [identities EXCEPT ![x] = tasks[s].email]
             /\ Goto(s, "open")
        ELSE End(s) /\ UNCHANGED identities
    /\ UNCHANGED <<users, sessions, oneTime, cookie, issued, begun, clock, redis>>

\* ConfirmOAuthLink consumes the link token whatever follows; the password is
\* then checked by the steps of Access.
ConfirmOAuthLink(s, b, t, p) ==
    /\ Held(t, "link")
    /\ tasks[s] = NoVal
    /\ Consume(t)
    /\ LET e == redis[t].user
           u == users[e] IN
        IF NotBlocked(u) /\ u.lock =< clock /\ u.pwd # NoVal
        THEN Begin(s, [NewTask("link", "verify") EXCEPT
                 !.browser = b, !.email = e, !.ext = redis[t].ext, !.row = u, !.pwd = p,
                 !.at = clock, !.barred = Barred])
        ELSE UNCHANGED <<tasks, begun>>
    /\ UNCHANGED <<users, sessions, oneTime, cookie, issued, clock, identities>>

-----------------------------------------------------------------------------
Init == /\ AccessInit
        /\ redis = [t \in Tokens |-> NoVal]
        /\ identities = [x \in Externals |-> NoVal]

OAuthStep ==
    \/ BeginOAuth
    \/ \E s \in Slots, b \in Browsers, t \in Tokens, who \in FetchUser :
           CompleteOAuth(s, b, t, who[1], who[2])
    \/ \E s \in Slots : \/ LookupIdentity(s) \/ LookupEmail(s)
                        \/ CreateAccount(s) \/ AttachIdentity(s)
    \/ \E s \in Slots, b \in Browsers, t \in Tokens, p \in Passwords :
           ConfirmOAuthLink(s, b, t, p)

Next == \/ (AccountStep \/ SessionStep \/ Surroundings) /\ UNCHANGED socialVars
        \/ OAuthStep

Spec == Init /\ [][Next]_vars

-----------------------------------------------------------------------------
AccessTypeOK ==
    /\ users \in [Emails -> UserRow \cup {NoVal}]
    /\ sessions \in [Tokens -> SessionRow \cup {NoVal}]
    /\ oneTime \in [Tokens -> TokenRow \cup {NoVal}]
    /\ cookie \in [Browsers -> Tokens \cup {NoVal}]
    /\ tasks \in [Slots -> Task \cup {NoVal}]
    /\ issued \in 0 .. MaxTokens
    /\ begun \in 0 .. MaxRequests
    /\ clock \in Nat
    /\ redis \in [Tokens -> RedisKey \cup {NoVal}]
    /\ identities \in [Externals -> Emails \cup {NoVal}]

\* A session that a password opened is under the password its account has now,
\* whichever way a reset interleaves with logins, links and other resets, but
\* for one case: the request that stored it read the account before the reset
\* committed and stored the session after the reset's DELETE
\* (password_reset_tokens_pg.go Consume, service.go Login, oauth.go).
SessionsFollowPassword ==
    \A t \in Tokens : sessions[t] # NoVal /\ ~sessions[t].raced =>
        /\ Exists(sessions[t].user)
        /\ sessions[t].under \in {NoVal, users[sessions[t].user].pwd}

\* auth_handler.go, ResetPassword: on success it revokes all the sessions of
\* the user.
ResetRevokesAll ==
    [][\A s \in Slots : CommitReset(s) =>
          \A t \in Tokens : sessions'[t] # NoVal =>
              sessions'[t].user # tasks[s].email]_vars

\* A lockout always has failures behind it, and lasts no longer than those
\* failures earn, however stale the counter a login wrote back
\* (service.go Login, throttle.go).
LockHasCause ==
    \A e \in Emails : Exists(e) /\ users[e].lock # 0 =>
        users[e].lock =< LockoutUntil(users[e].fails, clock)

\* A request that begins after its account was blocked opens no session,
\* whichever of the five ways in it takes (service.go:330, oauth.go:145, 164,
\* 269).
NoEntryForBarred ==
    [][\A t \in Tokens : sessions[t] = NoVal /\ sessions'[t] # NoVal =>
          \A s \in Slots : tasks'[s] # tasks[s] =>
              sessions'[t].user \notin tasks[s].barred]_vars

\* An external account leads into one account only: whoever comes in through
\* it is in the account it is bound to, though callbacks and links race and the
\* provider reports another email later (oauth.go, oauth_identities_pg.go
\* Create, migration 000015).
OneAccountBehind ==
    \A t \in Tokens : sessions[t] # NoVal /\ sessions[t].via # NoVal =>
        identities[sessions[t].via] = sessions[t].user
=============================================================================
