-------------------------- MODULE SocialLoginProofs --------------------------
(***************************************************************************)
(* Proofs about SocialLogin, and with it about Access: no session outlives *)
(* the password it was opened under, unless a reset raced the request that *)
(* opened it; no lockout outlives its failures; a barred account is let in *)
(* by none of the five ways; an external account leads into one account.   *)
(*                                                                         *)
(* The inductive invariant comes in two parts.  LoginInv says what is      *)
(* stored and what a request has read of it, and EntryInv, which rests on  *)
(* it, what a request knows when it opens a session.                       *)
(***************************************************************************)
EXTENDS SocialLogin, WellFoundedInduction, TLAPS

-----------------------------------------------------------------------------
(* The inductive invariant.                                                *)

\* What a request knows at each of its stages.  An account is never deleted
\* and a blocked one never released, so what it read once still stands.
OwnerStages == {"verify", "open", "attach", "token", "invalidate", "issue", "admit",
                "password", "sweep", "commit"}

TaskShape(t) ==
    /\ t.stage \in OwnerStages => t.email \in Emails /\ Exists(t.email)
    /\ t.stage = "create" => t.email \in Emails
    /\ t.stage \in {"lookup", "email", "create", "attach"} => t.ext \in Externals
    /\ t.stage = "verify" => /\ t.op \in {"login", "link"}
                             /\ t.op = "link" => t.ext \in Externals
                             /\ t.row \in UserRow
                             /\ t.at =< clock
    /\ t.stage \in {"admit", "run"} => t.tok \in Tokens

\* Where a request has made sure that it does not let a barred account in.
TaskAdmits(t) ==
    /\ \A e \in t.barred : Exists(e) /\ users[e].status = "blocked"
    /\ t.stage \in {"open", "attach"} => t.email \notin t.barred
    /\ t.stage = "verify" /\ (t.op = "link" \/ t.row.status = "active")
            => t.email \notin t.barred

TasksShaped == \A s \in Slots : tasks[s] # NoVal => TaskShape(tasks[s]) /\ TaskAdmits(tasks[s])

\* Sessions, tokens, keys and identities belong to accounts that exist.
SessionsOwned == \A t \in Tokens : sessions[t] # NoVal => Exists(sessions[t].user)

OwnersExist ==
    /\ \A t \in Tokens : oneTime[t] # NoVal => Exists(oneTime[t].user)
    /\ \A t \in Tokens : redis[t] # NoVal /\ redis[t].kind = "link" =>
            /\ redis[t].user \in Emails /\ Exists(redis[t].user)
            /\ redis[t].ext \in Externals
    /\ \A x \in Externals : identities[x] # NoVal => Exists(identities[x])

LoginInv ==
    /\ AccessTypeOK
    /\ TasksShaped
    /\ OwnersExist
    /\ SessionsOwned
    /\ LockHasCause

-----------------------------------------------------------------------------
(* LockoutUntil.                                                           *)

LEMMA HighestExists ==
    ASSUME NEW f \in Nat, NEW T \in SUBSET Nat, T # {}, \A n \in T : n =< f
    PROVE  \E n \in T : \A m \in T : m =< n
<1> DEFINE D == {f - n : n \in T}
<1>1. D \subseteq Nat /\ D # {}
  <2>1. PICK n \in T : TRUE
    OBVIOUS
  <2>2. f - n \in D
    BY <2>1
  <2>3. ASSUME NEW m \in T PROVE f - m \in Nat
    OBVIOUS
  <2>4. QED
    BY <2>2, <2>3
<1>2. PICK x \in D : \A y \in D : <<y, x>> \notin OpToRel(<, Nat)
  BY <1>1, WFMin, NatLessThanWellFounded
<1>3. \A y \in D : ~(y < x)
  BY <1>1, <1>2 DEF OpToRel
<1>4. PICK n \in T : x = f - n
  OBVIOUS
<1>5. ASSUME NEW m \in T PROVE m =< n
  <2>1. f - m \in D
    OBVIOUS
  <2>2. ~(f - m < f - n)
    BY <1>3, <1>4, <2>1
  <2>3. QED
    BY <2>2
<1>6. QED
  BY <1>5

\* The lockout earned by a number of failures is none, or a fixed time from
\* now on: it does not shrink when the clock moves on.
LEMMA LockoutFromNow ==
    ASSUME NEW f \in Nat
    PROVE  \/ \A t \in Nat : LockoutUntil(f, t) = 0
           \/ \E c \in Nat : \A t \in Nat : LockoutUntil(f, t) = t + c
<1> USE AccessAssumption
<1> DEFINE reached == {n \in DOMAIN LockFor : n =< f}
           top == CHOOSE n \in reached : \A m \in reached : m =< n
<1>1. CASE reached = {}
  BY <1>1 DEF LockoutUntil
<1>2. CASE reached # {}
  <2>1. \E n \in reached : \A m \in reached : m =< n
    BY <1>2, HighestExists
  <2>2. top \in reached
    BY <2>1
  <2>3. LockFor[top] \in Nat
    BY <2>2
  <2>4. \A t \in Nat : LockoutUntil(f, t) = t + LockFor[top]
    BY <1>2 DEF LockoutUntil
  <2>5. QED
    BY <2>3, <2>4
<1>3. QED
  BY <1>1, <1>2

LEMMA LockoutGrows ==
    ASSUME NEW f \in Nat, NEW s \in Nat, NEW t \in Nat, s =< t
    PROVE  /\ LockoutUntil(f, s) \in Nat
           /\ LockoutUntil(f, s) =< LockoutUntil(f, t)
BY LockoutFromNow

-----------------------------------------------------------------------------
(* How the accounts evolve.                                                *)

\* No account disappears, none is released, time goes on.
Evolves ==
    /\ \A e \in Emails : Exists(e) => Exists(e)'
    /\ \A e \in Emails : Exists(e) /\ users[e].status = "blocked"
                            => users'[e].status = "blocked"
    /\ clock' \in Nat /\ clock =< clock'

\* An UPDATE of one row that leaves its status, or blocks or activates it.
LEMMA UpdateEvolves ==
    ASSUME AccessTypeOK, NEW e \in Emails, NEW row \in UserRow, UNCHANGED clock,
           users' = [users EXCEPT ![e] = row],
           Exists(e) /\ users[e].status = "blocked" => row.status = "blocked"
    PROVE  Evolves /\ users' \in [Emails -> UserRow \cup {NoVal}]
BY NoValIsNoRow DEF Evolves, Exists, AccessTypeOK

\* A step that gives one slot another request.
LEMMA TaskMoves ==
    ASSUME AccessTypeOK, TasksShaped, Evolves, NEW s \in Slots,
           NEW task \in Task \cup {NoVal},
           tasks' = [tasks EXCEPT ![s] = task],
           task # NoVal => TaskShape(task)' /\ TaskAdmits(task)'
    PROVE  tasks' \in [Slots -> Task \cup {NoVal}] /\ TasksShaped'
<1>1. tasks' \in [Slots -> Task \cup {NoVal}]
  BY DEF AccessTypeOK
<1>2. ASSUME NEW t \in Slots, t # s, tasks'[t] # NoVal
      PROVE  TaskShape(tasks[t])' /\ TaskAdmits(tasks[t])'
  <2>1. tasks'[t] = tasks[t] /\ tasks[t] \in Task
    BY <1>2 DEF AccessTypeOK
  <2>2. TaskShape(tasks[t]) /\ TaskAdmits(tasks[t])
    BY <1>2, <2>1 DEF TasksShaped
  <2>3. /\ tasks[t].at \in Nat
        /\ tasks[t].barred \in SUBSET Emails
    BY <2>1 DEF Task
  <2>4. QED
    BY <2>1, <2>2, <2>3 DEF TaskShape, TaskAdmits, Evolves, AccessTypeOK
<1>3. tasks'[s] = task
  BY DEF AccessTypeOK
<1>4. QED
  BY <1>1, <1>2, <1>3 DEF TasksShaped

\* A step that leaves the requests alone.
LEMMA TasksStay ==
    ASSUME AccessTypeOK, TasksShaped, Evolves, UNCHANGED tasks
    PROVE  tasks' \in [Slots -> Task \cup {NoVal}] /\ TasksShaped'
<1>1. ASSUME NEW t \in Slots, tasks[t] # NoVal
      PROVE  TaskShape(tasks[t])' /\ TaskAdmits(tasks[t])'
  <2>1. tasks'[t] = tasks[t] /\ tasks[t] \in Task
    BY <1>1 DEF AccessTypeOK
  <2>2. TaskShape(tasks[t]) /\ TaskAdmits(tasks[t])
    BY <1>1, <2>1 DEF TasksShaped
  <2>3. /\ tasks[t].at \in Nat
        /\ tasks[t].barred \in SUBSET Emails
    BY <2>1 DEF Task
  <2>4. QED
    BY <2>1, <2>2, <2>3 DEF TaskShape, TaskAdmits, Evolves, AccessTypeOK
<1>2. QED
  BY <1>1 DEF TasksShaped, AccessTypeOK

-----------------------------------------------------------------------------
(* What a step leaves alone stays right.                                   *)

\* No account is written: a lockout only comes nearer to its end.
LEMMA UsersStay ==
    ASSUME AccessTypeOK, LockHasCause, UNCHANGED users, clock' \in Nat, clock =< clock'
    PROVE  Evolves /\ LockHasCause' /\ users' \in [Emails -> UserRow \cup {NoVal}]
<1>1. Evolves
  BY DEF Evolves, Exists
<1>2. ASSUME NEW e \in Emails, Exists(e), users[e].lock # 0
      PROVE  users[e].lock =< LockoutUntil(users[e].fails, clock')
  <2>1. users[e].fails \in Nat /\ users[e].lock \in Nat /\ clock \in Nat
    BY <1>2 DEF AccessTypeOK, Exists, UserRow
  <2>2. users[e].lock =< LockoutUntil(users[e].fails, clock)
    BY <1>2 DEF LockHasCause
  <2>3. PICK f \in Nat, now \in Nat, later \in Nat :
                f = users[e].fails /\ now = clock /\ later = clock'
    BY <2>1
  <2>4. now =< later
    BY <2>3
  <2>5. LockoutUntil(f, now) \in Nat /\ LockoutUntil(f, now) =< LockoutUntil(f, later)
    BY ONLY <2>4, LockoutGrows
  <2>6. LockoutUntil(f, later) \in Nat
    BY ONLY LockoutGrows
  <2>7. users[e].lock =< LockoutUntil(f, later)
    BY <2>1, <2>2, <2>3, <2>5, <2>6
  <2>8. QED
    BY <2>3, <2>7
<1>3. LockHasCause'
  BY <1>2 DEF LockHasCause, Exists, LockoutUntil
<1>4. QED
  BY <1>1, <1>3 DEF AccessTypeOK

\* Nothing is bound or promised to anybody else.
LEMMA OwnersStay ==
    ASSUME AccessTypeOK, OwnersExist, Evolves, UNCHANGED <<oneTime, redis, identities>>
    PROVE  OwnersExist'
<1>1. \A t \in Tokens : oneTime[t] # NoVal => oneTime[t].user \in Emails
  BY DEF AccessTypeOK, TokenRow
<1>2. QED
  BY <1>1 DEF OwnersExist, Evolves, AccessTypeOK

\* A step that gives a slot another request and writes no account.
LEMMA RequestMoves ==
    ASSUME LoginInv, NEW s \in Slots, NEW task \in Task \cup {NoVal},
           tasks' = [tasks EXCEPT ![s] = task], UNCHANGED <<users, clock>>,
           task # NoVal => TaskShape(task) /\ TaskAdmits(task)
    PROVE  /\ Evolves /\ LockHasCause'
           /\ tasks' \in [Slots -> Task \cup {NoVal}] /\ TasksShaped'
<1> USE DEF LoginInv
<1>1. Evolves /\ LockHasCause'
  BY UsersStay DEF AccessTypeOK
<1>2. task # NoVal => TaskShape(task)' /\ TaskAdmits(task)'
  BY DEF TaskShape, TaskAdmits, Exists
<1>3. tasks' \in [Slots -> Task \cup {NoVal}] /\ TasksShaped'
  BY <1>1, <1>2, TaskMoves
<1>4. QED
  BY <1>1, <1>3

\* A step that only starts, moves or ends a request.
LEMMA OnlyRequests ==
    ASSUME LoginInv, NEW s \in Slots, NEW task \in Task \cup {NoVal},
           tasks' = [tasks EXCEPT ![s] = task], begun' \in 0 .. MaxRequests,
           UNCHANGED <<users, sessions, oneTime, cookie, issued, clock, redis, identities>>,
           task # NoVal => TaskShape(task) /\ TaskAdmits(task)
    PROVE  LoginInv'
<1> USE DEF LoginInv
<1>1. /\ Evolves /\ LockHasCause'
      /\ tasks' \in [Slots -> Task \cup {NoVal}] /\ TasksShaped'
  BY RequestMoves
<1>2. AccessTypeOK'
  BY <1>1 DEF AccessTypeOK
<1>3. OwnersExist'
  BY <1>1, OwnersStay
<1>4. SessionsOwned'
  BY DEF SessionsOwned, Exists
<1>5. QED
  BY <1>1, <1>2, <1>3, <1>4

\* Sessions are only ended or kept alive.
Kept ==
    \A t \in Tokens : sessions'[t] # NoVal =>
        /\ sessions[t] # NoVal
        /\ sessions'[t].user = sessions[t].user
        /\ sessions'[t].under = sessions[t].under
        /\ sessions'[t].raced = sessions[t].raced
        /\ sessions'[t].via = sessions[t].via

LEMMA SessionsStay ==
    ASSUME AccessTypeOK, SessionsOwned, Evolves,
           \A t \in Tokens : sessions'[t] # NoVal =>
               /\ sessions[t] # NoVal
               /\ sessions'[t].user = sessions[t].user
    PROVE  SessionsOwned'
<1>1. \A t \in Tokens : sessions[t] # NoVal => sessions[t].user \in Emails
  BY DEF AccessTypeOK, SessionRow
<1>2. QED
  BY <1>1 DEF SessionsOwned, Evolves

-----------------------------------------------------------------------------
(* Registration, confirmation and password reset.                          *)

LEMMA RegisterStep ==
    ASSUME LoginInv, NEW s \in Slots, NEW e \in Emails, NEW p \in Passwords,
           Register(s, e, p), UNCHANGED socialVars
    PROVE  LoginInv'
<1> USE DEF LoginInv
<1> USE NoValIsNoRow
<1> DEFINE row == [status |-> "pending_verification", pwd |-> p, fails |-> 0, lock |-> 0]
<1>1. /\ users[e] = NoVal
      /\ users' = [users EXCEPT ![e] = row]
      /\ row \in UserRow
      /\ clock' = clock
  BY DEF Register, CreateUser, UserRow
<1>2. Evolves /\ users' \in [Emails -> UserRow \cup {NoVal}]
  BY <1>1, UpdateEvolves DEF Exists
<1> DEFINE begins == [NewTask("register", "token") EXCEPT !.email = e]
<1>t. begins \in Task /\ begins.stage = "token" /\ begins.email = e /\ begins.barred = {}
  BY DEF NewTask, Task
<1>3. PICK task \in Task : /\ tasks' = [tasks EXCEPT ![s] = task]
                           /\ task.stage = "token" /\ task.email = e /\ task.barred = {}
  BY <1>t DEF Register, Begin
<1>4. TaskShape(task)' /\ TaskAdmits(task)'
  BY <1>1, <1>3 DEF TaskShape, TaskAdmits, Exists, AccessTypeOK, OwnerStages
<1>5. tasks' \in [Slots -> Task \cup {NoVal}] /\ TasksShaped'
  BY <1>2, <1>3, <1>4, TaskMoves
<1>6. AccessTypeOK'
  BY <1>2, <1>5, AccessAssumption DEF AccessTypeOK, Register, Begin, socialVars
<1>7. OwnersExist'
  BY <1>2, OwnersStay DEF Register, socialVars
<1>8. SessionsOwned'
  BY <1>2, SessionsStay DEF Register
<1>9. LockHasCause'
  BY <1>1 DEF LockHasCause, Exists, AccessTypeOK, LockoutUntil
<1>10. QED
  BY <1>5, <1>6, <1>7, <1>8, <1>9

LEMMA SendVerificationStep ==
    ASSUME LoginInv, NEW s \in Slots, SendVerification(s), UNCHANGED socialVars
    PROVE  LoginInv'
<1> USE DEF LoginInv
<1>1. /\ tasks[s] \in Task /\ tasks[s].email \in Emails /\ Exists(tasks[s].email)
      /\ tasks' = [tasks EXCEPT ![s] = NoVal]
      /\ UNCHANGED <<users, clock, sessions, redis, identities, cookie, begun>>
  BY DEF SendVerification, At, End, TasksShaped, TaskShape, OwnerStages, AccessTypeOK,
         socialVars
<1>2. /\ Evolves /\ LockHasCause'
      /\ tasks' \in [Slots -> Task \cup {NoVal}] /\ TasksShaped'
  BY <1>1, RequestMoves
<1> DEFINE token == [kind |-> "verify", user |-> tasks[s].email,
                     expires |-> clock + OneTimeTTL["verify"], used |-> FALSE]
<1>3. token \in TokenRow /\ token.user = tasks[s].email
  BY <1>1, AccessAssumption DEF TokenRow, AccessTypeOK
<1>4. issued' = Fresh /\ Fresh \in Tokens /\ oneTime' = [oneTime EXCEPT ![Fresh] = token]
  BY DEF SendVerification, CreateToken
<1> HIDE DEF token
<1>5. AccessTypeOK'
  BY <1>1, <1>2, <1>3, <1>4, AccessAssumption, SMTT(30) DEF AccessTypeOK, Tokens
<1>6. OwnersExist'
  BY <1>1, <1>3, <1>4 DEF OwnersExist, Exists, AccessTypeOK
<1>7. SessionsOwned'
  BY <1>1, <1>2, SessionsStay
<1>8. QED
  BY <1>2, <1>5, <1>6, <1>7

LEMMA InvalidatePendingStep ==
    ASSUME LoginInv, NEW s \in Slots, InvalidatePending(s), UNCHANGED socialVars
    PROVE  LoginInv'
<1> USE DEF LoginInv
<1>1. /\ tasks[s] \in Task /\ tasks[s].stage = "invalidate"
      /\ tasks[s] # NoVal
      /\ UNCHANGED <<users, clock, sessions, redis, identities, cookie, issued, begun>>
      /\ oneTime' = InvalidateTokens("verify", tasks[s].email)
  BY DEF InvalidatePending, At, AccessTypeOK, socialVars
<1> DEFINE moved == [tasks[s] EXCEPT !.stage = "token"]
<1>2. moved \in Task /\ TaskShape(moved) /\ TaskAdmits(moved)
  BY <1>1 DEF Task, TasksShaped, TaskShape, TaskAdmits, OwnerStages
<1>3. tasks' = [tasks EXCEPT ![s] = moved]
  BY DEF InvalidatePending, Goto, AccessTypeOK
<1>4. PICK task \in Task : task = moved
  BY <1>2
<1>5. /\ Evolves /\ LockHasCause'
      /\ tasks' \in [Slots -> Task \cup {NoVal}] /\ TasksShaped'
  BY <1>1, <1>2, <1>3, <1>4, RequestMoves
<1>6. \A t \in Tokens : \/ oneTime'[t] = NoVal /\ oneTime[t] = NoVal
                        \/ /\ oneTime[t] # NoVal /\ oneTime'[t] \in TokenRow
                           /\ oneTime'[t].user = oneTime[t].user
  <2> SUFFICES ASSUME NEW t \in Tokens
               PROVE  \/ oneTime'[t] = NoVal /\ oneTime[t] = NoVal
                      \/ /\ oneTime[t] # NoVal /\ oneTime'[t] \in TokenRow
                         /\ oneTime'[t].user = oneTime[t].user
    OBVIOUS
  <2>1. oneTime[t] \in TokenRow \cup {NoVal}
    BY DEF AccessTypeOK
  <2>2. \/ oneTime'[t] = oneTime[t]
        \/ oneTime[t] # NoVal /\ oneTime'[t] = [oneTime[t] EXCEPT !.used = TRUE]
    BY <1>1 DEF InvalidateTokens
  <2>3. QED
    BY <2>1, <2>2, NoValIsNoRow DEF TokenRow
<1>7. oneTime' \in [Tokens -> TokenRow \cup {NoVal}]
  BY <1>1, <1>6 DEF InvalidateTokens
<1>8. AccessTypeOK'
  BY <1>1, <1>5, <1>7 DEF AccessTypeOK
<1>9. OwnersExist'
  BY <1>1, <1>6 DEF OwnersExist, Exists
<1>10. SessionsOwned'
  BY <1>1, <1>5, SessionsStay
<1>11. QED
  BY <1>5, <1>8, <1>9, <1>10

LEMMA IssueResetStep ==
    ASSUME LoginInv, NEW s \in Slots, IssueReset(s), UNCHANGED socialVars
    PROVE  LoginInv'
<1> USE DEF LoginInv
<1>1. /\ tasks[s] \in Task /\ tasks[s].email \in Emails /\ Exists(tasks[s].email)
      /\ tasks' = [tasks EXCEPT ![s] = NoVal]
      /\ UNCHANGED <<users, clock, sessions, redis, identities, cookie, begun>>
  BY DEF IssueReset, At, End, TasksShaped, TaskShape, OwnerStages, AccessTypeOK,
         socialVars
<1>2. /\ Evolves /\ LockHasCause'
      /\ tasks' \in [Slots -> Task \cup {NoVal}] /\ TasksShaped'
  BY <1>1, RequestMoves
<1> DEFINE token == [kind |-> "reset", user |-> tasks[s].email,
                     expires |-> clock + OneTimeTTL["reset"], used |-> FALSE]
           spent == InvalidateTokens("reset", tasks[s].email)
<1>3. token \in TokenRow /\ token.user = tasks[s].email
  BY <1>1, AccessAssumption DEF TokenRow, AccessTypeOK
<1>4. issued' = Fresh /\ Fresh \in Tokens /\ oneTime' = [spent EXCEPT ![Fresh] = token]
  BY DEF IssueReset, CreateToken
<1>5. \A t \in Tokens : \/ spent[t] = NoVal /\ oneTime[t] = NoVal
                        \/ /\ oneTime[t] # NoVal /\ spent[t] \in TokenRow
                           /\ spent[t].user = oneTime[t].user
  BY DEF InvalidateTokens, AccessTypeOK, TokenRow
<1>6. spent \in [Tokens -> TokenRow \cup {NoVal}]
  BY <1>5 DEF InvalidateTokens
<1> HIDE DEF token, spent
<1>7. AccessTypeOK'
  BY <1>1, <1>2, <1>3, <1>4, <1>6, AccessAssumption, SMTT(30) DEF AccessTypeOK, Tokens
<1>8. OwnersExist'
  BY <1>1, <1>3, <1>4, <1>5, <1>6 DEF OwnersExist, Exists
<1>9. SessionsOwned'
  BY <1>1, <1>2, SessionsStay
<1>10. QED
  BY <1>2, <1>7, <1>8, <1>9

\* Requests for a letter change nothing yet.
LEMMA LetterStep ==
    ASSUME LoginInv, NEW s \in Slots, NEW e \in Emails,
           ResendVerification(s, e) \/ ForgotPassword(s, e), UNCHANGED socialVars
    PROVE  LoginInv'
<1> DEFINE resend == [NewTask("resend", "invalidate") EXCEPT !.email = e]
           forgot == [NewTask("forgot", "issue") EXCEPT !.email = e]
<1>1. Exists(e) => \A new \in {resend, forgot} : new \in Task /\ TaskShape(new) /\ TaskAdmits(new)
  <2>1. resend \in Task /\ forgot \in Task
    BY DEF NewTask, Task
  <2>2. \A new \in {resend, forgot} : /\ new.stage \in {"invalidate", "issue"}
                                       /\ new.email = e /\ new.barred = {}
    BY DEF NewTask
  <2> HIDE DEF resend, forgot
  <2>3. QED
    BY <2>1, <2>2 DEF TaskShape, TaskAdmits, OwnerStages
<1>2. \E new \in {resend, forgot} : tasks' = [tasks EXCEPT ![s] = new]
  BY DEF ResendVerification, ForgotPassword, Begin
<1>3. PICK task \in Task : /\ tasks' = [tasks EXCEPT ![s] = task]
                           /\ TaskShape(task) /\ TaskAdmits(task)
  <2>1. Exists(e)
    BY DEF ResendVerification, ForgotPassword
  <2> HIDE DEF resend, forgot
  <2>2. QED
    BY <1>1, <1>2, <2>1
<1>4. /\ UNCHANGED <<users, sessions, oneTime, cookie, issued, clock, redis, identities>>
      /\ begun' = begun + 1 /\ begun < MaxRequests
  BY DEF ResendVerification, ForgotPassword, Begin, socialVars
<1>5. begun' \in 0 .. MaxRequests
  BY <1>4, AccessAssumption DEF LoginInv, AccessTypeOK
<1>6. QED
  BY <1>3, <1>4, <1>5, OnlyRequests

\* A spent token stays its owner's.
LEMMA SpendKeeps ==
    ASSUME AccessTypeOK, NEW t, Spend(t)
    PROVE  /\ oneTime' \in [Tokens -> TokenRow \cup {NoVal}]
           /\ \A n \in Tokens : oneTime'[n] # NoVal => /\ oneTime[n] # NoVal
                                                       /\ oneTime'[n].user = oneTime[n].user
<1>1. ASSUME NEW n \in Tokens
      PROVE  /\ oneTime'[n] \in TokenRow \cup {NoVal}
             /\ oneTime'[n] # NoVal => /\ oneTime[n] # NoVal
                                       /\ oneTime'[n].user = oneTime[n].user
  <2>1. oneTime[n] \in TokenRow \cup {NoVal}
    BY DEF AccessTypeOK
  <2>2. \/ oneTime'[n] = oneTime[n]
        \/ oneTime[n] # NoVal /\ oneTime'[n] = [oneTime[n] EXCEPT !.used = TRUE]
    BY DEF Spend
  <2>3. QED
    BY <2>1, <2>2 DEF TokenRow
<1>2. QED
  BY <1>1 DEF Spend

LEMMA VerifyEmailStep ==
    ASSUME LoginInv, NEW t \in Tokens, VerifyEmail(t), UNCHANGED socialVars
    PROVE  LoginInv'
<1> USE DEF LoginInv
<1> DEFINE e == oneTime[t].user
<1>1. /\ oneTime[t] \in TokenRow /\ e \in Emails /\ Exists(e) /\ users[e] \in UserRow
      /\ UNCHANGED <<clock, sessions, redis, identities, cookie, issued, begun, tasks>>
      /\ Spend(t)
  BY DEF VerifyEmail, Usable, OwnersExist, AccessTypeOK, TokenRow, socialVars, Exists
<1> DEFINE row == IF users[e].status = "pending_verification"
                  THEN [users[e] EXCEPT !.status = "active"] ELSE users[e]
<1>2. /\ row \in UserRow /\ users' = [users EXCEPT ![e] = row]
      /\ row.pwd = users[e].pwd /\ row.fails = users[e].fails /\ row.lock = users[e].lock
      /\ users[e].status = "blocked" => row.status = "blocked"
  BY <1>1 DEF VerifyEmail, AccessTypeOK, UserRow
<1> HIDE DEF row
<1>3. Evolves /\ users' \in [Emails -> UserRow \cup {NoVal}]
  BY <1>1, <1>2, UpdateEvolves
<1>4. /\ tasks' \in [Slots -> Task \cup {NoVal}] /\ TasksShaped'
  BY <1>1, <1>3, TasksStay
<1>5. /\ oneTime' \in [Tokens -> TokenRow \cup {NoVal}]
      /\ \A n \in Tokens : oneTime'[n] # NoVal => /\ oneTime[n] # NoVal
                                                  /\ oneTime'[n].user = oneTime[n].user
  BY <1>1, SpendKeeps
<1>6. AccessTypeOK'
  BY <1>1, <1>3, <1>4, <1>5 DEF AccessTypeOK
<1>7. OwnersExist'
  <2>1. \A n \in Tokens : oneTime[n] # NoVal => oneTime[n].user \in Emails
    BY DEF AccessTypeOK, TokenRow
  <2>2. QED
    BY <1>1, <1>3, <1>5, <2>1 DEF OwnersExist, Evolves, AccessTypeOK
<1>8. \A a \in Emails : Exists(a)' => /\ Exists(a) /\ users'[a].pwd = users[a].pwd
                                      /\ users'[a].fails = users[a].fails
                                      /\ users'[a].lock = users[a].lock
  BY <1>1, <1>2 DEF Exists, AccessTypeOK
<1>9. SessionsOwned'
  BY <1>1, <1>3, SessionsStay
<1>10. LockHasCause'
  BY <1>1, <1>8 DEF LockHasCause, LockoutUntil
<1>11. QED
  BY <1>4, <1>6, <1>7, <1>9, <1>10

\* The transaction begins: the row of its token is locked.
LEMMA ConsumeTokenStep ==
    ASSUME LoginInv, NEW s \in Slots, NEW b \in Browsers, NEW t \in Tokens,
           NEW p \in Passwords, ConsumeToken(s, b, t, p), UNCHANGED socialVars
    PROVE  LoginInv'
<1> USE DEF LoginInv
<1> DEFINE new == [NewTask("reset", "password") EXCEPT
                      !.browser = b, !.email = oneTime[t].user, !.tok = t, !.pwd = p]
<1>1. oneTime[t].user \in Emails /\ Exists(oneTime[t].user)
  BY DEF ConsumeToken, Usable, OwnersExist, AccessTypeOK, TokenRow
<1>2. new \in Task /\ TaskShape(new) /\ TaskAdmits(new)
  BY <1>1 DEF NewTask, Task, TaskShape, TaskAdmits, OwnerStages
<1>3. tasks' = [tasks EXCEPT ![s] = new]
  BY DEF ConsumeToken, Begin
<1> HIDE DEF new
<1>4. PICK task \in Task : task = new
  BY <1>2
<1>5. begun' \in 0 .. MaxRequests
  BY AccessAssumption DEF ConsumeToken, Begin, AccessTypeOK
<1>6. UNCHANGED <<users, sessions, oneTime, cookie, issued, clock, redis, identities>>
  BY DEF ConsumeToken, socialVars
<1>7. QED
  BY <1>2, <1>3, <1>4, <1>5, <1>6, OnlyRequests

\* Its second and third statements change nothing that others see.
LEMMA ChangePasswordStep ==
    ASSUME LoginInv, NEW s \in Slots, ChangePassword(s), UNCHANGED socialVars
    PROVE  LoginInv'
<1> USE DEF LoginInv
<1> DEFINE moved == [tasks[s] EXCEPT !.stage = "sweep"]
<1>1. /\ tasks[s] # NoVal /\ tasks[s].stage = "password" /\ tasks[s] \in Task
      /\ TaskShape(tasks[s]) /\ TaskAdmits(tasks[s])
      /\ UNCHANGED <<users, sessions, oneTime, cookie, issued, clock, redis, identities>>
      /\ begun' \in 0 .. MaxRequests
  BY DEF ChangePassword, At, AccessTypeOK, TasksShaped, socialVars
<1>2. moved \in Task /\ TaskShape(moved) /\ TaskAdmits(moved)
  BY <1>1 DEF TaskShape, TaskAdmits, Task, OwnerStages
<1>3. tasks' = [tasks EXCEPT ![s] = moved]
  BY DEF ChangePassword, Goto, AccessTypeOK
<1> HIDE DEF moved
<1>4. PICK task \in Task : task = moved
  BY <1>2
<1>5. QED
  BY <1>1, <1>2, <1>3, <1>4, OnlyRequests

LEMMA SweepSessionsStep ==
    ASSUME LoginInv, NEW s \in Slots, SweepSessions(s), UNCHANGED socialVars
    PROVE  LoginInv'
<1> USE DEF LoginInv
<1> DEFINE rows == SessionsOf(tasks[s].email)
           moved == [tasks[s] EXCEPT !.stage = "commit", !.gone = rows]
<1>1. /\ tasks[s] # NoVal /\ tasks[s].stage = "sweep" /\ tasks[s] \in Task
      /\ TaskShape(tasks[s]) /\ TaskAdmits(tasks[s])
      /\ UNCHANGED <<users, sessions, oneTime, cookie, issued, clock, redis, identities>>
      /\ begun' \in 0 .. MaxRequests
  BY DEF SweepSessions, At, AccessTypeOK, TasksShaped, socialVars
<1>2. rows \in SUBSET Tokens
  BY DEF SessionsOf
<1>3. tasks' = [tasks EXCEPT ![s] = moved]
  BY DEF SweepSessions, AccessTypeOK
<1> HIDE DEF rows
<1>4. moved \in Task /\ TaskShape(moved) /\ TaskAdmits(moved)
  <2>1. moved \in Task
    BY <1>1, <1>2 DEF Task
  <2>2. /\ moved.stage = "commit" /\ moved.email = tasks[s].email
        /\ moved.barred = tasks[s].barred
    BY <1>1 DEF Task
  <2> HIDE DEF moved
  <2>3. QED
    BY <1>1, <2>1, <2>2 DEF TaskShape, TaskAdmits, OwnerStages
<1> HIDE DEF moved
<1>5. PICK task \in Task : task = moved
  BY <1>4
<1>6. QED
  BY <1>1, <1>3, <1>4, <1>5, OnlyRequests

\* Requests that are marked as raced know what they knew.
LEMMA MarkRacedKeeps ==
    ASSUME AccessTypeOK, TasksShaped, NEW e
    PROVE  /\ MarkRaced(e) \in [Slots -> Task \cup {NoVal}]
           /\ \A r \in Slots : MarkRaced(e)[r] # NoVal =>
                  /\ tasks[r] # NoVal
                  /\ TaskShape(MarkRaced(e)[r]) /\ TaskAdmits(MarkRaced(e)[r])
<1>1. ASSUME NEW r \in Slots, tasks[r] # NoVal
      PROVE  /\ [tasks[r] EXCEPT !.raced = TRUE] \in Task
             /\ TaskShape([tasks[r] EXCEPT !.raced = TRUE])
             /\ TaskAdmits([tasks[r] EXCEPT !.raced = TRUE])
             /\ tasks[r] \in Task /\ TaskShape(tasks[r]) /\ TaskAdmits(tasks[r])
  <2>1. tasks[r] \in Task /\ TaskShape(tasks[r]) /\ TaskAdmits(tasks[r])
    BY <1>1 DEF AccessTypeOK, TasksShaped
  <2>2. [tasks[r] EXCEPT !.raced = TRUE] \in Task
    BY <2>1 DEF Task
  <2>3. QED
    BY <2>1, <2>2 DEF TaskShape, TaskAdmits, Task
<1>2. ASSUME NEW r \in Slots
      PROVE  /\ MarkRaced(e)[r] \in Task \cup {NoVal}
             /\ MarkRaced(e)[r] # NoVal =>
                    /\ tasks[r] # NoVal
                    /\ TaskShape(MarkRaced(e)[r]) /\ TaskAdmits(MarkRaced(e)[r])
  <2>1. CASE tasks[r] = NoVal
    BY <2>1 DEF MarkRaced
  <2>2. CASE tasks[r] # NoVal
    <3>1. PICK task \in {tasks[r], [tasks[r] EXCEPT !.raced = TRUE]} : MarkRaced(e)[r] = task
      BY <2>2 DEF MarkRaced
    <3>2. task \in Task /\ TaskShape(task) /\ TaskAdmits(task)
      BY <1>1, <2>2
    <3>3. QED
      BY <2>2, <3>1, <3>2
  <2>3. QED
    BY <2>1, <2>2
<1>3. QED
  BY <1>2 DEF MarkRaced

\* COMMIT: every request that goes on knows what it knew, and the account is
\* neither blocked nor released by it.
LEMMA CommitResetStep ==
    ASSUME LoginInv, NEW s \in Slots, CommitReset(s), UNCHANGED socialVars
    PROVE  LoginInv'
<1> USE DEF LoginInv
<1> DEFINE e == tasks[s].email
           row == [users[e] EXCEPT !.pwd = tasks[s].pwd, !.fails = 0, !.lock = 0]
<1>1. /\ tasks[s] # NoVal /\ tasks[s] \in Task
      /\ e \in Emails /\ Exists(e) /\ users[e] \in UserRow
      /\ UNCHANGED <<clock, redis, identities, issued, begun>>
      /\ Spend(tasks[s].tok)
      /\ cookie' = [cookie EXCEPT ![tasks[s].browser] = NoVal]
      /\ tasks' = [MarkRaced(e) EXCEPT ![s] = NoVal]
  BY DEF CommitReset, At, TasksShaped, TaskShape, OwnerStages, AccessTypeOK, socialVars,
         Exists, ClearSessionCookie
<1>2. /\ row \in UserRow /\ users' = [users EXCEPT ![e] = row]
      /\ row.lock = 0 /\ row.status = users[e].status
  BY <1>1 DEF CommitReset, AccessTypeOK, UserRow, Task
<1> HIDE DEF row
<1>3. Evolves /\ users' \in [Emails -> UserRow \cup {NoVal}]
  BY <1>1, <1>2, UpdateEvolves
<1>4. tasks' \in [Slots -> Task \cup {NoVal}]
  BY <1>1, MarkRacedKeeps
<1>5. TasksShaped'
  <2> SUFFICES ASSUME NEW r \in Slots, tasks'[r] # NoVal
               PROVE  TaskShape(tasks[r])' /\ TaskAdmits(tasks[r])'
    BY DEF TasksShaped
  <2>1. tasks'[r] = MarkRaced(e)[r] /\ tasks'[r] \in Task
    BY <1>1, <1>4, MarkRacedKeeps
  <2>2. PICK task \in Task : task = MarkRaced(e)[r] /\ task = tasks'[r]
    BY <2>1
  <2>3. TaskShape(task) /\ TaskAdmits(task)
    BY <2>1, <2>2, MarkRacedKeeps
  <2>4. task.at \in Nat /\ task.barred \in SUBSET Emails
    BY <2>2 DEF Task
  <2>5. TaskShape(task)' /\ TaskAdmits(task)'
    BY <1>3, <2>3, <2>4 DEF TaskShape, TaskAdmits, Evolves, AccessTypeOK
  <2>6. QED
    BY <2>2, <2>5 DEF TaskShape, TaskAdmits
<1>6. /\ oneTime' \in [Tokens -> TokenRow \cup {NoVal}]
      /\ \A n \in Tokens : oneTime'[n] # NoVal => /\ oneTime[n] # NoVal
                                                  /\ oneTime'[n].user = oneTime[n].user
  BY <1>1, SpendKeeps
<1>7. /\ sessions' \in [Tokens -> SessionRow \cup {NoVal}]
      /\ \A n \in Tokens : sessions'[n] # NoVal => sessions[n] # NoVal /\ sessions'[n] = sessions[n]
  BY DEF CommitReset, AccessTypeOK
<1>8. AccessTypeOK'
  BY <1>1, <1>3, <1>4, <1>6, <1>7 DEF AccessTypeOK
<1>9. OwnersExist'
  <2>1. \A n \in Tokens : oneTime[n] # NoVal => oneTime[n].user \in Emails
    BY DEF AccessTypeOK, TokenRow
  <2>2. QED
    BY <1>1, <1>3, <1>6, <2>1 DEF OwnersExist, Evolves, AccessTypeOK
<1>10. SessionsOwned'
  BY <1>3, <1>7, SessionsStay
<1>11. /\ \A a \in Emails \ {e} : users'[a] = users[a]
       /\ users'[e].lock = 0
  BY <1>1, <1>2 DEF AccessTypeOK
<1>12. LockHasCause'
  BY <1>1, <1>11 DEF LockHasCause, LockoutUntil, Exists
<1>13. QED
  BY <1>5, <1>8, <1>9, <1>10, <1>12

-----------------------------------------------------------------------------
(* Login, sessions and logout.                                             *)

LEMMA LoginLoadStep ==
    ASSUME LoginInv, NEW s \in Slots, NEW b \in Browsers, NEW e \in Emails,
           NEW p \in Passwords, LoginLoad(s, b, e, p), UNCHANGED socialVars
    PROVE  LoginInv'
<1> USE DEF LoginInv
<1> DEFINE new == [NewTask("login", "verify") EXCEPT
                      !.browser = b, !.email = e, !.row = users[e], !.pwd = p,
                      !.at = clock, !.barred = Barred]
<1>1. Exists(e) /\ users[e] \in UserRow /\ clock \in Nat
  BY DEF LoginLoad, Exists, AccessTypeOK
<1>2. Barred \in SUBSET Emails /\ \A a \in Barred : Exists(a) /\ users[a].status = "blocked"
  BY DEF Barred
<1>3. users[e].status = "active" => e \notin Barred
  BY DEF Barred
<1>4. new \in Task /\ TaskShape(new) /\ TaskAdmits(new)
  <2>1. /\ new.op = "login" /\ new.stage = "verify" /\ new.email = e
        /\ new.row = users[e] /\ new.at = clock /\ new.barred = Barred
    BY DEF NewTask
  <2>2. new \in Task
    BY <1>1, <1>2 DEF NewTask, Task
  <2> HIDE DEF new
  <2>3. TaskShape(new)
    BY <1>1, <2>1 DEF TaskShape, OwnerStages
  <2>4. TaskAdmits(new)
    BY <1>2, <1>3, <2>1 DEF TaskAdmits
  <2>5. QED
    BY <2>2, <2>3, <2>4
<1>5. tasks' = [tasks EXCEPT ![s] = new]
  BY DEF LoginLoad, Begin
<1> HIDE DEF new
<1>6. PICK task \in Task : task = new
  BY <1>4
<1>7. begun' \in 0 .. MaxRequests
  BY AccessAssumption DEF LoginLoad, Begin, AccessTypeOK
<1>8. UNCHANGED <<users, sessions, oneTime, cookie, issued, clock, redis, identities>>
  BY DEF LoginLoad, socialVars
<1>9. QED
  BY <1>4, <1>5, <1>6, <1>7, <1>8, OnlyRequests

LEMMA PasswordWrongStep ==
    ASSUME LoginInv, NEW s \in Slots, PasswordWrong(s), UNCHANGED socialVars
    PROVE  LoginInv'
<1> USE DEF LoginInv
<1> DEFINE task == tasks[s]
           e == task.email
           count == task.row.fails + 1
           until == LockoutUntil(count, task.at)
           row == [users[e] EXCEPT !.fails = count, !.lock = until]
<1>1. /\ task \in Task /\ e \in Emails /\ Exists(e) /\ users[e] \in UserRow
      /\ task.row \in UserRow /\ task.at \in Nat /\ task.at =< clock
      /\ UNCHANGED <<clock, sessions, oneTime, redis, identities, issued, begun, cookie>>
      /\ tasks' = [tasks EXCEPT ![s] = NoVal]
  <2>1. task # NoVal /\ task.stage = "verify" /\ task \in Task
    BY DEF PasswordWrong, At, AccessTypeOK
  <2>2. TaskShape(task)
    BY <2>1 DEF TasksShaped
  <2>3. QED
    BY <2>1, <2>2 DEF PasswordWrong, End, TaskShape, OwnerStages, AccessTypeOK, Task,
       socialVars, Exists
<1>2. PICK f \in Nat, seen \in Nat, now \in Nat :
             f = count /\ seen = task.at /\ now = clock
  BY <1>1 DEF UserRow, AccessTypeOK
<1>3. seen =< now
  BY <1>1, <1>2
<1>4. LockoutUntil(f, seen) \in Nat /\ LockoutUntil(f, seen) =< LockoutUntil(f, now)
  BY ONLY <1>3, LockoutGrows
<1>5. count \in Nat /\ until \in Nat /\ until =< LockoutUntil(count, clock)
  BY <1>2, <1>4
<1>6. /\ row \in UserRow /\ users' = [users EXCEPT ![e] = row]
      /\ row.pwd = users[e].pwd /\ row.fails = count /\ row.lock = until
      /\ row.status = users[e].status
  <2> HIDE DEF until
  <2>1. QED
    BY <1>1, <1>5 DEF PasswordWrong, RegisterFailedLogin, AccessTypeOK, UserRow, until
<1> HIDE DEF row
<1>7. Evolves /\ users' \in [Emails -> UserRow \cup {NoVal}]
  BY <1>1, <1>6, UpdateEvolves
<1>8. /\ tasks' \in [Slots -> Task \cup {NoVal}] /\ TasksShaped'
  BY <1>1, <1>7, TaskMoves
<1>9. AccessTypeOK'
  BY <1>1, <1>7, <1>8 DEF AccessTypeOK
<1>10. OwnersExist'
  BY <1>1, <1>7, OwnersStay
<1>11. /\ \A a \in Emails \ {e} : users'[a] = users[a]
       /\ users'[e] = row
  BY <1>1, <1>6 DEF AccessTypeOK
<1>12. SessionsOwned'
  BY <1>1, <1>7, SessionsStay
<1>13. LockHasCause'
  <2>1. ASSUME NEW a \in Emails, users'[a] # NoVal, users'[a].lock # 0
        PROVE  users'[a].lock =< LockoutUntil(users'[a].fails, clock)
    BY <1>5, <1>6, <1>11, <2>1 DEF LockHasCause, Exists
  <2>2. QED
    BY <1>1, <2>1 DEF LockHasCause, Exists, LockoutUntil
<1>14. QED
  BY <1>8, <1>9, <1>10, <1>12, <1>13

LEMMA PasswordRightStep ==
    ASSUME LoginInv, NEW s \in Slots, PasswordRight(s), UNCHANGED socialVars
    PROVE  LoginInv'
<1> USE DEF LoginInv
<1> DEFINE e == tasks[s].email
           clean == [users[e] EXCEPT !.fails = 0, !.lock = 0]
           next == [tasks[s] EXCEPT !.stage = IF tasks[s].op = "login" THEN "open" ELSE "attach",
                                    !.row = NoVal]
<1>1. /\ tasks[s] # NoVal /\ tasks[s].stage = "verify" /\ tasks[s] \in Task
      /\ TaskShape(tasks[s]) /\ TaskAdmits(tasks[s])
  BY DEF PasswordRight, At, AccessTypeOK, TasksShaped
<1>2. /\ e \in Emails /\ Exists(e) /\ users[e] \in UserRow
      /\ UNCHANGED <<clock, sessions, oneTime, redis, identities, issued, begun, cookie>>
      /\ tasks[s].op = "login" => tasks[s].row.status = "active"
      /\ tasks[s].op \in {"login", "link"}
  BY <1>1 DEF PasswordRight, TaskShape, OwnerStages, AccessTypeOK, socialVars, Exists
<1>3. PICK row \in UserRow : /\ users' = [users EXCEPT ![e] = row]
                             /\ row.status = users[e].status
                             /\ row = users[e] \/ row.lock = 0
  <2>1. users' \in {[users EXCEPT ![e] = clean], users}
    BY DEF PasswordRight, ResetFailedLogin, AccessTypeOK
  <2>2. /\ clean \in UserRow /\ clean.lock = 0 /\ clean.status = users[e].status
        /\ users = [users EXCEPT ![e] = users[e]]
    BY <1>2 DEF UserRow, AccessTypeOK
  <2> HIDE DEF clean
  <2>3. QED
    BY <1>2, <2>1, <2>2
<1>4. next \in Task /\ tasks' = [tasks EXCEPT ![s] = next]
  <2>1. tasks' = [tasks EXCEPT ![s] = next]
    BY DEF PasswordRight, AccessTypeOK
  <2>2. PICK stage \in {"open", "attach"} :
                 stage = IF tasks[s].op = "login" THEN "open" ELSE "attach"
    OBVIOUS
  <2>3. [tasks[s] EXCEPT !.stage = stage, !.row = NoVal] \in Task
    BY <1>1 DEF Task
  <2>4. QED
    BY <2>1, <2>2, <2>3
<1>5. Evolves /\ users' \in [Emails -> UserRow \cup {NoVal}]
  BY <1>2, <1>3, UpdateEvolves
<1>6. TaskShape(next) /\ TaskAdmits(next)
  BY <1>1, <1>2 DEF TaskShape, TaskAdmits, OwnerStages, Task
<1>7. PICK task \in Task : task = next
  BY <1>4
<1>8. TaskShape(task)' /\ TaskAdmits(task)'
  <2>1. task.stage \in {"open", "attach"} /\ task.barred \in SUBSET Emails
    BY <1>1, <1>7 DEF Task
  <2>2. TaskShape(task) /\ TaskAdmits(task)
    BY <1>6, <1>7
  <2>3. QED
    BY <1>5, <2>1, <2>2 DEF TaskShape, TaskAdmits, Evolves
<1> HIDE DEF next
<1>9. /\ tasks' \in [Slots -> Task \cup {NoVal}] /\ TasksShaped'
  BY <1>4, <1>5, <1>7, <1>8, TaskMoves
<1>10. AccessTypeOK'
  BY <1>2, <1>5, <1>9 DEF AccessTypeOK
<1>11. OwnersExist'
  BY <1>2, <1>5, OwnersStay
<1>12. /\ \A a \in Emails \ {e} : users'[a] = users[a]
       /\ users'[e] = row
  BY <1>2, <1>3 DEF AccessTypeOK
<1>13. SessionsOwned'
  BY <1>1, <1>2, <1>5, SessionsStay
<1>14. LockHasCause'
  <2> SUFFICES ASSUME NEW a \in Emails, Exists(a)', users'[a].lock # 0
               PROVE  users'[a].lock =< LockoutUntil(users'[a].fails, clock)
    BY <1>2 DEF LockHasCause, LockoutUntil
  <2>1. users'[a] = users[a]
    BY <1>3, <1>12
  <2>2. QED
    BY <2>1 DEF LockHasCause, Exists
<1>15. QED
  BY <1>9, <1>10, <1>11, <1>13, <1>14

LEMMA OpenSessionStep ==
    ASSUME LoginInv, NEW s \in Slots, OpenSession(s), UNCHANGED socialVars
    PROVE  LoginInv'
<1> USE DEF LoginInv
<1> DEFINE e == tasks[s].email
           now == IF tasks[s].op = "login" THEN tasks[s].at ELSE clock
           row == [user |-> e, idle |-> now + IdleTTL, absolute |-> now + AbsoluteTTL,
                   under |-> tasks[s].pwd, raced |-> tasks[s].raced \/ Swept(e),
                   via |-> tasks[s].ext]
<1>1. /\ tasks[s] # NoVal /\ tasks[s].stage = "open" /\ tasks[s] \in Task
      /\ TaskShape(tasks[s])
  BY DEF OpenSession, At, AccessTypeOK, TasksShaped
<1>2. /\ e \in Emails /\ Exists(e) /\ users[e] \in UserRow /\ now \in Nat
      /\ tasks' = [tasks EXCEPT ![s] = NoVal]
      /\ UNCHANGED <<users, clock, oneTime, redis, identities, begun>>
      /\ tasks[s].browser \in Browsers \cup {NoVal}
  BY <1>1 DEF OpenSession, End, TaskShape, OwnerStages, AccessTypeOK, socialVars, Exists, Task
<1>3. /\ Evolves /\ LockHasCause'
      /\ tasks' \in [Slots -> Task \cup {NoVal}] /\ TasksShaped'
  BY <1>2, RequestMoves
<1>4. row \in SessionRow /\ row.user = e
  <2> HIDE DEF now
  <2>1. /\ tasks[s].pwd \in Passwords \cup {NoVal} /\ tasks[s].ext \in Externals \cup {NoVal}
        /\ (tasks[s].raced \/ Swept(e)) \in BOOLEAN
    BY <1>1 DEF Task
  <2>2. now + IdleTTL \in Nat /\ now + AbsoluteTTL \in Nat
    BY <1>2, AccessAssumption
  <2>3. QED
    BY <1>2, <2>1, <2>2 DEF SessionRow
<1>5. /\ issued' = Fresh /\ Fresh \in Tokens
      /\ sessions' = [sessions EXCEPT ![Fresh] = row]
      /\ cookie' = [cookie EXCEPT ![tasks[s].browser] = Fresh]
  BY DEF OpenSession, InsertSession, SetSessionCookie
<1> HIDE DEF row
<1>6. AccessTypeOK'
  <2>1. sessions' \in [Tokens -> SessionRow \cup {NoVal}]
    BY <1>4, <1>5 DEF AccessTypeOK
  <2>2. cookie' \in [Browsers -> Tokens \cup {NoVal}]
    BY <1>5 DEF AccessTypeOK
  <2>3. issued' \in 0 .. MaxTokens
    BY <1>5, AccessAssumption DEF AccessTypeOK, Tokens
  <2>4. QED
    BY <1>2, <1>3, <2>1, <2>2, <2>3 DEF AccessTypeOK
<1>7. OwnersExist'
  BY <1>2, <1>3, OwnersStay
<1>8. SessionsOwned'
  BY <1>2, <1>4, <1>5 DEF SessionsOwned, Exists, AccessTypeOK
<1>9. QED
  BY <1>3, <1>6, <1>7, <1>8

LEMMA AuthRejectStep ==
    ASSUME LoginInv, NEW b \in Browsers, AuthReject(b), UNCHANGED socialVars
    PROVE  LoginInv'
<1> USE DEF LoginInv
<1>1. /\ UNCHANGED <<users, sessions, oneTime, tasks, issued, begun, clock, redis, identities>>
      /\ cookie' \in [Browsers -> Tokens \cup {NoVal}]
  BY DEF AuthReject, ClearSessionCookie, AccessTypeOK, socialVars
<1>2. Evolves /\ LockHasCause'
  BY <1>1, UsersStay DEF AccessTypeOK
<1>3. TasksShaped'
  BY <1>1, <1>2, TasksStay
<1>4. AccessTypeOK'
  BY <1>1 DEF AccessTypeOK
<1>5. OwnersExist'
  BY <1>1, <1>2, OwnersStay
<1>6. SessionsOwned'
  BY <1>1, <1>2, SessionsStay
<1>7. QED
  BY <1>2, <1>3, <1>4, <1>5, <1>6

LEMMA AuthLoadStep ==
    ASSUME LoginInv, NEW s \in Slots, NEW b \in Browsers, AuthLoad(s, b), UNCHANGED socialVars
    PROVE  LoginInv'
<1> USE DEF LoginInv
<1> DEFINE new == [NewTask("request", "admit") EXCEPT
                      !.browser = b, !.tok = cookie[b], !.email = sessions[cookie[b]].user]
<1>1. /\ cookie[b] \in Tokens /\ sessions[cookie[b]].user \in Emails
      /\ Exists(sessions[cookie[b]].user)
  BY DEF AuthLoad, Live, AccessTypeOK, SessionRow, SessionsOwned
<1>2. new \in Task /\ TaskShape(new) /\ TaskAdmits(new)
  BY <1>1 DEF NewTask, Task, TaskShape, TaskAdmits, OwnerStages
<1>3. tasks' = [tasks EXCEPT ![s] = new]
  BY DEF AuthLoad, Begin
<1> HIDE DEF new
<1>4. PICK task \in Task : task = new
  BY <1>2
<1>5. begun' \in 0 .. MaxRequests
  BY AccessAssumption DEF AuthLoad, Begin, AccessTypeOK
<1>6. UNCHANGED <<users, sessions, oneTime, cookie, issued, clock, redis, identities>>
  BY DEF AuthLoad, socialVars
<1>7. QED
  BY <1>2, <1>3, <1>4, <1>5, <1>6, OnlyRequests

\* DELETE FROM sessions.
LEMMA DeleteKeeps ==
    ASSUME AccessTypeOK, NEW rows, Delete(rows)
    PROVE  sessions' \in [Tokens -> SessionRow \cup {NoVal}] /\ Kept
BY DEF AccessTypeOK, Delete, Kept

\* TouchIdleIfNeeded moves the idle deadline of one session.
LEMMA TouchKeeps ==
    ASSUME AccessTypeOK, NEW n \in Tokens, NEW b, TouchIdleIfNeeded(n, b)
    PROVE  /\ sessions' \in [Tokens -> SessionRow \cup {NoVal}] /\ Kept
           /\ cookie' \in [Browsers -> Tokens \cup {NoVal}]
<1>1. cookie' \in [Browsers -> Tokens \cup {NoVal}]
  BY DEF TouchIdleIfNeeded, SetSessionCookie, AccessTypeOK
<1>2. CASE UNCHANGED sessions
  BY <1>1, <1>2 DEF AccessTypeOK, Kept
<1>3. CASE ~UNCHANGED sessions
  <2> DEFINE idle == Earlier(clock + IdleTTL, sessions[n].absolute)
             row == [sessions[n] EXCEPT !.idle = idle]
  <2>1. /\ sessions[n] # NoVal /\ sessions[n] \in SessionRow
        /\ sessions' = [sessions EXCEPT ![n] = row]
    BY <1>3 DEF TouchIdleIfNeeded, AccessTypeOK
  <2>2. idle \in Nat
    BY <2>1, AccessAssumption DEF Earlier, SessionRow, AccessTypeOK
  <2> HIDE DEF idle
  <2>3. /\ row \in SessionRow /\ row.user = sessions[n].user /\ row.under = sessions[n].under
        /\ row.raced = sessions[n].raced /\ row.via = sessions[n].via
    BY <2>1, <2>2 DEF SessionRow
  <2> HIDE DEF row
  <2>4. QED
    BY <1>1, <2>1, <2>3 DEF AccessTypeOK, Kept
<1>4. QED
  BY <1>2, <1>3

LEMMA AdmitStep ==
    ASSUME LoginInv, NEW s \in Slots, Admit(s), UNCHANGED socialVars
    PROVE  LoginInv'
<1> USE DEF LoginInv
<1> DEFINE moved == [tasks[s] EXCEPT !.stage = "run"]
<1>1. /\ tasks[s] # NoVal /\ tasks[s].stage = "admit" /\ tasks[s] \in Task
      /\ TaskShape(tasks[s]) /\ TaskAdmits(tasks[s]) /\ tasks[s].tok \in Tokens
      /\ UNCHANGED <<users, clock, oneTime, redis, identities, issued, begun>>
      /\ TouchIdleIfNeeded(tasks[s].tok, tasks[s].browser)
  BY DEF Admit, At, AccessTypeOK, TasksShaped, TaskShape, socialVars
<1>2. moved \in Task /\ TaskShape(moved) /\ TaskAdmits(moved)
  BY <1>1 DEF TaskShape, TaskAdmits, Task, OwnerStages
<1>3. tasks' = [tasks EXCEPT ![s] = moved]
  BY DEF Admit, Goto, AccessTypeOK
<1> HIDE DEF moved
<1>4. PICK task \in Task : task = moved
  BY <1>2
<1>5. /\ Evolves /\ LockHasCause'
      /\ tasks' \in [Slots -> Task \cup {NoVal}] /\ TasksShaped'
  BY <1>1, <1>2, <1>3, <1>4, RequestMoves
<1>6. /\ sessions' \in [Tokens -> SessionRow \cup {NoVal}] /\ Kept
      /\ cookie' \in [Browsers -> Tokens \cup {NoVal}]
  BY <1>1, TouchKeeps
<1>7. AccessTypeOK'
  BY <1>1, <1>5, <1>6 DEF AccessTypeOK
<1>8. OwnersExist'
  BY <1>1, <1>5, OwnersStay
<1>9. SessionsOwned'
  BY <1>5, <1>6, SessionsStay DEF Kept
<1>10. QED
  BY <1>5, <1>7, <1>8, <1>9

\* The request ends, and with it sessions of its account, or one.
LEMMA SessionsEnd ==
    ASSUME LoginInv, NEW s \in Slots, Kept,
           tasks' = [tasks EXCEPT ![s] = NoVal],
           sessions' \in [Tokens -> SessionRow \cup {NoVal}],
           cookie' \in [Browsers -> Tokens \cup {NoVal}],
           UNCHANGED <<users, clock, oneTime, redis, identities, issued, begun>>
    PROVE  LoginInv'
<1> USE DEF LoginInv
<1>1. /\ Evolves /\ LockHasCause'
      /\ tasks' \in [Slots -> Task \cup {NoVal}] /\ TasksShaped'
  BY RequestMoves
<1>2. AccessTypeOK'
  BY <1>1 DEF AccessTypeOK
<1>3. OwnersExist'
  BY <1>1, OwnersStay
<1>4. SessionsOwned'
  BY <1>1, SessionsStay DEF Kept
<1>5. QED
  BY <1>1, <1>2, <1>3, <1>4

LEMMA ExpelStep ==
    ASSUME LoginInv, NEW s \in Slots, Expel(s), UNCHANGED socialVars
    PROVE  LoginInv'
<1>1. sessions' \in [Tokens -> SessionRow \cup {NoVal}] /\ Kept
  BY DeleteKeeps DEF Expel, DeleteByUser, LoginInv, AccessTypeOK, Kept
<1>2. QED
  BY <1>1, SessionsEnd DEF Expel, End, ClearSessionCookie, socialVars, LoginInv, AccessTypeOK

LEMMA LogoutStep ==
    ASSUME LoginInv, NEW s \in Slots, Logout(s), UNCHANGED socialVars
    PROVE  LoginInv'
<1>1. sessions' \in [Tokens -> SessionRow \cup {NoVal}] /\ Kept
  BY DEF Logout, DeleteSession, LoginInv, AccessTypeOK, Kept
<1>2. QED
  BY <1>1, SessionsEnd DEF Logout, End, ClearSessionCookie, socialVars, LoginInv, AccessTypeOK

-----------------------------------------------------------------------------
(* The surroundings.                                                       *)

LEMMA AbortStep ==
    ASSUME LoginInv, NEW s \in Slots, Abort(s), UNCHANGED socialVars
    PROVE  LoginInv'
BY OnlyRequests DEF Abort, End, socialVars, LoginInv, AccessTypeOK

LEMMA CleanupStep ==
    ASSUME LoginInv, Cleanup, UNCHANGED socialVars
    PROVE  LoginInv'
<1> USE DEF LoginInv
<1>1. /\ UNCHANGED <<users, clock, tasks, redis, identities, issued, begun, cookie>>
      /\ sessions' \in [Tokens -> SessionRow \cup {NoVal}]
      /\ \A t \in Tokens : sessions'[t] # NoVal => /\ sessions[t] # NoVal
                                                   /\ sessions'[t] = sessions[t]
      /\ oneTime' \in [Tokens -> TokenRow \cup {NoVal}]
      /\ \A t \in Tokens : oneTime'[t] # NoVal => /\ oneTime[t] # NoVal
                                                  /\ oneTime'[t] = oneTime[t]
  BY DEF Cleanup, Delete, AccessTypeOK, socialVars
<1>2. Evolves /\ LockHasCause'
  BY <1>1, UsersStay DEF AccessTypeOK
<1>3. TasksShaped'
  BY <1>1, <1>2, TasksStay
<1>4. AccessTypeOK'
  BY <1>1 DEF AccessTypeOK
<1>5. OwnersExist'
  BY <1>1 DEF OwnersExist, Exists
<1>6. SessionsOwned'
  BY <1>1, <1>2, SessionsStay
<1>7. QED
  BY <1>2, <1>3, <1>4, <1>5, <1>6

LEMMA BlockStep ==
    ASSUME LoginInv, NEW e \in Emails, Block(e), UNCHANGED socialVars
    PROVE  LoginInv'
<1> USE DEF LoginInv
<1> DEFINE row == [users[e] EXCEPT !.status = "blocked"]
<1>1. /\ Exists(e) /\ users[e] \in UserRow
      /\ UNCHANGED <<clock, sessions, oneTime, redis, identities, cookie, issued, begun, tasks>>
  BY DEF Block, AccessTypeOK, socialVars, Exists
<1>2. /\ row \in UserRow /\ users' = [users EXCEPT ![e] = row]
      /\ row.pwd = users[e].pwd /\ row.fails = users[e].fails /\ row.lock = users[e].lock
      /\ row.status = "blocked"
  BY <1>1 DEF Block, AccessTypeOK, UserRow
<1> HIDE DEF row
<1>3. Evolves /\ users' \in [Emails -> UserRow \cup {NoVal}]
  BY <1>1, <1>2, UpdateEvolves
<1>4. TasksShaped'
  BY <1>1, <1>3, TasksStay
<1>5. AccessTypeOK'
  BY <1>1, <1>3 DEF AccessTypeOK
<1>6. OwnersExist'
  BY <1>1, <1>3, OwnersStay
<1>7. \A a \in Emails : Exists(a)' => /\ Exists(a) /\ users'[a].pwd = users[a].pwd
                                      /\ users'[a].fails = users[a].fails
                                      /\ users'[a].lock = users[a].lock
  BY <1>1, <1>2 DEF Exists, AccessTypeOK
<1>8. SessionsOwned'
  BY <1>1, <1>3, SessionsStay
<1>9. LockHasCause'
  BY <1>1, <1>7 DEF LockHasCause, LockoutUntil
<1>10. QED
  BY <1>4, <1>5, <1>6, <1>8, <1>9

LEMMA TickStep ==
    ASSUME LoginInv, Tick, UNCHANGED socialVars
    PROVE  LoginInv'
<1> USE DEF LoginInv
<1>1. /\ UNCHANGED <<users, sessions, oneTime, cookie, tasks, issued, begun, redis, identities>>
      /\ clock' \in Nat /\ clock =< clock'
  BY DEF Tick, AccessTypeOK, socialVars
<1>2. Evolves /\ LockHasCause'
  BY <1>1, UsersStay
<1>3. TasksShaped'
  BY <1>1, <1>2, TasksStay
<1>4. AccessTypeOK'
  BY <1>1 DEF AccessTypeOK
<1>5. OwnersExist'
  BY <1>1, <1>2, OwnersStay
<1>6. SessionsOwned'
  BY <1>1, <1>2, SessionsStay
<1>7. QED
  BY <1>2, <1>3, <1>4, <1>5, <1>6

-----------------------------------------------------------------------------
(* Signing in through a provider.                                          *)

\* A state or a link token is stored.
LEMMA SaveKeeps ==
    ASSUME LoginInv, NEW kind \in {"state", "link"}, NEW e \in Emails \cup {NoVal},
           NEW x \in Externals \cup {NoVal}, SaveKey(kind, e, x), UNCHANGED users,
           kind = "link" => e \in Emails /\ Exists(e) /\ x \in Externals
    PROVE  /\ redis' \in [Tokens -> RedisKey \cup {NoVal}]
           /\ issued' \in 0 .. MaxTokens
           /\ \A t \in Tokens : redis'[t] # NoVal /\ redis'[t].kind = "link" =>
                  /\ redis'[t].user \in Emails /\ users'[redis'[t].user] # NoVal
                  /\ redis'[t].ext \in Externals
<1> USE DEF LoginInv
<1> DEFINE key == [kind |-> kind, user |-> e, ext |-> x, expires |-> clock + OneTimeTTL[kind]]
<1>1. key \in RedisKey /\ key.kind = kind /\ key.user = e /\ key.ext = x
  BY AccessAssumption DEF RedisKey, AccessTypeOK
<1>2. issued' = Fresh /\ Fresh \in Tokens /\ redis' = [redis EXCEPT ![Fresh] = key]
  BY DEF SaveKey
<1> HIDE DEF key
<1>3. issued' \in 0 .. MaxTokens
  BY <1>2, AccessAssumption DEF Tokens
<1>4. redis' \in [Tokens -> RedisKey \cup {NoVal}]
  BY <1>1, <1>2 DEF AccessTypeOK
<1>5. ASSUME NEW t \in Tokens, redis'[t] # NoVal, redis'[t].kind = "link"
      PROVE  /\ redis'[t].user \in Emails /\ users'[redis'[t].user] # NoVal
             /\ redis'[t].ext \in Externals
  <2>1. CASE t = Fresh
    BY <1>1, <1>2, <1>5, <2>1 DEF AccessTypeOK, Exists
  <2>2. CASE t # Fresh
    BY <1>2, <1>5, <2>2 DEF AccessTypeOK, Exists, OwnersExist
  <2>3. QED
    BY <2>1, <2>2
<1>6. QED
  BY <1>3, <1>4, <1>5 DEF Exists

LEMMA BeginOAuthStep ==
    ASSUME LoginInv, BeginOAuth
    PROVE  LoginInv'
<1> USE DEF LoginInv
<1>1. /\ UNCHANGED <<users, sessions, oneTime, cookie, tasks, begun, clock, identities>>
      /\ SaveKey("state", NoVal, NoVal)
  BY DEF BeginOAuth
<1>2. Evolves /\ LockHasCause'
  BY <1>1, UsersStay DEF AccessTypeOK
<1>3. TasksShaped'
  BY <1>1, <1>2, TasksStay
<1>4. /\ redis' \in [Tokens -> RedisKey \cup {NoVal}]
      /\ issued' \in 0 .. MaxTokens
      /\ \A t \in Tokens : redis'[t] # NoVal /\ redis'[t].kind = "link" =>
             /\ redis'[t].user \in Emails /\ users'[redis'[t].user] # NoVal
             /\ redis'[t].ext \in Externals
  BY <1>1, SaveKeeps
<1>5. AccessTypeOK'
  BY <1>1, <1>4 DEF AccessTypeOK
<1>6. OwnersExist'
  BY <1>1, <1>4 DEF OwnersExist, Exists
<1>7. SessionsOwned'
  BY <1>1, <1>2, SessionsStay
<1>8. QED
  BY <1>2, <1>3, <1>5, <1>6, <1>7

\* A callback or a link begins: its key is gone from Redis.
LEMMA ConsumeStep ==
    ASSUME LoginInv, NEW s \in Slots, NEW t \in Tokens, NEW task \in Task \cup {NoVal},
           Consume(t), tasks' = [tasks EXCEPT ![s] = task], begun' \in 0 .. MaxRequests,
           UNCHANGED <<users, sessions, oneTime, cookie, issued, clock, identities>>,
           task # NoVal => TaskShape(task) /\ TaskAdmits(task)
    PROVE  LoginInv'
<1> USE DEF LoginInv
<1>1. /\ Evolves /\ LockHasCause'
      /\ tasks' \in [Slots -> Task \cup {NoVal}] /\ TasksShaped'
  BY RequestMoves
<1>2. /\ redis' \in [Tokens -> RedisKey \cup {NoVal}]
      /\ \A n \in Tokens : redis'[n] # NoVal => redis[n] # NoVal /\ redis'[n] = redis[n]
  BY DEF Consume, AccessTypeOK
<1>3. AccessTypeOK'
  BY <1>1, <1>2 DEF AccessTypeOK
<1>4. OwnersExist'
  BY <1>2 DEF OwnersExist, Exists
<1>5. SessionsOwned'
  BY <1>1, SessionsStay
<1>6. QED
  BY <1>1, <1>3, <1>4, <1>5

LEMMA CompleteOAuthStep ==
    ASSUME LoginInv, NEW s \in Slots, NEW b \in Browsers, NEW t \in Tokens,
           NEW x \in Externals, NEW reported \in RealEmails \cup {NoVal},
           CompleteOAuth(s, b, t, x, reported)
    PROVE  LoginInv'
<1> USE DEF LoginInv
<1> DEFINE new == [NewTask("oauth", "lookup") EXCEPT
                      !.browser = b, !.ext = x, !.email = reported, !.barred = Barred]
<1>1. Barred \in SUBSET Emails /\ \A a \in Barred : Exists(a) /\ users[a].status = "blocked"
  BY DEF Barred
<1>2. new \in Task /\ TaskShape(new) /\ TaskAdmits(new)
  <2>1. new.stage = "lookup" /\ new.ext = x /\ new.barred = Barred
    BY DEF NewTask
  <2>2. new \in Task
    BY <1>1, AccessAssumption DEF NewTask, Task
  <2> HIDE DEF new
  <2>3. QED
    BY <1>1, <2>1, <2>2 DEF TaskShape, TaskAdmits, OwnerStages
<1>3. tasks' = [tasks EXCEPT ![s] = new]
  BY DEF CompleteOAuth, Begin
<1> HIDE DEF new
<1>4. PICK task \in Task : task = new
  BY <1>2
<1>5. begun' \in 0 .. MaxRequests
  BY AccessAssumption DEF CompleteOAuth, Begin, AccessTypeOK
<1>6. UNCHANGED <<users, sessions, oneTime, cookie, issued, clock, identities>> /\ Consume(t)
  BY DEF CompleteOAuth
<1>7. QED
  BY <1>2, <1>3, <1>4, <1>5, <1>6, ConsumeStep

LEMMA ConfirmOAuthLinkStep ==
    ASSUME LoginInv, NEW s \in Slots, NEW b \in Browsers, NEW t \in Tokens,
           NEW p \in Passwords, ConfirmOAuthLink(s, b, t, p)
    PROVE  LoginInv'
<1> USE DEF LoginInv
<1> DEFINE e == redis[t].user
           u == users[e]
           opens == NotBlocked(u) /\ u.lock =< clock /\ u.pwd # NoVal
           new == [NewTask("link", "verify") EXCEPT
                      !.browser = b, !.email = e, !.ext = redis[t].ext, !.row = u, !.pwd = p,
                      !.at = clock, !.barred = Barred]
<1>1. /\ UNCHANGED <<users, sessions, oneTime, cookie, issued, clock, identities>>
      /\ Consume(t) /\ tasks[s] = NoVal
  BY DEF ConfirmOAuthLink
<1>2. /\ e \in Emails /\ Exists(e) /\ redis[t].ext \in Externals /\ u \in UserRow
      /\ clock \in Nat
  BY DEF ConfirmOAuthLink, Held, OwnersExist, AccessTypeOK, Exists
<1>3. CASE opens
  <2>1. Barred \in SUBSET Emails /\ \A a \in Barred : Exists(a) /\ users[a].status = "blocked"
    BY DEF Barred
  <2>2. e \notin Barred
    BY <1>3 DEF Barred, NotBlocked
  <2>3. /\ new.op = "link" /\ new.stage = "verify" /\ new.email = e /\ new.ext = redis[t].ext
        /\ new.row = u /\ new.at = clock /\ new.barred = Barred
    BY DEF NewTask
  <2>4. new \in Task
    BY <1>2, <2>1, AccessAssumption DEF NewTask, Task
  <2>5. tasks' = [tasks EXCEPT ![s] = new]
    BY <1>3 DEF ConfirmOAuthLink, Begin
  <2>6. begun' \in 0 .. MaxRequests
    BY <1>3, AccessAssumption DEF ConfirmOAuthLink, Begin, AccessTypeOK
  <2> HIDE DEF new, e, u
  <2>7. TaskShape(new)
    BY <1>2, <2>3 DEF TaskShape, OwnerStages
  <2>8. TaskAdmits(new)
    BY <2>1, <2>2, <2>3 DEF TaskAdmits
  <2>9. PICK task \in Task : task = new
    BY <2>4
  <2>10. QED
    BY <1>1, <2>5, <2>6, <2>7, <2>8, <2>9, ConsumeStep
<1>4. CASE ~opens
  <2>1. UNCHANGED <<tasks, begun>>
    BY <1>4 DEF ConfirmOAuthLink
  <2>2. tasks' = [tasks EXCEPT ![s] = NoVal] /\ begun' \in 0 .. MaxRequests
    BY <1>1, <2>1 DEF AccessTypeOK
  <2>3. QED
    BY <1>1, <2>2, ConsumeStep
<1>5. QED
  BY <1>3, <1>4

LEMMA LookupIdentityStep ==
    ASSUME LoginInv, NEW s \in Slots, LookupIdentity(s)
    PROVE  LoginInv'
<1> USE DEF LoginInv
<1> DEFINE e == identities[tasks[s].ext]
           unknown == [tasks[s] EXCEPT !.stage = "email"]
           bound == [tasks[s] EXCEPT !.stage = "open", !.email = e]
<1>1. /\ tasks[s] # NoVal /\ tasks[s].stage = "lookup" /\ tasks[s] \in Task
      /\ TaskShape(tasks[s]) /\ TaskAdmits(tasks[s]) /\ tasks[s].ext \in Externals
      /\ UNCHANGED <<users, sessions, oneTime, cookie, issued, begun, clock, redis, identities>>
  BY DEF LookupIdentity, At, AccessTypeOK, TasksShaped, TaskShape
<1>2. e \in Emails \cup {NoVal} /\ (e # NoVal => Exists(e))
  BY <1>1 DEF AccessTypeOK, OwnersExist
<1>3. unknown \in Task /\ TaskShape(unknown) /\ TaskAdmits(unknown)
  BY <1>1 DEF Task, TaskShape, TaskAdmits, OwnerStages
<1>4. bound \in Task
  BY <1>1, <1>2 DEF Task
<1>5. e # NoVal => TaskShape(bound)
  BY <1>1, <1>2 DEF TaskShape, OwnerStages, Task
<1>6. e # NoVal /\ NotBlocked(users[e]) => TaskAdmits(bound)
  <2>1. bound.stage = "open" /\ bound.email = e /\ bound.barred = tasks[s].barred
    BY <1>1 DEF Task
  <2> HIDE DEF bound
  <2>2. QED
    BY <1>1, <2>1 DEF TaskAdmits, NotBlocked
<1>7. \/ tasks' = [tasks EXCEPT ![s] = unknown]
      \/ tasks' = [tasks EXCEPT ![s] = NoVal]
      \/ e # NoVal /\ NotBlocked(users[e]) /\ tasks' = [tasks EXCEPT ![s] = bound]
  BY DEF LookupIdentity, Goto, End, AccessTypeOK
<1> HIDE DEF unknown, bound
<1>8. PICK task \in Task \cup {NoVal} :
          /\ tasks' = [tasks EXCEPT ![s] = task]
          /\ task # NoVal => TaskShape(task) /\ TaskAdmits(task)
  BY <1>3, <1>4, <1>5, <1>6, <1>7
<1>9. begun' \in 0 .. MaxRequests
  BY <1>1 DEF AccessTypeOK
<1>10. QED
  BY <1>1, <1>8, <1>9, OnlyRequests

LEMMA LookupEmailStep ==
    ASSUME LoginInv, NEW s \in Slots, LookupEmail(s)
    PROVE  LoginInv'
<1> USE DEF LoginInv
<1> DEFINE e == tasks[s].email
           x == tasks[s].ext
           known == e # NoVal /\ Exists(e)
           unknown == [tasks[s] EXCEPT !.stage = "create", !.email = oauthEmailFor(x, e)]
           attached == [tasks[s] EXCEPT !.stage = "attach"]
<1>1. /\ tasks[s] # NoVal /\ tasks[s].stage = "email" /\ tasks[s] \in Task
      /\ TaskShape(tasks[s]) /\ TaskAdmits(tasks[s])
      /\ e \in Emails \cup {NoVal} /\ x \in Externals
      /\ UNCHANGED <<users, sessions, oneTime, cookie, begun, clock, identities>>
  BY DEF LookupEmail, At, AccessTypeOK, TasksShaped, TaskShape, Task
<1>2. oauthEmailFor(x, e) \in Emails
  BY <1>1, SocialAssumption DEF oauthEmailFor
<1>3. unknown \in Task /\ TaskShape(unknown) /\ TaskAdmits(unknown)
  <2>1. unknown \in Task
    BY <1>1, <1>2 DEF Task
  <2>2. /\ unknown.stage = "create" /\ unknown.email = oauthEmailFor(x, e)
        /\ unknown.ext = x /\ unknown.barred = tasks[s].barred
    BY <1>1 DEF Task
  <2> HIDE DEF unknown
  <2>3. QED
    BY <1>1, <1>2, <2>1, <2>2 DEF TaskShape, TaskAdmits, OwnerStages
<1>4. attached \in Task
  BY <1>1 DEF Task
<1>5. known /\ NotBlocked(users[e]) => TaskShape(attached) /\ TaskAdmits(attached)
  <2>1. /\ attached.stage = "attach" /\ attached.email = e
        /\ attached.ext = x /\ attached.barred = tasks[s].barred
    BY <1>1 DEF Task
  <2> HIDE DEF attached
  <2>2. QED
    BY <1>1, <2>1 DEF TaskShape, TaskAdmits, OwnerStages, NotBlocked
<1>6. PICK task \in Task \cup {NoVal} :
          /\ tasks' = [tasks EXCEPT ![s] = task]
          /\ task # NoVal => TaskShape(task) /\ TaskAdmits(task)
  <2>1. \/ tasks' = [tasks EXCEPT ![s] = unknown]
        \/ tasks' = [tasks EXCEPT ![s] = NoVal]
        \/ known /\ NotBlocked(users[e]) /\ tasks' = [tasks EXCEPT ![s] = attached]
    BY DEF LookupEmail, Goto, End, AccessTypeOK
  <2> HIDE DEF unknown, attached, known
  <2>2. QED
    BY <1>3, <1>4, <1>5, <2>1
<1>7. CASE UNCHANGED <<issued, redis>>
  <2>1. begun' \in 0 .. MaxRequests
    BY <1>1 DEF AccessTypeOK
  <2>2. QED
    BY <1>1, <1>6, <1>7, <2>1, OnlyRequests
<1>8. CASE known /\ SaveKey("link", e, x)
  <2>1. /\ Evolves /\ LockHasCause'
        /\ tasks' \in [Slots -> Task \cup {NoVal}] /\ TasksShaped'
    BY <1>1, <1>6, RequestMoves
  <2>2. /\ redis' \in [Tokens -> RedisKey \cup {NoVal}]
        /\ issued' \in 0 .. MaxTokens
        /\ \A t \in Tokens : redis'[t] # NoVal /\ redis'[t].kind = "link" =>
               /\ redis'[t].user \in Emails /\ users'[redis'[t].user] # NoVal
               /\ redis'[t].ext \in Externals
    BY <1>1, <1>8, SaveKeeps
  <2>3. AccessTypeOK'
    BY <1>1, <2>1, <2>2 DEF AccessTypeOK
  <2>4. OwnersExist'
    BY <1>1, <2>2 DEF OwnersExist, Exists
  <2>5. SessionsOwned'
    BY <1>1, <2>1, SessionsStay
  <2>6. QED
    BY <2>1, <2>3, <2>4, <2>5
<1>9. QED
  BY <1>7, <1>8 DEF LookupEmail

LEMMA CreateAccountStep ==
    ASSUME LoginInv, NEW s \in Slots, CreateAccount(s)
    PROVE  LoginInv'
<1> USE DEF LoginInv
<1> DEFINE e == tasks[s].email
           row == [status |-> "active", pwd |-> NoVal, fails |-> 0, lock |-> 0]
           next == [tasks[s] EXCEPT !.stage = "attach"]
<1>1. /\ tasks[s] # NoVal /\ tasks[s].stage = "create" /\ tasks[s] \in Task
      /\ TaskShape(tasks[s]) /\ TaskAdmits(tasks[s]) /\ e \in Emails
      /\ UNCHANGED <<sessions, oneTime, cookie, issued, begun, clock, redis, identities>>
  BY DEF CreateAccount, At, AccessTypeOK, TasksShaped, TaskShape
<1>2. CASE Exists(e)
  <2>1. /\ tasks' = [tasks EXCEPT ![s] = NoVal] /\ UNCHANGED users
        /\ begun' \in 0 .. MaxRequests
    BY <1>1, <1>2 DEF CreateAccount, End, AccessTypeOK
  <2>2. QED
    BY <1>1, <2>1, OnlyRequests
<1>3. CASE ~Exists(e)
  <2>1. users[e] = NoVal /\ users' = [users EXCEPT ![e] = row] /\ row \in UserRow
    BY <1>3 DEF CreateAccount, CreateUser, UserRow
  <2>2. Evolves /\ users' \in [Emails -> UserRow \cup {NoVal}]
    BY <1>1, <1>3, <2>1, UpdateEvolves
  <2>3. next \in Task /\ tasks' = [tasks EXCEPT ![s] = next]
    BY <1>1, <1>3 DEF CreateAccount, Goto, AccessTypeOK, Task
  <2>4. /\ next.stage = "attach" /\ next.email = e /\ next.ext \in Externals
        /\ next.barred = tasks[s].barred
    BY <1>1 DEF Task, TaskShape
  <2>5. e \notin next.barred
    BY <1>1, <1>3, <2>4 DEF TaskAdmits
  <2> HIDE DEF next
  <2>6. PICK task \in Task : task = next
    BY <2>3
  <2>7. TaskShape(task)'
    BY <1>1, <2>1, <2>4, <2>6, NoValIsNoRow DEF TaskShape, OwnerStages, Exists, AccessTypeOK
  <2>8. TaskAdmits(task)'
    <3>1. /\ task.stage = "attach" /\ task.email \notin task.barred
          /\ task.barred \in SUBSET Emails
          /\ \A a \in task.barred : Exists(a) /\ users[a].status = "blocked"
      BY <1>1, <2>4, <2>5, <2>6 DEF TaskAdmits, Task
    <3>2. QED
      BY <2>2, <3>1 DEF TaskAdmits, Evolves
  <2>9. /\ tasks' \in [Slots -> Task \cup {NoVal}] /\ TasksShaped'
    BY <2>2, <2>3, <2>6, <2>7, <2>8, TaskMoves
  <2>10. AccessTypeOK'
    BY <1>1, <2>2, <2>9 DEF AccessTypeOK
  <2>11. OwnersExist'
    BY <1>1, <2>2, OwnersStay
  <2>12. SessionsOwned'
    BY <1>1, <2>2, SessionsStay
  <2>13. LockHasCause'
    BY <1>1, <2>1, SMTT(30) DEF LockHasCause, Exists, AccessTypeOK, LockoutUntil
  <2>14. QED
    BY <2>9, <2>10, <2>11, <2>12, <2>13
<1>4. QED
  BY <1>2, <1>3

LEMMA AttachIdentityStep ==
    ASSUME LoginInv, NEW s \in Slots, AttachIdentity(s)
    PROVE  LoginInv'
<1> USE DEF LoginInv
<1> DEFINE x == tasks[s].ext
           next == [tasks[s] EXCEPT !.stage = "open"]
<1>1. /\ tasks[s] # NoVal /\ tasks[s].stage = "attach" /\ tasks[s] \in Task
      /\ TaskShape(tasks[s]) /\ TaskAdmits(tasks[s]) /\ x \in Externals
      /\ tasks[s].email \in Emails /\ Exists(tasks[s].email)
      /\ UNCHANGED <<users, sessions, oneTime, cookie, issued, begun, clock, redis>>
  BY DEF AttachIdentity, At, AccessTypeOK, TasksShaped, TaskShape, OwnerStages
<1>2. next \in Task /\ TaskShape(next) /\ TaskAdmits(next)
  BY <1>1 DEF Task, TaskShape, TaskAdmits, OwnerStages
<1>3. PICK task \in Task \cup {NoVal} :
          /\ tasks' = [tasks EXCEPT ![s] = task]
          /\ task # NoVal => TaskShape(task) /\ TaskAdmits(task)
  <2>1. tasks' \in {[tasks EXCEPT ![s] = next], [tasks EXCEPT ![s] = NoVal]}
    BY DEF AttachIdentity, Goto, End, AccessTypeOK
  <2> HIDE DEF next
  <2>2. QED
    BY <1>2, <2>1
<1>4. /\ Evolves /\ LockHasCause'
      /\ tasks' \in [Slots -> Task \cup {NoVal}] /\ TasksShaped'
  BY <1>1, <1>3, RequestMoves
<1>5. /\ identities' \in [Externals -> Emails \cup {NoVal}]
      /\ \A y \in Externals : identities'[y] \in {identities[y], tasks[s].email}
  BY <1>1 DEF AttachIdentity, AccessTypeOK
<1>6. AccessTypeOK'
  BY <1>1, <1>4, <1>5 DEF AccessTypeOK
<1>7. OwnersExist'
  BY <1>1, <1>5 DEF OwnersExist, Exists
<1>8. SessionsOwned'
  BY <1>1, <1>4, SessionsStay
<1>9. QED
  BY <1>4, <1>6, <1>7, <1>8

-----------------------------------------------------------------------------
(* The first part of the invariant.                                        *)

LEMMA LoginInvInit == Init => LoginInv
<1> SUFFICES ASSUME Init PROVE LoginInv
  OBVIOUS
<1> USE DEF Init, AccessInit
<1>1. AccessTypeOK
  BY AccessAssumption DEF AccessTypeOK
<1>2. TasksShaped /\ OwnersExist /\ SessionsOwned
  BY DEF TasksShaped, OwnersExist, SessionsOwned
<1>3. LockHasCause
  BY FirstUsersAssumption DEF LockHasCause, Exists
<1>4. QED
  BY <1>1, <1>2, <1>3 DEF LoginInv

LEMMA LoginInvNext == LoginInv /\ [Next]_vars => LoginInv'
<1> SUFFICES ASSUME LoginInv, [Next]_vars PROVE LoginInv'
  OBVIOUS
<1>1. CASE UNCHANGED vars
  <2> USE <1>1 DEF vars
  <2>1. /\ AccessTypeOK' /\ OwnersExist' /\ SessionsOwned'
    BY DEF LoginInv, AccessTypeOK, OwnersExist, SessionsOwned, Exists
  <2>2. LockHasCause' /\ Evolves
    BY UsersStay DEF LoginInv, AccessTypeOK
  <2>3. TasksShaped'
    BY <2>2, TasksStay DEF LoginInv
  <2>4. QED
    BY <2>1, <2>2, <2>3 DEF LoginInv
<1>2. CASE AccountStep /\ UNCHANGED socialVars
  BY <1>2, AccessAssumption, RegisterStep, SendVerificationStep, InvalidatePendingStep,
     IssueResetStep, LetterStep, VerifyEmailStep, ConsumeTokenStep, ChangePasswordStep,
     SweepSessionsStep, CommitResetStep
     DEF AccountStep
<1>3. CASE SessionStep /\ UNCHANGED socialVars
  BY <1>3, AccessAssumption, LoginLoadStep, PasswordWrongStep, PasswordRightStep,
     OpenSessionStep, AuthRejectStep, AuthLoadStep, AdmitStep, ExpelStep, LogoutStep
     DEF SessionStep
<1>4. CASE Surroundings /\ UNCHANGED socialVars
  BY <1>4, AbortStep, BlockStep, CleanupStep, TickStep DEF Surroundings
<1>5. CASE OAuthStep
  BY <1>5, BeginOAuthStep, CompleteOAuthStep, LookupIdentityStep, LookupEmailStep,
     CreateAccountStep, AttachIdentityStep, ConfirmOAuthLinkStep
     DEF OAuthStep, FetchUser
<1>6. QED
  BY <1>1, <1>2, <1>3, <1>4, <1>5 DEF Next

THEOREM LoginInvariant == Spec => []LoginInv
BY LoginInvInit, LoginInvNext, PTL DEF Spec

\* The types of the tables, of Redis and of every request in a slot.
THEOREM LoginTypes == Spec => []AccessTypeOK
BY LoginInvariant, PTL DEF LoginInv

\* No lockout outlasts what the failures in the row earn, although a login
\* writes back a counter it read before a slow hash (service.go Login).
THEOREM NoLockWithoutCause == Spec => []LockHasCause
BY LoginInvariant, PTL DEF LoginInv

-----------------------------------------------------------------------------
(* What a request knows when it opens a session.                           *)

\* The password it verified is the account's, unless a reset has committed
\* since, and the external account it came from is bound to its account.
Knows(t) ==
    /\ t.stage \in {"lookup", "email", "create"} => t.op = "oauth"
    /\ t.stage \in {"open", "attach"} => t.op \in {"login", "link", "oauth"}
    /\ t.stage \in {"password", "sweep", "commit"} => t.op = "reset"
    /\ t.op = "oauth" => t.pwd = NoVal
    /\ t.op = "login" => t.ext = NoVal
    /\ t.stage = "verify" /\ ~t.raced => t.row.pwd = users[t.email].pwd
    /\ t.stage \in {"open", "attach"} /\ ~t.raced => t.pwd \in {NoVal, users[t.email].pwd}
    /\ t.stage = "open" /\ t.ext # NoVal => identities[t.ext] = t.email

\* A reset about to commit has deleted every session of its account but those
\* stored since its DELETE.
Sweeps(t) ==
    t.stage = "commit" =>
        \A n \in Tokens : sessions[n] # NoVal /\ sessions[n].user = t.email
                              /\ ~sessions[n].raced => n \in t.gone

EntryInv ==
    /\ \A s \in Slots : tasks[s] # NoVal => Knows(tasks[s]) /\ Sweeps(tasks[s])
    /\ SessionsFollowPassword
    /\ OneAccountBehind

\* Passwords and bindings stay, and no session appears.
Steady ==
    /\ \A e \in Emails : Exists(e) => Exists(e)' /\ users'[e].pwd = users[e].pwd
    /\ \A x \in Externals : identities[x] # NoVal => identities'[x] = identities[x]
    /\ Kept

LEMMA SteadyTask ==
    ASSUME LoginInv, EntryInv, Steady, NEW s \in Slots, NEW task \in Task,
           tasks[s] = task
    PROVE  Knows(task)' /\ Sweeps(task)'
<1>1. /\ TaskShape(task) /\ Knows(task) /\ Sweeps(task) /\ task # NoVal
  BY NoValIsNoRow DEF LoginInv, TasksShaped, EntryInv
<1>2. /\ task.stage \in {"verify", "open", "attach"} =>
             task.email \in Emails /\ users'[task.email].pwd = users[task.email].pwd
      /\ task.ext \in Externals \cup {NoVal}
  BY <1>1 DEF TaskShape, OwnerStages, Steady, Task
<1>3. ASSUME task.stage = "open", task.ext # NoVal
      PROVE  identities'[task.ext] = task.email
  <2>1. identities[task.ext] = task.email /\ task.email \in Emails
    BY <1>1, <1>3 DEF Knows, TaskShape, OwnerStages
  <2>2. task.email # NoVal
    BY <2>1, AccessAssumption
  <2>3. QED
    BY <1>2, <1>3, <2>1, <2>2 DEF Steady
<1>4. Knows(task)'
  BY <1>1, <1>2, <1>3 DEF Knows
<1>5. Sweeps(task)'
  BY <1>1 DEF Sweeps, Steady, Kept
<1>6. QED
  BY <1>4, <1>5

LEMMA SteadySessions ==
    ASSUME LoginInv, EntryInv, Steady
    PROVE  SessionsFollowPassword' /\ OneAccountBehind'
<1>1. \A t \in Tokens : sessions[t] # NoVal =>
          /\ sessions[t].user \in Emails
          /\ sessions[t].via \in Externals \cup {NoVal}
  BY DEF LoginInv, AccessTypeOK, SessionRow
<1>2. SessionsFollowPassword'
  BY <1>1 DEF SessionsFollowPassword, EntryInv, Steady, Kept
<1>3. OneAccountBehind'
  <2> SUFFICES ASSUME NEW t \in Tokens, sessions'[t] # NoVal, sessions'[t].via # NoVal
               PROVE  identities'[sessions'[t].via] = sessions'[t].user
    BY DEF OneAccountBehind
  <2>1. /\ sessions[t] # NoVal /\ sessions[t].via # NoVal
        /\ sessions'[t].via = sessions[t].via /\ sessions'[t].user = sessions[t].user
    BY DEF Steady, Kept
  <2>2. identities[sessions[t].via] = sessions[t].user
    BY <2>1 DEF EntryInv, OneAccountBehind
  <2>3. sessions[t].user # NoVal /\ sessions[t].via \in Externals
    BY <1>1, <2>1, AccessAssumption
  <2>4. QED
    BY <2>1, <2>2, <2>3 DEF Steady
<1>4. QED
  BY <1>2, <1>3

\* A step that gives one slot another request, or none.
LEMMA EntryMoves ==
    ASSUME LoginInv, EntryInv, Steady, NEW s \in Slots, NEW task \in Task \cup {NoVal},
           tasks' = [tasks EXCEPT ![s] = task],
           task # NoVal => Knows(task)' /\ Sweeps(task)'
    PROVE  EntryInv'
<1>1. ASSUME NEW r \in Slots, tasks'[r] # NoVal
      PROVE  Knows(tasks[r])' /\ Sweeps(tasks[r])'
  <2>1. CASE r = s
    <3>1. tasks'[r] = task
      BY <2>1 DEF LoginInv, AccessTypeOK
    <3>2. QED
      BY <1>1, <3>1 DEF Knows, Sweeps
  <2>2. CASE r # s
    <3>1. tasks'[r] = tasks[r] /\ tasks[r] \in Task
      BY <1>1, <2>2 DEF LoginInv, AccessTypeOK
    <3>2. PICK old \in Task : old = tasks[r] /\ old = tasks'[r]
      BY <3>1
    <3>3. Knows(old)' /\ Sweeps(old)'
      BY <3>2, SteadyTask
    <3>4. QED
      BY <3>2, <3>3 DEF Knows, Sweeps
  <2>3. QED
    BY <2>1, <2>2
<1>2. QED
  BY <1>1, SteadySessions DEF EntryInv

LEMMA EntryStays ==
    ASSUME LoginInv, EntryInv, Steady, UNCHANGED tasks
    PROVE  EntryInv'
<1>1. ASSUME NEW r \in Slots, tasks'[r] # NoVal
      PROVE  Knows(tasks[r])' /\ Sweeps(tasks[r])'
  <2>1. PICK old \in Task : old = tasks[r] /\ old = tasks'[r]
    BY <1>1 DEF LoginInv, AccessTypeOK
  <2>2. Knows(old)' /\ Sweeps(old)'
    BY <2>1, SteadyTask
  <2>3. QED
    BY <2>1, <2>2 DEF Knows, Sweeps
<1>2. QED
  BY <1>1, SteadySessions DEF EntryInv

\* No other step changes a password, binds an account twice or stores a
\* session.
LEMMA SteadyStep ==
    ASSUME LoginInv, [Next]_vars,
           ~((\E s \in Slots : CommitReset(s) \/ OpenSession(s)) /\ UNCHANGED socialVars)
    PROVE  Steady
<1> USE DEF LoginInv
<1>1. CASE AccountStep /\ UNCHANGED socialVars
  <2> USE <1>1 DEF socialVars
  <2>1. UNCHANGED <<sessions, identities>>
    BY DEF AccountStep, Register, SendVerification, InvalidatePending, IssueReset,
       ResendVerification, ForgotPassword, VerifyEmail, ConsumeToken, ChangePassword,
       SweepSessions
  <2>2. ASSUME NEW e \in Emails, Exists(e)
        PROVE  Exists(e)' /\ users'[e].pwd = users[e].pwd
    <3>1. users[e] \in UserRow
      BY <2>2 DEF Exists, AccessTypeOK
    <3>2. CASE UNCHANGED users
      BY <2>2, <3>2 DEF Exists
    <3>3. CASE \E s \in Slots, a \in RealEmails, p \in Passwords : Register(s, a, p)
      BY <2>2, <3>3 DEF Register, CreateUser, Exists, AccessTypeOK
    <3>4. CASE \E t \in Tokens : VerifyEmail(t)
      BY <2>2, <3>1, <3>4, NoValIsNoRow DEF VerifyEmail, Exists, AccessTypeOK, UserRow
    <3>5. QED
      BY <3>2, <3>3, <3>4
         DEF AccountStep, SendVerification, InvalidatePending, IssueReset,
             ResendVerification, ForgotPassword, ConsumeToken, ChangePassword, SweepSessions
  <2>3. QED
    BY <2>1, <2>2 DEF Steady, Kept
<1>2. CASE SessionStep /\ UNCHANGED socialVars
  <2> USE <1>2 DEF socialVars
  <2>1. Kept
    <3>1. CASE UNCHANGED sessions
      BY <3>1 DEF Kept
    <3>2. CASE \E s \in Slots : Admit(s)
      BY <3>2, TouchKeeps DEF Admit, At, TasksShaped, TaskShape
    <3>3. CASE \E s \in Slots : Expel(s)
      BY <3>3, DeleteKeeps DEF Expel, DeleteByUser, Kept
    <3>4. CASE \E s \in Slots : Logout(s)
      BY <3>4 DEF Logout, DeleteSession, AccessTypeOK, Kept
    <3>5. QED
      BY <3>1, <3>2, <3>3, <3>4
         DEF SessionStep, LoginLoad, PasswordWrong, PasswordRight, AuthReject, AuthLoad
  <2>2. ASSUME NEW e \in Emails, Exists(e)
        PROVE  Exists(e)' /\ users'[e].pwd = users[e].pwd
    <3>1. users[e] \in UserRow
      BY <2>2 DEF Exists, AccessTypeOK
    <3>2. CASE UNCHANGED users
      BY <2>2, <3>2 DEF Exists
    <3>3. CASE \E s \in Slots : PasswordWrong(s)
      <4>1. PICK s \in Slots : PasswordWrong(s)
        BY <3>3
      <4>2. tasks[s].row \in UserRow /\ tasks[s].at \in Nat
        BY <4>1 DEF PasswordWrong, At, TasksShaped, TaskShape, AccessTypeOK, Task
      <4>3. PICK f \in Nat, seen \in Nat : f = tasks[s].row.fails + 1 /\ seen = tasks[s].at
        BY <4>2 DEF UserRow
      <4>4. LockoutUntil(f, seen) \in Nat
        BY ONLY LockoutGrows
      <4>5. PICK until \in Nat : until = LockoutUntil(f, seen)
        BY <4>4
      <4>6. users' = [users EXCEPT ![tasks[s].email].fails = f, ![tasks[s].email].lock = until]
        BY <4>1, <4>3, <4>5 DEF PasswordWrong, RegisterFailedLogin
      <4>7. \/ users'[e] = users[e]
            \/ users'[e] = [users[e] EXCEPT !.fails = f, !.lock = until]
        BY <4>6 DEF AccessTypeOK
      <4>8. [users[e] EXCEPT !.fails = f, !.lock = until] \in UserRow
        BY <3>1 DEF UserRow
      <4>9. QED
        BY <2>2, <3>1, <4>7, <4>8, NoValIsNoRow DEF Exists, UserRow
    <3>4. CASE \E s \in Slots : PasswordRight(s)
      BY <2>2, <3>1, <3>4, NoValIsNoRow
         DEF PasswordRight, ResetFailedLogin, Exists, AccessTypeOK, UserRow
    <3>5. QED
      BY <3>2, <3>3, <3>4
         DEF SessionStep, LoginLoad, AuthReject, AuthLoad, Admit, Expel, Logout
  <2>3. QED
    BY <2>1, <2>2 DEF Steady
<1>3. CASE Surroundings /\ UNCHANGED socialVars
  <2> USE <1>3 DEF socialVars
  <2>1. Kept
    BY DEF Surroundings, Abort, Block, Cleanup, Tick, Delete, Kept
  <2>2. ASSUME NEW e \in Emails, Exists(e)
        PROVE  Exists(e)' /\ users'[e].pwd = users[e].pwd
    <3>1. users[e] \in UserRow
      BY <2>2 DEF Exists, AccessTypeOK
    <3>2. QED
      BY <2>2, <3>1, NoValIsNoRow
         DEF Surroundings, Abort, Block, Cleanup, Tick, Exists, AccessTypeOK, UserRow
  <2>3. QED
    BY <2>1, <2>2 DEF Steady
<1>4. CASE OAuthStep
  <2> USE <1>4
  <2>1. UNCHANGED sessions
    BY DEF OAuthStep, BeginOAuth, CompleteOAuth, LookupIdentity, LookupEmail, CreateAccount,
       AttachIdentity, ConfirmOAuthLink
  <2>2. ASSUME NEW e \in Emails, Exists(e)
        PROVE  Exists(e)' /\ users'[e].pwd = users[e].pwd
    <3>1. CASE UNCHANGED users
      BY <2>2, <3>1 DEF Exists
    <3>2. CASE \E s \in Slots : CreateAccount(s)
      BY <2>2, <3>2 DEF CreateAccount, CreateUser, Exists, AccessTypeOK
    <3>3. QED
      BY <3>1, <3>2 DEF OAuthStep, BeginOAuth, CompleteOAuth, LookupIdentity, LookupEmail,
         AttachIdentity, ConfirmOAuthLink
  <2>3. ASSUME NEW x \in Externals, identities[x] # NoVal
        PROVE  identities'[x] = identities[x]
    <3>1. CASE UNCHANGED identities
      BY <3>1
    <3>2. CASE \E s \in Slots : AttachIdentity(s)
      BY <2>3, <3>2 DEF AttachIdentity, IdentityFree, AccessTypeOK
    <3>3. QED
      BY <3>1, <3>2 DEF OAuthStep, BeginOAuth, CompleteOAuth, LookupIdentity, LookupEmail,
         CreateAccount, ConfirmOAuthLink
  <2>4. QED
    BY <2>1, <2>2, <2>3 DEF Steady, Kept
<1>5. CASE UNCHANGED vars
  BY <1>5 DEF vars, Steady, Kept, Exists
<1>6. QED
  BY <1>1, <1>2, <1>3, <1>4, <1>5 DEF Next

\* A request begins.
Starts(new) ==
    /\ \/ new.stage \in {"token", "invalidate", "issue", "password", "lookup", "admit"}
       \/ /\ new.stage = "verify" /\ new.op \in {"login", "link"}
          /\ new.row = users[new.email] /\ UNCHANGED users
    /\ new.stage = "password" => new.op = "reset"
    /\ new.stage = "lookup" => new.op = "oauth"
    /\ new.op = "oauth" => new.pwd = NoVal
    /\ new.op = "login" => new.ext = NoVal

LEMMA BeginEntry ==
    ASSUME LoginInv, EntryInv, Steady, NEW s \in Slots,
           \/ \E e \in Emails, p \in Passwords : Register(s, e, p)
           \/ \E e \in Emails : ResendVerification(s, e) \/ ForgotPassword(s, e)
           \/ \E b \in Browsers, t \in Tokens, p \in Passwords : ConsumeToken(s, b, t, p)
           \/ \E b \in Browsers, e \in Emails, p \in Passwords : LoginLoad(s, b, e, p)
           \/ \E b \in Browsers : AuthLoad(s, b)
           \/ \E b \in Browsers, t \in Tokens, x \in Externals, e \in RealEmails \cup {NoVal} :
                  CompleteOAuth(s, b, t, x, e)
           \/ \E b \in Browsers, t \in Tokens, p \in Passwords : ConfirmOAuthLink(s, b, t, p),
           tasks' \in [Slots -> Task \cup {NoVal}]
    PROVE  EntryInv'
<1>1. CASE UNCHANGED tasks
  BY <1>1, EntryStays
<1>2. CASE ~UNCHANGED tasks
  <2>1. PICK new : tasks' = [tasks EXCEPT ![s] = new] /\ Starts(new)
    <3>1. CASE \E e \in Emails, p \in Passwords : Register(s, e, p)
      <4>1. PICK e \in Emails, p \in Passwords : Register(s, e, p)
        BY <3>1
      <4> DEFINE new == [NewTask("register", "token") EXCEPT !.email = e]
      <4>2. Starts(new)
        BY DEF Starts, NewTask
      <4>3. tasks' = [tasks EXCEPT ![s] = new]
        BY <4>1 DEF Register, Begin
      <4>4. QED
        BY <4>2, <4>3
    <3>2. CASE \E e \in Emails : ResendVerification(s, e)
      <4>1. PICK e \in Emails : ResendVerification(s, e)
        BY <3>2
      <4> DEFINE new == [NewTask("resend", "invalidate") EXCEPT !.email = e]
      <4>2. Starts(new)
        BY DEF Starts, NewTask
      <4>3. tasks' = [tasks EXCEPT ![s] = new]
        BY <4>1 DEF ResendVerification, Begin
      <4>4. QED
        BY <4>2, <4>3
    <3>3. CASE \E e \in Emails : ForgotPassword(s, e)
      <4>1. PICK e \in Emails : ForgotPassword(s, e)
        BY <3>3
      <4> DEFINE new == [NewTask("forgot", "issue") EXCEPT !.email = e]
      <4>2. Starts(new)
        BY DEF Starts, NewTask
      <4>3. tasks' = [tasks EXCEPT ![s] = new]
        BY <4>1 DEF ForgotPassword, Begin
      <4>4. QED
        BY <4>2, <4>3
    <3>4. CASE \E b \in Browsers, t \in Tokens, p \in Passwords : ConsumeToken(s, b, t, p)
      <4>1. PICK b \in Browsers, t \in Tokens, p \in Passwords : ConsumeToken(s, b, t, p)
        BY <3>4
      <4> DEFINE new == [NewTask("reset", "password") EXCEPT
                      !.browser = b, !.email = oneTime[t].user, !.tok = t, !.pwd = p]
      <4>2. Starts(new)
        BY DEF Starts, NewTask
      <4>3. tasks' = [tasks EXCEPT ![s] = new]
        BY <4>1 DEF ConsumeToken, Begin
      <4>4. QED
        BY <4>2, <4>3
    <3>5. CASE \E b \in Browsers, e \in Emails, p \in Passwords : LoginLoad(s, b, e, p)
      <4>1. PICK b \in Browsers, e \in Emails, p \in Passwords : LoginLoad(s, b, e, p)
        BY <3>5
      <4> DEFINE new == [NewTask("login", "verify") EXCEPT
                      !.browser = b, !.email = e, !.row = users[e], !.pwd = p,
                      !.at = clock, !.barred = Barred]
      <4>2. Starts(new)
        BY <4>1 DEF Starts, NewTask, LoginLoad
      <4>3. tasks' = [tasks EXCEPT ![s] = new]
        BY <4>1 DEF LoginLoad, Begin
      <4>4. QED
        BY <4>2, <4>3
    <3>6. CASE \E b \in Browsers : AuthLoad(s, b)
      <4>1. PICK b \in Browsers : AuthLoad(s, b)
        BY <3>6
      <4> DEFINE new == [NewTask("request", "admit") EXCEPT
                      !.browser = b, !.tok = cookie[b], !.email = sessions[cookie[b]].user]
      <4>2. Starts(new)
        BY DEF Starts, NewTask
      <4>3. tasks' = [tasks EXCEPT ![s] = new]
        BY <4>1 DEF AuthLoad, Begin
      <4>4. QED
        BY <4>2, <4>3
    <3>7. CASE \E b \in Browsers, t \in Tokens, x \in Externals, e \in RealEmails \cup {NoVal} :
                  CompleteOAuth(s, b, t, x, e)
      <4>1. PICK b \in Browsers, t \in Tokens, x \in Externals, e \in RealEmails \cup {NoVal} :
                 CompleteOAuth(s, b, t, x, e)
        BY <3>7
      <4> DEFINE new == [NewTask("oauth", "lookup") EXCEPT
                      !.browser = b, !.ext = x, !.email = e, !.barred = Barred]
      <4>2. Starts(new)
        BY DEF Starts, NewTask
      <4>3. tasks' = [tasks EXCEPT ![s] = new]
        BY <4>1 DEF CompleteOAuth, Begin
      <4>4. QED
        BY <4>2, <4>3
    <3>8. CASE \E b \in Browsers, t \in Tokens, p \in Passwords : ConfirmOAuthLink(s, b, t, p)
      <4>1. PICK b \in Browsers, t \in Tokens, p \in Passwords : ConfirmOAuthLink(s, b, t, p)
        BY <3>8
      <4> DEFINE new == [NewTask("link", "verify") EXCEPT
                      !.browser = b, !.email = redis[t].user, !.ext = redis[t].ext,
                      !.row = users[redis[t].user], !.pwd = p, !.at = clock, !.barred = Barred]
      <4>2. Starts(new)
        BY <4>1 DEF Starts, NewTask, ConfirmOAuthLink
      <4>3. tasks' = [tasks EXCEPT ![s] = new]
        BY <1>2, <4>1 DEF ConfirmOAuthLink, Begin
      <4>4. QED
        BY <4>2, <4>3
    <3>9. QED
      BY <3>1, <3>2, <3>3, <3>4, <3>5, <3>6, <3>7, <3>8
  <2>2. new \in Task \cup {NoVal}
    BY <2>1 DEF LoginInv, AccessTypeOK
  <2>3. PICK task \in Task \cup {NoVal} : task = new
    BY <2>2
  <2>4. task # NoVal => Knows(task)' /\ Sweeps(task)'
    BY <2>1, <2>3 DEF Starts, Knows, Sweeps
  <2>5. QED
    BY <2>1, <2>3, <2>4, EntryMoves
<1>3. QED
  BY <1>1, <1>2

\* A request moves on with what it knows, or ends.
LEMMA MoveEntry ==
    ASSUME LoginInv, EntryInv, Steady, NEW s \in Slots,
           \/ SendVerification(s) \/ InvalidatePending(s) \/ IssueReset(s)
           \/ ChangePassword(s) \/ PasswordWrong(s)
           \/ Admit(s) \/ Expel(s) \/ Logout(s) \/ Abort(s)
           \/ CreateAccount(s),
           tasks' \in [Slots -> Task \cup {NoVal}]
    PROVE  EntryInv'
<1>1. CASE tasks' = [tasks EXCEPT ![s] = NoVal]
  BY <1>1, EntryMoves
<1>2. CASE tasks' # [tasks EXCEPT ![s] = NoVal]
  <2>1. PICK from, stage :
             /\ tasks[s] # NoVal /\ tasks[s].stage = from
             /\ tasks' = [tasks EXCEPT ![s].stage = stage]
             /\ <<from, stage>> \in {<<"invalidate", "token">>, <<"password", "sweep">>,
                                     <<"admit", "run">>, <<"create", "attach">>}
    BY <1>2 DEF SendVerification, InvalidatePending, IssueReset, ChangePassword, PasswordWrong,
       Admit, Expel, Logout, Abort, CreateAccount, At, Goto, End
  <2>2. PICK old \in Task : old = tasks[s]
    BY <2>1 DEF LoginInv, AccessTypeOK
  <2> DEFINE moved == [old EXCEPT !.stage = stage]
  <2>3. /\ tasks' = [tasks EXCEPT ![s] = moved]
        /\ moved.stage = stage /\ moved.op = old.op /\ moved.pwd = old.pwd
        /\ moved.ext = old.ext /\ moved.email = old.email /\ moved.raced = old.raced
    BY <2>1, <2>2 DEF LoginInv, AccessTypeOK, Task
  <2>4. moved \in Task \cup {NoVal}
    BY <2>3 DEF LoginInv, AccessTypeOK
  <2> HIDE DEF moved
  <2>5. Knows(old)
    BY <2>1, <2>2 DEF EntryInv
  <2>6. Knows(moved)' /\ Sweeps(moved)'
    BY <2>1, <2>2, <2>3, <2>5 DEF Knows, Sweeps
  <2>7. QED
    BY <2>3, <2>4, <2>6, EntryMoves
<1>3. QED
  BY <1>1, <1>2

LEMMA SweepEntry ==
    ASSUME LoginInv, EntryInv, Steady, NEW s \in Slots, SweepSessions(s),
           tasks' \in [Slots -> Task \cup {NoVal}]
    PROVE  EntryInv'
<1>1. PICK old \in Task : old = tasks[s] /\ old # NoVal /\ old.stage = "sweep"
  BY DEF SweepSessions, At, LoginInv, AccessTypeOK
<1>2. PICK rows \in SUBSET Tokens : rows = SessionsOf(old.email)
  BY DEF SessionsOf
<1> DEFINE moved == [old EXCEPT !.stage = "commit", !.gone = rows]
<1>3. /\ tasks' = [tasks EXCEPT ![s] = moved] /\ UNCHANGED sessions
      /\ moved.stage = "commit" /\ moved.op = old.op /\ moved.pwd = old.pwd
      /\ moved.ext = old.ext /\ moved.email = old.email /\ moved.gone = rows
  BY <1>1, <1>2 DEF SweepSessions, LoginInv, AccessTypeOK, Task
<1>4. moved \in Task \cup {NoVal}
  BY <1>3 DEF LoginInv, AccessTypeOK
<1> HIDE DEF moved
<1>5. Knows(old)
  BY <1>1 DEF EntryInv
<1>6. Knows(moved)'
  BY <1>1, <1>3, <1>5 DEF Knows
<1>7. Sweeps(moved)'
  BY <1>2, <1>3 DEF Sweeps, SessionsOf
<1>8. QED
  BY <1>3, <1>4, <1>6, <1>7, EntryMoves

\* The password verified is the one the account still has, unless a reset has
\* marked the request.
LEMMA RightEntry ==
    ASSUME LoginInv, EntryInv, Steady, NEW s \in Slots, PasswordRight(s),
           tasks' \in [Slots -> Task \cup {NoVal}]
    PROVE  EntryInv'
<1>1. PICK old \in Task : /\ old = tasks[s] /\ old # NoVal /\ old.stage = "verify"
                          /\ old.row.pwd = old.pwd
  BY DEF PasswordRight, At, LoginInv, AccessTypeOK
<1>2. /\ Knows(old) /\ old.op \in {"login", "link"}
      /\ old.email \in Emails /\ Exists(old.email)
  BY <1>1 DEF EntryInv, LoginInv, TasksShaped, TaskShape, OwnerStages
<1> DEFINE moved == [old EXCEPT !.stage = IF old.op = "login" THEN "open" ELSE "attach",
                                !.row = NoVal]
<1>3. /\ tasks' = [tasks EXCEPT ![s] = moved]
      /\ moved.stage = (IF old.op = "login" THEN "open" ELSE "attach")
      /\ moved.op = old.op /\ moved.pwd = old.pwd /\ moved.raced = old.raced
      /\ moved.ext = old.ext /\ moved.email = old.email
  BY <1>1 DEF PasswordRight, LoginInv, AccessTypeOK, Task
<1>4. moved \in Task \cup {NoVal}
  BY <1>3 DEF LoginInv, AccessTypeOK
<1> HIDE DEF moved
<1>5. ~moved.raced => moved.pwd = users'[moved.email].pwd
  BY <1>1, <1>2, <1>3 DEF Knows, Steady
<1>6. Knows(moved)' /\ Sweeps(moved)'
  BY <1>2, <1>3, <1>5 DEF Knows, Sweeps
<1>7. QED
  BY <1>3, <1>4, <1>6, EntryMoves

\* A callback knows no password.
LEMMA LookupEntry ==
    ASSUME LoginInv, EntryInv, Steady, NEW s \in Slots, LookupIdentity(s) \/ LookupEmail(s),
           tasks' \in [Slots -> Task \cup {NoVal}]
    PROVE  EntryInv'
<1>1. CASE tasks' = [tasks EXCEPT ![s] = NoVal]
  BY <1>1, EntryMoves
<1>2. CASE tasks' # [tasks EXCEPT ![s] = NoVal]
  <2>1. PICK old \in Task : /\ old = tasks[s] /\ old # NoVal
                            /\ old.stage \in {"lookup", "email"}
    BY DEF LookupIdentity, LookupEmail, At, LoginInv, AccessTypeOK
  <2>2. Knows(old) /\ old.op = "oauth" /\ old.pwd = NoVal
    BY <2>1 DEF EntryInv, Knows
  <2> DEFINE Moved(stage, e) == [old EXCEPT !.stage = stage, !.email = e]
  <2>3. PICK stage, e :
             /\ tasks' = [tasks EXCEPT ![s] = Moved(stage, e)]
             /\ stage \in {"email", "create", "attach", "open"}
             /\ stage = "open" => e = identities[old.ext] /\ UNCHANGED identities
    <3>1. /\ [old EXCEPT !.stage = "email"] = Moved("email", old.email)
          /\ [old EXCEPT !.stage = "attach"] = Moved("attach", old.email)
      BY DEF Task
    <3>2. CASE LookupIdentity(s)
      <4>1. \/ tasks' = [tasks EXCEPT ![s] = [old EXCEPT !.stage = "email"]]
            \/ tasks' = [tasks EXCEPT ![s] = Moved("open", identities[old.ext])]
        BY <1>2, <2>1, <3>2 DEF LookupIdentity, Goto, End, LoginInv, AccessTypeOK
      <4>2. UNCHANGED identities
        BY <3>2 DEF LookupIdentity
      <4> HIDE DEF Moved
      <4>3. QED
        BY <3>1, <4>1, <4>2
    <3>3. CASE LookupEmail(s)
      <4>1. \/ tasks' = [tasks EXCEPT ![s] = [old EXCEPT !.stage = "attach"]]
            \/ tasks' = [tasks EXCEPT ![s] = Moved("create", oauthEmailFor(old.ext, old.email))]
        BY <1>2, <2>1, <3>3 DEF LookupEmail, Goto, End, LoginInv, AccessTypeOK
      <4> HIDE DEF Moved
      <4>2. QED
        BY <3>1, <4>1
    <3>4. QED
      BY <3>2, <3>3
  <2> DEFINE moved == Moved(stage, e)
  <2>4. /\ moved.stage = stage /\ moved.email = e
        /\ moved.op = old.op /\ moved.pwd = old.pwd /\ moved.ext = old.ext
    BY DEF Task
  <2>5. moved \in Task \cup {NoVal}
    BY <2>3 DEF LoginInv, AccessTypeOK
  <2> HIDE DEF moved
  <2>6. Knows(moved)' /\ Sweeps(moved)'
    BY <2>2, <2>3, <2>4 DEF Knows, Sweeps
  <2>7. QED
    BY <2>3, <2>5, <2>6, EntryMoves DEF moved
<1>3. QED
  BY <1>1, <1>2

\* The account bound is the one the session will be for.
LEMMA AttachEntry ==
    ASSUME LoginInv, EntryInv, Steady, NEW s \in Slots, AttachIdentity(s),
           tasks' \in [Slots -> Task \cup {NoVal}]
    PROVE  EntryInv'
<1>1. CASE tasks' = [tasks EXCEPT ![s] = NoVal]
  BY <1>1, EntryMoves
<1>2. CASE tasks' # [tasks EXCEPT ![s] = NoVal]
  <2>1. PICK old \in Task : old = tasks[s] /\ old # NoVal /\ old.stage = "attach"
    BY DEF AttachIdentity, At, LoginInv, AccessTypeOK
  <2>2. /\ Knows(old) /\ old.email \in Emails /\ Exists(old.email) /\ old.ext \in Externals
    BY <2>1 DEF EntryInv, LoginInv, TasksShaped, TaskShape, OwnerStages
  <2> DEFINE moved == [old EXCEPT !.stage = "open"]
  <2>3. /\ tasks' = [tasks EXCEPT ![s] = moved]
        /\ identities' = [identities EXCEPT ![old.ext] = old.email]
    BY <1>2, <2>1 DEF AttachIdentity, Goto, End, LoginInv, AccessTypeOK
  <2>4. /\ moved.stage = "open" /\ moved.op = old.op /\ moved.pwd = old.pwd
        /\ moved.ext = old.ext /\ moved.email = old.email /\ moved.raced = old.raced
    BY DEF Task
  <2>5. moved \in Task \cup {NoVal}
    BY <2>3 DEF LoginInv, AccessTypeOK
  <2> HIDE DEF moved
  <2>6. identities'[old.ext] = old.email
    BY <2>2, <2>3 DEF LoginInv, AccessTypeOK
  <2>7. Knows(moved)' /\ Sweeps(moved)'
    BY <2>1, <2>2, <2>4, <2>6 DEF Knows, Sweeps, Steady
  <2>8. QED
    BY <2>3, <2>5, <2>7, EntryMoves
<1>3. QED
  BY <1>1, <1>2

\* The session stored is under the password its account has now, or marked as
\* raced: a reset past its DELETE marks it, and so holds what it says of it.
LEMMA OpenEntry ==
    ASSUME LoginInv, EntryInv, NEW s \in Slots, OpenSession(s), UNCHANGED socialVars
    PROVE  EntryInv'
<1>1. PICK old \in Task : old = tasks[s] /\ old # NoVal /\ old.stage = "open"
  BY DEF OpenSession, At, LoginInv, AccessTypeOK
<1>2. Knows(old) /\ old.email \in Emails /\ Exists(old.email)
  BY <1>1 DEF EntryInv, LoginInv, TasksShaped, TaskShape, OwnerStages
<1>3. PICK row : /\ sessions' = [sessions EXCEPT ![Fresh] = row]
                 /\ row.user = old.email /\ row.under = old.pwd /\ row.via = old.ext
                 /\ row.raced = (old.raced \/ Swept(old.email))
  <2>1. PICK now : InsertSession(Fresh, old, now)
    BY <1>1 DEF OpenSession
  <2> DEFINE row == [user |-> old.email, idle |-> now + IdleTTL,
                     absolute |-> now + AbsoluteTTL, under |-> old.pwd,
                     raced |-> old.raced \/ Swept(old.email), via |-> old.ext]
  <2>2. /\ row.user = old.email /\ row.under = old.pwd /\ row.via = old.ext
        /\ row.raced = (old.raced \/ Swept(old.email))
    OBVIOUS
  <2>3. sessions' = [sessions EXCEPT ![Fresh] = row]
    BY <2>1 DEF InsertSession
  <2>4. QED
    BY <2>2, <2>3
<1>4. /\ \A n \in Tokens : sessions'[n] = sessions[n] \/ sessions'[n] = row
      /\ UNCHANGED <<users, identities>>
      /\ tasks' = [tasks EXCEPT ![s] = NoVal]
  BY <1>3 DEF OpenSession, End, LoginInv, AccessTypeOK, socialVars
<1>5. ASSUME NEW r \in Slots, tasks'[r] # NoVal
      PROVE  Knows(tasks[r])' /\ Sweeps(tasks[r])'
  <2>1. tasks'[r] = tasks[r] /\ Knows(tasks[r]) /\ Sweeps(tasks[r])
    BY <1>4, <1>5 DEF LoginInv, AccessTypeOK, EntryInv
  <2>2. Knows(tasks[r])'
    BY <1>4, <2>1 DEF Knows
  <2>3. tasks[r].stage = "commit" /\ row.user = tasks[r].email => row.raced
    BY <1>3, <1>5, <2>1 DEF Knows, Swept, Reset
  <2>4. Sweeps(tasks[r])'
    BY <1>4, <2>1, <2>3 DEF Sweeps
  <2>5. QED
    BY <2>2, <2>4
<1>6. SessionsFollowPassword'
  BY <1>1, <1>2, <1>3, <1>4 DEF SessionsFollowPassword, EntryInv, Exists, Knows
<1>7. OneAccountBehind'
  BY <1>1, <1>2, <1>3, <1>4 DEF OneAccountBehind, EntryInv, Knows
<1>8. QED
  BY <1>5, <1>6, <1>7 DEF EntryInv

\* COMMIT: the sessions of the account are gone but for those marked as raced,
\* and the requests that verified the old password are marked.
LEMMA CommitEntry ==
    ASSUME LoginInv, EntryInv, NEW s \in Slots, CommitReset(s), UNCHANGED socialVars
    PROVE  EntryInv'
<1>1. PICK old \in Task : old = tasks[s] /\ old # NoVal /\ old.stage = "commit"
  BY DEF CommitReset, At, LoginInv, AccessTypeOK
<1> DEFINE e == old.email
<1>2. Sweeps(old) /\ e \in Emails /\ Exists(e)
  BY <1>1 DEF EntryInv, LoginInv, TasksShaped, TaskShape, OwnerStages
<1>3. /\ \A a \in Emails \ {e} : users'[a] = users[a]
      /\ UNCHANGED identities
      /\ \A n \in Tokens : sessions'[n] # NoVal => sessions'[n] = sessions[n] /\ n \notin old.gone
      /\ tasks' = [MarkRaced(e) EXCEPT ![s] = NoVal]
  BY <1>1 DEF CommitReset, LoginInv, AccessTypeOK, socialVars
<1>4. ASSUME NEW r \in Slots, tasks'[r] # NoVal
      PROVE  Knows(tasks[r])' /\ Sweeps(tasks[r])'
  <2>1. r # s /\ tasks'[r] = MarkRaced(e)[r]
    BY <1>3, <1>4 DEF MarkRaced
  <2>2. PICK was \in Task : was = tasks[r] /\ was # NoVal
    BY <1>4, <2>1 DEF MarkRaced, LoginInv, AccessTypeOK
  <2>3. /\ Knows(was) /\ Sweeps(was) /\ TaskShape(was)
    BY <2>2 DEF EntryInv, LoginInv, TasksShaped
  <2>4. PICK is : /\ is = tasks'[r]
                  /\ \/ was.email = e /\ was.op \in {"login", "link"} /\ is.raced
                     \/ ~(was.email = e /\ was.op \in {"login", "link"}) /\ is.raced = was.raced
                  /\ is.stage = was.stage /\ is.op = was.op /\ is.pwd = was.pwd
                  /\ is.ext = was.ext /\ is.email = was.email /\ is.row = was.row
                  /\ is.gone = was.gone
    BY <2>1, <2>2 DEF MarkRaced, Task
  <2>5. Knows(is)'
    <3>1. is.stage = "verify" /\ ~is.raced => is.row.pwd = users'[is.email].pwd
      BY <1>3, <2>3, <2>4 DEF Knows, TaskShape, OwnerStages
    <3>2. is.stage \in {"open", "attach"} /\ ~is.raced => is.pwd \in {NoVal, users'[is.email].pwd}
      BY <1>3, <2>3, <2>4 DEF Knows, TaskShape, OwnerStages
    <3>3. QED
      BY <1>3, <2>3, <2>4, <3>1, <3>2 DEF Knows
  <2>6. Sweeps(is)'
    BY <1>3, <2>3, <2>4 DEF Sweeps
  <2>7. QED
    BY <2>4, <2>5, <2>6 DEF Knows, Sweeps
<1>5. SessionsFollowPassword'
  <2> SUFFICES ASSUME NEW n \in Tokens, sessions'[n] # NoVal, ~sessions'[n].raced
               PROVE  /\ Exists(sessions[n].user)'
                      /\ sessions'[n].under \in {NoVal, users'[sessions'[n].user].pwd}
    BY DEF SessionsFollowPassword, Exists
  <2>1. sessions'[n] = sessions[n] /\ n \notin old.gone /\ sessions[n].user \in Emails
    BY <1>3 DEF LoginInv, AccessTypeOK, SessionRow
  <2>2. sessions[n].user # e
    BY <1>1, <1>2, <2>1 DEF Sweeps
  <2>3. QED
    BY <1>3, <2>1, <2>2 DEF EntryInv, SessionsFollowPassword, Exists
<1>6. OneAccountBehind'
  BY <1>3 DEF OneAccountBehind, EntryInv
<1>7. QED
  BY <1>4, <1>5, <1>6 DEF EntryInv

LEMMA EntryInvInit == Init => EntryInv
BY DEF Init, AccessInit, EntryInv, SessionsFollowPassword, OneAccountBehind

LEMMA EntryInvNext == LoginInv /\ EntryInv /\ [Next]_vars => EntryInv'
<1> SUFFICES ASSUME LoginInv, EntryInv, [Next]_vars PROVE EntryInv'
  OBVIOUS
<1>1. CASE (\E s \in Slots : OpenSession(s)) /\ UNCHANGED socialVars
  BY <1>1, OpenEntry
<1>2. CASE (\E s \in Slots : CommitReset(s)) /\ UNCHANGED socialVars
  BY <1>2, CommitEntry
<1>3. CASE ~((\E s \in Slots : CommitReset(s) \/ OpenSession(s)) /\ UNCHANGED socialVars)
  <2>1. Steady
    BY <1>3, SteadyStep
  <2>2. tasks' \in [Slots -> Task \cup {NoVal}]
    BY LoginInvNext DEF LoginInv, AccessTypeOK
  <2>3. CASE UNCHANGED tasks
    BY <2>1, <2>3, EntryStays
  <2>4. CASE AccountStep /\ UNCHANGED socialVars
    BY <1>3, <2>1, <2>2, <2>3, <2>4, AccessAssumption, BeginEntry, MoveEntry, SweepEntry
       DEF AccountStep, VerifyEmail
  <2>5. CASE SessionStep /\ UNCHANGED socialVars
    BY <1>3, <2>1, <2>2, <2>3, <2>5, AccessAssumption, BeginEntry, MoveEntry, RightEntry
       DEF SessionStep, AuthReject
  <2>6. CASE Surroundings /\ UNCHANGED socialVars
    BY <2>1, <2>2, <2>3, <2>6, MoveEntry DEF Surroundings, Block, Cleanup, Tick
  <2>7. CASE OAuthStep
    BY <2>1, <2>2, <2>3, <2>7, BeginEntry, MoveEntry, LookupEntry, AttachEntry
       DEF OAuthStep, BeginOAuth, FetchUser
  <2>8. QED
    BY <2>3, <2>4, <2>5, <2>6, <2>7 DEF Next, vars
<1>4. QED
  BY <1>1, <1>2, <1>3

-----------------------------------------------------------------------------
(* The theorems.                                                           *)

THEOREM EntryInvariant == Spec => []EntryInv
BY LoginInvariant, EntryInvInit, EntryInvNext, PTL DEF Spec

\* A session a password opened is under the password its account has now, for
\* every interleaving of the statements of any number of resets with logins
\* and links, but for the sessions of a request that a reset raced: one that
\* committed after the request had read the account, or that had passed its
\* DELETE when the session was stored (password_reset_tokens_pg.go Consume,
\* service.go Login, oauth.go ConfirmOAuthLink).
THEOREM SessionsAreUnderTheirPassword == Spec => []SessionsFollowPassword
BY EntryInvariant, PTL DEF EntryInv

\* Whoever comes in through an external account is in the account it is bound
\* to (oauth.go, oauth_identities_pg.go Create, migration 000015).
THEOREM OneAccountBehindEach == Spec => []OneAccountBehind
BY EntryInvariant, PTL DEF EntryInv

\* None of the five ways in opens a session for an account that was blocked
\* when the request began (service.go:330, oauth.go:145, 164, 269).
THEOREM BarredStaysOut == Spec => NoEntryForBarred
<1>1. ASSUME LoginInv, Next, NEW t \in Tokens, sessions[t] = NoVal, sessions'[t] # NoVal,
             NEW s \in Slots, tasks'[s] # tasks[s]
      PROVE  sessions'[t].user \notin tasks[s].barred
  <2> USE <1>1
  <2>1. ~\E o \in Slots : CommitReset(o)
    BY DEF CommitReset
  <2>2. PICK o \in Slots : OpenSession(o)
    BY <2>1, SteadyStep DEF Steady, Kept
  <2>3. /\ tasks[o] # NoVal /\ tasks[o].stage = "open" /\ TaskAdmits(tasks[o])
        /\ tasks' = [tasks EXCEPT ![o] = NoVal]
    BY <2>2 DEF OpenSession, At, End, LoginInv, TasksShaped
  <2>4. s = o
    BY <2>3 DEF LoginInv, AccessTypeOK
  <2>5. sessions'[t].user = tasks[o].email
    BY <2>2 DEF OpenSession, InsertSession, LoginInv, AccessTypeOK
  <2>6. QED
    BY <2>3, <2>4, <2>5 DEF TaskAdmits
<1>2. LoginInv /\ [Next]_vars =>
          [\A t \in Tokens : sessions[t] = NoVal /\ sessions'[t] # NoVal =>
              \A s \in Slots : tasks'[s] # tasks[s] =>
                  sessions'[t].user \notin tasks[s].barred]_vars
  BY <1>1
<1>3. QED
  BY <1>2, LoginInvariant, PTL DEF Spec, NoEntryForBarred

=============================================================================
