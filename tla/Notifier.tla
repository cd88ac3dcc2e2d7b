------------------------------ MODULE Notifier ------------------------------
(***************************************************************************)
(* Notifications: service/notifier with its tables, the bot (cmd/bot) that *)
(* links a Telegram chat, and the two kinds of background job it enqueues. *)
(*                                                                         *)
(* An event becomes one row of notifications and, in the same transaction, *)
(* one row of notification_deliveries per channel.  Instant deliveries get *)
(* a job of their own; the others wait until a flush of the scheduler puts *)
(* all of an account's into one digest job.                                *)
(*                                                                         *)
(* Windows of time are not counted: that a window has passed is a step.    *)
(* A worker runs one attempt of a job at a time (its 60 seconds end before *)
(* the lock of 5 minutes does).  processNotifierJob saves a success, and a *)
(* last failure, with a nil result, which background_jobs refuses (module  *)
(* JobQueue): whatever an attempt ends with, its row can be claimed again  *)
(* as long as it has attempts left.                                        *)
(***************************************************************************)
EXTENDS Integers, Sequences, FiniteSets, FiniteSetsExt

CONSTANTS
    Users, ActiveUsers,
    Kinds,             \* the event types that are emitted
    Profiles,          \* what the accounts may have set up before
    Switches,          \* the [kind, channel, enabled] that may be asked for
    Chats, Hooks,      \* Telegram chats and webhook URLs
    Emitters,          \* goroutines that may call Emit at the same time
    MaxNotes,          \* bound: notifications ever created
    MaxJobs,           \* bound: jobs ever enqueued
    MaxEdits,          \* bound: requests of the accounts
    MaxAttempts,       \* max_attempts of a notifier job
    Schedules,         \* the [channel, on, min, quiet] that may be asked for
    Hours,             \* hours of a day
    NoVal

\* The factories of events.go: info is 1, warning 2, error 3.
Severities ==
    [dispatch_completed |-> {1, 2, 3}, recalc_completed |-> {1, 2},
     import_completed |-> {1, 2},      constraint_hit |-> {2},
     integration_error |-> {2, 3},     scheduled_job_failed |-> {3},
     business_warning_no_cost |-> {2}, business_warning_no_competitors |-> {2},
     business_warning_price_drift |-> {2}, competitor_price_dropped |-> {1},
     competitor_appeared |-> {1},      median_shifted |-> {1}]

\* These four carry no DedupeWindow.
Deduped == DOMAIN Severities \
    {"dispatch_completed", "recalc_completed", "import_completed", "constraint_hit"}

\* Without a row in notification_preferences: email for results and failures.
defaultPreference(kind) ==
    IF kind \in {"dispatch_completed", "import_completed", "integration_error",
                 "scheduled_job_failed", "business_warning_no_cost",
                 "business_warning_no_competitors", "business_warning_price_drift"}
    THEN {"email"} ELSE {}

ASSUME NotifierAssumption ==
    /\ ActiveUsers \subseteq Users /\ Kinds \subseteq DOMAIN Severities
    /\ MaxAttempts \in Nat \ {0} /\ Hours \in Nat \ {0}
    /\ MaxNotes \in Nat /\ MaxJobs \in Nat
    /\ IsFiniteSet(Emitters)

\* in_app, which every notification has, sends nothing: its row is left out.
Outward == {"email", "telegram", "webhook"}
Notes == 1..MaxNotes
Keys == Notes \X Outward

\* `recent`: its dedupe window is open; `gone`: deleted.
NoteRow == [user : Users, kind : Kinds, sev : 1..3, recent : BOOLEAN, gone : BOOLEAN]

ASSUME AccountAssumption ==
    /\ \A had \in Profiles : had.prefs \in [Kinds -> SUBSET Outward]
    /\ \A p \in Switches : p.channel \in Outward
    /\ NoVal \notin NoteRow

VARIABLES
    notes,      \* [Notes -> notification or NoVal]
    rows,       \* [Keys -> status of the delivery, "none" without a row]
    prefs,      \* [Users -> [Kinds -> channels switched on]]
    settings,   \* [Users -> [Outward -> user_channel_settings or NoVal]]
    links,      \* [Users -> [chat, token, muted]]
    hooks,      \* [Users -> SUBSET Hooks]
    emits,      \* [Emitters -> the call of Emit under way]
    flush,      \* the flush under way
    jobs,       \* the notifier's rows of background_jobs
    edits

vars == <<notes, rows, prefs, settings, links, hooks, emits, flush, jobs,
          edits>>

account == <<prefs, settings, links, hooks, edits>>
table   == <<notes, rows>>

Status == {"none", "pending", "pending_digest", "queued_digest", "sent", "skipped"}
Final  == {"sent", "skipped", "failed"}

NoEmit  == [stage |-> "idle"]
NoFlush == [stage |-> "idle"]

Init ==
    /\ notes    = [n \in Notes |-> NoVal]
    /\ rows     = [k \in Keys |-> "none"]
    /\ \E had \in [Users -> Profiles] :
           /\ prefs    = [u \in Users |-> had[u].prefs]
           /\ settings = [u \in Users |-> had[u].settings]
           /\ links    = [u \in Users |-> had[u].link]
           /\ hooks    = [u \in Users |-> had[u].hooks]
    /\ emits    = [p \in Emitters |-> NoEmit]
    /\ flush    = NoFlush
    /\ jobs     = <<>>
    /\ edits    = 0

Live(n) == notes[n] # NoVal /\ ~notes[n].gone
Row(k)  == rows[k] # "none"
Created == Cardinality({n \in Notes : notes[n] # NoVal})

\* UpdateStatus fails with ErrNotFound when the row is gone.
UpdateStatus(ks, status) ==
    rows' = [k \in Keys |-> IF k \in ks /\ Row(k) THEN status ELSE rows[k]]

\* `acked` is no column: the caller was told that the INSERT was done.
Enqueue(kind, u, ks, acked) ==
    /\ Len(jobs) < MaxJobs
    /\ jobs' = Append(jobs, [kind |-> kind, user |-> u, keys |-> ks, items |-> {},
                             tries |-> 0, stage |-> "idle", acked |-> acked])

-----------------------------------------------------------------------------
(* Emit. *)

\* Is there a notification of this event within the dedupe window?  For the
\* kinds that carry a product or a shop, Kinds stands for the pair.
ExistsRecent(u, kind) ==
    \E n \in Notes : Live(n) /\ notes[n].user = u /\ notes[n].kind = kind /\ notes[n].recent

\* The check reads the table on its own, before the transaction, so that two
\* calls may both find nothing.  It may fail, which is logged and counts as "no".
EmitDedupe(p, u, kind, sev) ==
    /\ emits[p] = NoEmit
    /\ Cardinality({q \in Emitters : emits[q].stage = "commit"}) + Created < MaxNotes
    /\ \E failed \in BOOLEAN : failed \/ ~(kind \in Deduped /\ ExistsRecent(u, kind))
    /\ emits' = [emits EXCEPT ![p] = [stage |-> "commit", user |-> u, kind |-> kind, sev |-> sev]]
    /\ UNCHANGED <<table, account, flush, jobs>>

shouldDigest(s, sev) ==
    /\ s # NoVal /\ s.on
    /\ sev >= s.min
    /\ sev = 3 => s.min = 3

\* An event below the threshold of a digest is not sent on that channel at all.
PlannedStatus(u, c, sev) ==
    LET s == settings[u][c] IN
    CASE s # NoVal /\ s.on /\ sev < s.min -> "skipped"
      [] shouldDigest(s, sev)             -> "pending_digest"
      [] OTHER                            -> "pending"

\* Preferences and schedules are read, then one transaction writes the
\* notification and all its deliveries.
EmitCommit(p) ==
    /\ emits[p].stage = "commit"
    /\ LET e == emits[p]
           n == Created + 1
           plan == [c \in prefs[e.user][e.kind] |-> PlannedStatus(e.user, c, e.sev)]
           todo == {c \in DOMAIN plan : plan[c] = "pending"} IN
       /\ notes' = [notes EXCEPT ![n] =
              [user |-> e.user, kind |-> e.kind, sev |-> e.sev, recent |-> e.kind \in Deduped,
               gone |-> FALSE]]
       /\ rows' = [k \in Keys |-> IF k[1] = n /\ k[2] \in DOMAIN plan
                                  THEN plan[k[2]] ELSE rows[k]]
       /\ emits' = [emits EXCEPT ![p] =
              IF todo = {} THEN NoEmit
              ELSE [stage |-> "fan-out", user |-> e.user, note |-> n, todo |-> todo]]
    /\ UNCHANGED <<account, flush, jobs>>

\* resolveChannels lists them in this order.
FanOutOrder == [email |-> 1, telegram |-> 2, webhook |-> 3]

Handled(p, c) ==
    emits' = [emits EXCEPT ![p] = IF emits[p].todo = {c} THEN NoEmit
                                  ELSE [emits[p] EXCEPT !.todo = @ \ {c}]]

\* After the commit.  What waits for a digest or was skipped has its status; the
\* others get a job, or nothing comes back to them when the insert fails.
EmitFanOut(p, c) ==
    /\ emits[p].stage = "fan-out"
    /\ c \in emits[p].todo
    /\ \A d \in emits[p].todo : FanOutOrder[c] <= FanOutOrder[d]
    /\ Enqueue("deliver", emits[p].user, {<<emits[p].note, c>>}, TRUE) \/ UNCHANGED jobs
    /\ Handled(p, c)
    /\ UNCHANGED <<table, account, flush>>

\* The process that emits dies, or a statement fails: whoever reports the event
\* logs the error and goes on with its own work.
EmitLost(p) ==
    /\ emits[p] # NoEmit
    /\ emits' = [emits EXCEPT ![p] = NoEmit]
    /\ UNCHANGED <<table, account, flush, jobs>>

-----------------------------------------------------------------------------
(* FlushDigests, under the advisory lock of DigestFlushTick: one at a time. *)

\* Only email has digests, scheduler.go:407.
FlushChannel == "email"

OfUser(u) == {k \in Keys : Live(k[1]) /\ notes[k[1]].user = u /\ k[2] = FlushChannel}

\* Mutant of IsInQuietHours: a range that does not wrap is never over.
QuietForever(h, quiet) == quiet # NoVal

\* quiet is <<start, end>>: [start, end) on the clock, across midnight too.
IsInQuietHours(h, quiet) ==
    /\ quiet # NoVal
    /\ IF quiet[1] <= quiet[2] THEN quiet[1] <= h /\ h < quiet[2]
                               ELSE quiet[1] <= h \/ h < quiet[2]

\* Mutant of WaitingOf: the query takes what another flush has taken already.
UnsentOf(u) == {k \in OfUser(u) : rows[k] \in {"pending_digest", "queued_digest"}}

WaitingOf(u) == {k \in OfUser(u) : rows[k] = "pending_digest"}

FlushBegin(u) ==
    /\ flush = NoFlush
    /\ WaitingOf(u) # {}
    /\ LET s == settings[u][FlushChannel] IN
       /\ s # NoVal /\ s.on /\ s.due
       /\ \E hour \in 0..(Hours - 1) : ~IsInQuietHours(hour, s.quiet)
       /\ flush' = [stage |-> "lock", user |-> u, min |-> s.min]
    /\ UNCHANGED <<table, account, emits, jobs>>

\* SELECT ... FOR UPDATE SKIP LOCKED and the UPDATE, in one transaction.
LockPendingDigestForUser ==
    /\ flush.stage = "lock"
    /\ LET ks == WaitingOf(flush.user) IN
       /\ UpdateStatus(ks, "queued_digest")
       /\ flush' = IF ks = {} THEN NoFlush
                   ELSE [stage |-> "filter", user |-> flush.user, min |-> flush.min, keys |-> ks]
    /\ UNCHANGED <<notes, account, emits, jobs>>

MarkDigestSent(u, c) ==
    settings' = [settings EXCEPT ![u][c] =
        IF @ = NoVal THEN [on |-> FALSE, min |-> 1, quiet |-> NoVal, due |-> FALSE, sent |-> TRUE]
        ELSE [@ EXCEPT !.due = FALSE, !.sent = TRUE]]

\* What is below the threshold by now is skipped, row by row, errors ignored; the
\* rest go on.  A row deleted since the lock is missing from what LoadByIDs finds.
filterByMinSeverity ==
    /\ flush.stage = "filter"
    /\ LET passes == {k \in flush.keys : \/ flush.min = 1
                                         \/ /\ Row(k)
                                            /\ notes[k[1]].sev >= flush.min} IN
       /\ \E done \in SUBSET (flush.keys \ passes) : UpdateStatus(done, "skipped")
       /\ IF passes = {}
          THEN /\ MarkDigestSent(flush.user, FlushChannel) \/ UNCHANGED settings
               /\ flush' = NoFlush
          ELSE flush' = [flush EXCEPT !.stage = "enqueue", !.keys = passes] /\ UNCHANGED settings
    /\ UNCHANGED <<notes, prefs, links, hooks, edits, emits, jobs>>

\* The INSERT may be committed and still be reported as failed.
FlushEnqueue ==
    /\ flush.stage = "enqueue"
    /\ \E acked \in BOOLEAN :
           /\ Enqueue("digest", flush.user, flush.keys, acked)
           /\ flush' = IF acked THEN NoFlush ELSE [flush EXCEPT !.stage = "unlock"]
    /\ UNCHANGED <<table, account, emits>>

\* The filter or the INSERT failed, or so it was said: unlockBack, row by row, up
\* to its first error.
unlockBack ==
    /\ flush.stage \in {"filter", "enqueue", "unlock"}
    /\ \E back \in SUBSET flush.keys : UpdateStatus(back, "pending_digest")
    /\ flush' = NoFlush
    /\ UNCHANGED <<notes, account, emits, jobs>>

FlushLost ==
    /\ flush # NoFlush
    /\ flush' = NoFlush
    /\ UNCHANGED <<table, account, emits, jobs>>

-----------------------------------------------------------------------------
(* The worker: ExecuteDeliveryJob and ExecuteDigestJob. *)

EndRun(j) == jobs' = [jobs EXCEPT ![j].stage = "idle", ![j].items = {}]
Running(j, stage) == j \in DOMAIN jobs /\ jobs[j].stage = stage

\* Mutant of digestPendingItems: the filter is left out.
EveryItem(ks) == ks

digestPendingItems(ks) == {k \in ks : rows[k] \notin Final}

\* Claimed: the rows are loaded, those deleted are missing; a digest leaves out
\* what is final already, a single delivery does not look at its status.
RunLoad(j) ==
    /\ Running(j, "idle")
    /\ jobs[j].tries < MaxAttempts
    /\ LET found == {k \in jobs[j].keys : Row(k)}
           items == IF jobs[j].kind = "digest" THEN digestPendingItems(found) ELSE found IN
       jobs' = [jobs EXCEPT ![j].tries = @ + 1,
                            ![j].stage = IF items = {} THEN "idle" ELSE "send",
                            ![j].items = items]
    /\ UNCHANGED <<table, account, emits, flush>>

\* Where a message of this channel goes: the address of an active account, the
\* linked chat unless muted, every enabled webhook.
Endpoints(u, c) ==
    CASE c = "email"    -> IF u \in ActiveUsers THEN {u} ELSE {}
      [] c = "telegram" -> IF links[u].chat # NoVal /\ ~links[u].muted
                           THEN {links[u].chat} ELSE {}
      [] c = "webhook"  -> hooks[u]

JobChannel(j) == (CHOOSE k \in jobs[j].keys : TRUE)[2]

\* Deliver and DigestDeliver.  Nowhere to send is ErrSkip.  One endpoint that
\* accepts is a success; an error may hide a message that did go out.  After an
\* error the status of a single delivery is put back, best effort.
RunSend(j) ==
    /\ Running(j, "send")
    /\ LET to == Endpoints(jobs[j].user, JobChannel(j)) IN
       \/ to = {} /\ jobs' = [jobs EXCEPT ![j].stage = "skipped"] /\ UNCHANGED rows
       \/ to # {} /\ jobs' = [jobs EXCEPT ![j].stage = "sent"] /\ UNCHANGED rows
       \/ /\ to # {}
          /\ \/ jobs[j].kind = "deliver" /\ UpdateStatus(jobs[j].items, "pending")
             \/ UNCHANGED rows
          /\ EndRun(j)
    /\ UNCHANGED <<notes, account, emits, flush>>

\* The outcome is written down.  A delivery that cannot be is an error of the
\* attempt; a digest that cannot be, in part or at all, is only logged.
RunMark(j) ==
    /\ j \in DOMAIN jobs /\ jobs[j].stage \in {"sent", "skipped"}
    /\ \E done \in SUBSET jobs[j].items : UpdateStatus(done, jobs[j].stage)
    /\ \/ jobs[j].kind = "digest" /\ jobs[j].stage = "sent" /\ MarkDigestSent(jobs[j].user, FlushChannel)
       \/ UNCHANGED settings
    /\ EndRun(j)
    /\ UNCHANGED <<notes, prefs, links, hooks, edits, emits, flush>>

\* The worker dies: the lock of the row expires.
RunLost(j) ==
    /\ j \in DOMAIN jobs /\ jobs[j].stage # "idle"
    /\ EndRun(j)
    /\ UNCHANGED <<table, account, emits, flush>>

-----------------------------------------------------------------------------
(* Requests of the account, the bot, and time. *)

Quiet == UNCHANGED <<emits, flush, jobs>>

\* A request of the account, on its own.
Request == edits < MaxEdits /\ edits' = edits + 1 /\ Quiet /\ UNCHANGED table

UpsertPreferences(u, p) ==
    /\ prefs' = [prefs EXCEPT ![u][p.kind] =
           IF p.enabled THEN @ \cup {p.channel} ELSE @ \ {p.channel}]
    /\ Request /\ UNCHANGED <<settings, links, hooks>>

\* The window counts from the last digest or, before the first one, from this
\* change; a different window may already be over.
UpsertChannelSettings(u, new) ==
    /\ LET c == new.channel
           sent == settings[u][c] # NoVal /\ settings[u][c].sent IN
       \E due \in (IF sent THEN BOOLEAN ELSE {FALSE}) :
           settings' = [settings EXCEPT ![u][c] =
               [on |-> new.on, min |-> new.min, quiet |-> new.quiet, due |-> due, sent |-> sent]]
    /\ Request /\ UNCHANGED <<prefs, links, hooks>>

SetLink(u, link) ==
    /\ links' = [links EXCEPT ![u] = link]
    /\ UNCHANGED <<prefs, settings, hooks>>

IssueTelegramLinkToken(u) == Request /\ SetLink(u, [links[u] EXCEPT !.token = TRUE])

\* /start with a token that is still good, from a chat no other account has; the
\* statement that lifts the mute is a second one and may be lost.
BotStart(u, chat) ==
    /\ links[u].token
    /\ \A v \in Users \ {u} : links[v].chat # chat
    /\ \E lifted \in {FALSE, links[u].muted} :
           Request /\ SetLink(u, [chat |-> chat, token |-> FALSE, muted |-> lifted])

\* From the site, or /unlink from the chat; the mute belongs to the account.
UnlinkTelegram(u) == Request /\ SetLink(u, [links[u] EXCEPT !.chat = NoVal, !.token = FALSE])

BotMute(u) == links[u].chat # NoVal /\ Request /\ SetLink(u, [links[u] EXCEPT !.muted = TRUE])

CreateWebhook(u, w) ==
    /\ hooks' = [hooks EXCEPT ![u] = @ \cup {w}]
    /\ Request /\ UNCHANGED <<prefs, settings, links>>

DeleteWebhook(u, w) ==
    /\ hooks' = [hooks EXCEPT ![u] = @ \ {w}]
    /\ Request /\ UNCHANGED <<prefs, settings, links>>

\* Mutant of CascadeFrom: the deliveries stay behind.
CascadeNot(n, k) == FALSE

CascadeFrom(n, k) == k[1] = n

\* The row goes, and its deliveries with it (ON DELETE CASCADE).
DeleteNotification(n) ==
    /\ Live(n) /\ notes' = [notes EXCEPT ![n].gone = TRUE, ![n].recent = FALSE]
    /\ rows' = [k \in Keys |-> IF CascadeFrom(n, k) THEN "none" ELSE rows[k]]
    /\ Quiet /\ UNCHANGED account

\* Time: a dedupe window, a digest window, a token, a mute.
DedupeWindowEnds(n) ==
    /\ Live(n) /\ notes[n].recent
    /\ notes' = [notes EXCEPT ![n].recent = FALSE]
    /\ Quiet /\ UNCHANGED <<rows, account>>

DigestWindowEnds(u) ==
    /\ settings[u][FlushChannel] # NoVal /\ ~settings[u][FlushChannel].due
    /\ settings' = [settings EXCEPT ![u][FlushChannel].due = TRUE]
    /\ Quiet /\ UNCHANGED <<table, prefs, links, hooks, edits>>

TelegramTimePasses(u) ==
    /\ \/ links[u].token /\ SetLink(u, [links[u] EXCEPT !.token = FALSE])
       \/ links[u].muted /\ SetLink(u, [links[u] EXCEPT !.muted = FALSE])
    /\ Quiet /\ UNCHANGED <<table, edits>>

-----------------------------------------------------------------------------
EmitStep == \E p \in Emitters :
    \/ \E u \in Users, kind \in Kinds : \E sev \in Severities[kind] : EmitDedupe(p, u, kind, sev)
    \/ EmitCommit(p) \/ EmitLost(p)
    \/ \E c \in Outward : EmitFanOut(p, c)

FlushEnds == filterByMinSeverity \/ FlushEnqueue \/ unlockBack

FlushStep == (\E u \in Users : FlushBegin(u)) \/ LockPendingDigestForUser \/ FlushEnds \/ FlushLost

RunStep == \E j \in 1..MaxJobs : RunLoad(j) \/ RunSend(j) \/ RunMark(j) \/ RunLost(j)

AccountStep == \E u \in Users :
    \/ \E p \in Switches : UpsertPreferences(u, p)
    \/ \E new \in Schedules : UpsertChannelSettings(u, new)
    \/ IssueTelegramLinkToken(u) \/ UnlinkTelegram(u) \/ BotMute(u)
    \/ \E chat \in Chats : BotStart(u, chat)
    \/ \E w \in Hooks : CreateWebhook(u, w) \/ DeleteWebhook(u, w)

TimeStep ==
    \/ \E n \in Notes : DedupeWindowEnds(n)
    \/ \E u \in Users : TelegramTimePasses(u) \/ DigestWindowEnds(u)

Next == EmitStep \/ FlushStep \/ RunStep \/ AccountStep \/ TimeStep
        \/ \E n \in Notes : DeleteNotification(n)

Spec == Init /\ [][Next]_vars

\* The scheduler flushes several times in every hour and is not killed in each of
\* its flushes; hours and windows pass.
FairSpec ==
    /\ Spec
    /\ \A u \in Users : WF_vars(DigestWindowEnds(u))
    /\ \A u \in Users : SF_vars(FlushBegin(u))
    /\ SF_vars(LockPendingDigestForUser) /\ WF_vars(FlushEnds)

-----------------------------------------------------------------------------
(* Properties. *)

\* Deliveries, preferences and jobs have their shape; a delivery exists only
\* while its notification does, and an attempt works on deliveries of its job.
NotifierTypeOK ==
    /\ \A k \in Keys : Row(k) => Live(k[1])
    /\ rows \in [Keys -> Status]
    /\ \A u \in Users : prefs[u] \in [Kinds -> SUBSET Outward]
    /\ \A j \in DOMAIN jobs :
           /\ jobs[j].tries \in 0..MaxAttempts
           /\ jobs[j].stage \in {"idle", "send", "sent", "skipped"}
           /\ jobs[j].keys # {} /\ jobs[j].items \subseteq jobs[j].keys

\* What an INSERT put into a digest that the flush took for not enqueued.
Doubted == {k \in Keys : \E j \in DOMAIN jobs : ~jobs[j].acked /\ k \in jobs[j].keys}

\* A delivery is in one pair of hands at a time: its emitter's, the flush's or
\* one job's.  The flush holds only what it took out of pending_digest, and what
\* waits there is in no job: it goes out in one digest.  Only an INSERT that is
\* reported as failed though it committed can give a delivery to two digests.
\* service.go Emit, digest.go FlushDigests, LockPendingDigestForUser.
ToEmit(p)  == IF emits[p].stage = "fan-out" THEN {emits[p].note} \X emits[p].todo ELSE {}
InFlush    == IF flush.stage \in {"filter", "enqueue", "unlock"} THEN flush.keys ELSE {}
HeldOnce ==
    /\ \A k \in Keys \ Doubted :
           Cardinality({p \in Emitters : k \in ToEmit(p)})
             + Cardinality({j \in DOMAIN jobs : k \in jobs[j].keys})
             + (IF k \in InFlush THEN 1 ELSE 0) <= 1
    /\ \A k \in InFlush \ Doubted : rows[k] \in {"queued_digest", "none"}
    /\ \A j \in DOMAIN jobs : \A k \in jobs[j].keys \ Doubted : rows[k] # "pending_digest"

\* What is written down as sent or skipped goes into no digest again, though an
\* attempt whose worker died, or whose outcome the queue refused, is repeated
\* and flushes go on meanwhile (worker.go ExecuteDigestJob, digestPendingItems).
SettledNotResent ==
    \A j \in DOMAIN jobs :
        jobs[j].kind = "digest" /\ jobs[j].stage # "idle" =>
            \A k \in jobs[j].items \ Doubted : rows[k] \in {"queued_digest", "none"}

\* What waits for a digest is taken up in the end, as long as its account keeps
\* digests switched on: the window closes and every quiet range ends.
DigestsLeave ==
    \A k \in Notes \X {FlushChannel} : \A u \in Users :
        (rows[k] = "pending_digest" /\ k \in OfUser(u))
            ~> (rows[k] # "pending_digest" \/ ~settings[u][FlushChannel].on)
=============================================================================
