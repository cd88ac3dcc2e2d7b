----------------------------- MODULE MCNotifier -----------------------------
(***************************************************************************)
(* One account and two kinds of event, a warning and an error.  The account *)
(* has email digests of the warning, or it has a webhook for the error and a *)
(* Telegram chat (with a token for another) for the warning.               *)
(***************************************************************************)
EXTENDS Notifier

CONSTANTS u1, chat1, hook1, hook2, p1

MCKinds == {"constraint_hit", "scheduled_job_failed"}
MCSwitches == {[kind |-> "constraint_hit", channel |-> "telegram", enabled |-> FALSE]}

MCSchedules ==
    {[channel |-> "email",   on |-> TRUE, min |-> 3, quiet |-> NoVal],
     [channel |-> "telegram", on |-> TRUE, min |-> 1, quiet |-> <<0, 1>>]}

MCProfiles ==
    {[prefs    |-> [constraint_hit |-> defaultPreference("constraint_hit") \cup {"email"},
                    scheduled_job_failed |-> {}],
      settings |-> [c \in Outward |-> IF c = "email"
                       THEN [on |-> TRUE, min |-> 1, quiet |-> <<1, 0>>, due |-> FALSE, sent |-> FALSE]
                       ELSE NoVal],
      link     |-> [chat |-> NoVal, token |-> FALSE, muted |-> FALSE],
      hooks    |-> {}],
     [prefs    |-> [constraint_hit |-> {"telegram"},
                    scheduled_job_failed |-> {"webhook"}],
      settings |-> [c \in Outward |-> NoVal],
      link     |-> [chat |-> chat1, token |-> TRUE, muted |-> FALSE],
      hooks    |-> {hook1}]}

\* Steps that reach no delivery are left out: an event that is switched off, a
\* request that changes nothing or a channel the account does not use, the end of
\* a dedupe window after the last event.  There is one request or one deletion.
Uses(u) == UNION {prefs[u][k] : k \in Kinds}
FewSteps ==
    /\ \A p \in Emitters : emits[p] = NoEmit /\ emits'[p] # NoEmit =>
           prefs[emits'[p].user][emits'[p].kind] # {}
    /\ edits' # edits => account' # [account EXCEPT ![5] = edits']
    /\ \A u \in Users :
           /\ prefs'[u] # prefs[u] => "telegram" \in Uses(u)
           /\ links'[u] # links[u] => "telegram" \in Uses(u)
           /\ hooks'[u] # hooks[u] => "webhook" \in Uses(u)
           /\ \A c \in Outward : settings'[u][c] # settings[u][c] => c \in Uses(u)
    /\ edits' + Cardinality({n \in Notes : notes'[n] # NoVal /\ notes'[n].gone}) <= 1
    /\ Created = MaxNotes => \A n \in Notes : notes[n].recent = notes'[n].recent \/ notes'[n].gone
=============================================================================
