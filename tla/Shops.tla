-------------------------------- MODULE Shops --------------------------------
(***************************************************************************)
(* The table shops and the requests on it: service/shop, shops_pg.go and   *)
(* the tool cmd/credbackfill.  An update and a test of the connection read *)
(* the row first and write later, so other statements fall in between.     *)
(* Names and the flag auto_update_enabled go the way of schedule_cron and  *)
(* are left out; of the credentials only the form is kept, plain (left by  *)
(* migration 000003) or sealed, since a test may go either way with any.   *)
(***************************************************************************)
EXTENDS Integers

CONSTANTS
    ShopIds,      \* identities of shops
    NoVal,        \* NULL, or no row
    Clients,      \* requests that can be under way at once
    DefaultCron,  \* the schedule a shop is created with
    Crons,        \* values of schedule_cron: a period in minutes, or one of:
    ShopPatches,  \* bodies of PATCH requests: functions from changed columns
    Existing      \* rows of shops that may be there at the start

NoCron  == 0      \* the empty string
BadCron == -1     \* a text that the cron parser refuses

ASSUME ShopAssumption ==
    /\ Crons \subseteq Nat \cup {BadCron}
    /\ DefaultCron \in Crons \ {NoCron, BadCron}
    /\ \A p \in ShopPatches :
        /\ DOMAIN p \subseteq {"creds", "cron"}
        /\ "creds" \in DOMAIN p => p["creds"] \in {"plain", "sealed"}
        /\ "cron" \in DOMAIN p => p["cron"] \in Crons
    /\ NoVal \notin Int

VARIABLES
    shop,   \* the rows of shops, or NoVal
    used,   \* identities that have been given to a row
    call    \* what a client's request has read and is about to write

shopVars == <<shop, used, call>>

ShopStatuses == {"draft", "active", "error"}
ShopRow(times) == [status : ShopStatuses, creds : {"plain", "sealed"}, cron : Crons,
                   last : times \cup {NoVal}, created : times]

ASSUME ExistingAssumption == Existing \subseteq ShopRow(Int)

NoCall == [op |-> "none", id |-> NoVal, row |-> NoVal]

ShopsInit ==
    /\ shop \in [ShopIds -> Existing \cup {NoVal}]
    /\ used = {s \in ShopIds : shop[s] # NoVal}
    /\ call = [c \in Clients |-> NoCall]

-----------------------------------------------------------------------------
CreateShop(s, t) ==
    /\ s \notin used
    /\ used' = used \cup {s}
    /\ shop' = [shop EXCEPT ![s] = [status |-> "draft", creds |-> "sealed",
                   cron |-> DefaultCron, last |-> NoVal, created |-> t]]
    /\ UNCHANGED call

\* GetByID, or the listing of the backfill: the request goes on with a copy.
ReadShop(c, op, s, row) ==
    /\ call[c] = NoCall
    /\ shop[s] # NoVal
    /\ call' = [call EXCEPT ![c] = [op |-> op, id |-> s, row |-> row]]
    /\ UNCHANGED <<shop, used>>

\* Update: the patch is applied to the copy.  No check looks at schedule_cron.
BeginUpdate(c, s) ==
    \E p \in ShopPatches : ReadShop(c, "update", s,
        [f \in DOMAIN shop[s] |-> IF f \in DOMAIN p THEN p[f] ELSE shop[s][f]])

\* TestConnection: credentials that do not decrypt end it at once.
BeginTest(c, s) ==
    /\ shop[s] # NoVal => shop[s].creds = "sealed"
    /\ ReadShop(c, "test", s, shop[s])

\* RunBackfill takes up the rows it could not decrypt.
BeginBackfill(c, s) ==
    /\ shop[s] # NoVal => shop[s].creds = "plain"
    /\ ReadShop(c, "backfill", s, shop[s])

\* The columns UPDATE sets from the copy.
Written(row, copy) == [row EXCEPT !.creds = copy.creds, !.cron = copy.cron]

Target(c) == call[c].id

\* A write by id that finds its row, or none.
WriteRow(c, op, new) ==
    /\ call[c].op = op
    /\ shop' = [shop EXCEPT ![Target(c)] = IF @ = NoVal THEN NoVal ELSE new]
    /\ call' = [call EXCEPT ![c] = NoCall]
    /\ UNCHANGED used

WriteUpdate(c) == WriteRow(c, "update", Written(shop[Target(c)], call[c].row))

\* TestAuth, then UpdateStatus whatever has become of the credentials; every
\* error of the marketplace, a limit or an outage included, ends in "error".
WriteStatus(c) == \E st \in {"active", "error"} :
    WriteRow(c, "test", [shop[Target(c)] EXCEPT !.status = st])

WriteSealed(c) ==
    WriteRow(c, "backfill", [shop[Target(c)] EXCEPT !.creds = "sealed"])

\* A statement that fails; the status of a test is then silently kept.
LoseWrite(c) ==
    /\ call[c] # NoCall
    /\ call' = [call EXCEPT ![c] = NoCall]
    /\ UNCHANGED <<shop, used>>

DropShop(s) ==
    /\ shop[s] # NoVal
    /\ shop' = [shop EXCEPT ![s] = NoVal]
    /\ UNCHANGED <<used, call>>

-----------------------------------------------------------------------------
(* What the scheduler asks of the table.                                   *)

\* Active shops with a schedule; auto_update_enabled does not matter.
ListSchedulable ==
    {s \in ShopIds : shop[s] # NoVal /\ shop[s].status = "active"
                                     /\ shop[s].cron # NoCron}

\* Mutant of StillLast: the UPDATE matches on id only.
AnyLast(s, expected) == shop[s] # NoVal

\* The compare-and-set of TouchLastRecalcAt.
StillLast(s, expected) == shop[s] # NoVal /\ shop[s].last = expected

TouchLastRecalcAt(s, dbNow) == shop' = [shop EXCEPT ![s].last = dbNow]
=============================================================================
