--------------------------- MODULE NotifierProofs ----------------------------
(***************************************************************************)
(* Proofs about Notifier: a delivery exists with its notification only, is *)
(* in one pair of hands at a time unless an INSERT said that it failed and *)
(* did not, and is in no further digest once it is settled.                *)
(***************************************************************************)
EXTENDS Notifier, FiniteSetTheorems, SequenceTheorems, TLAPS

-----------------------------------------------------------------------------
(* The inductive invariant.                                                *)

\* The notifications are numbered in the order of their transactions.
NotesInv ==
    /\ notes \in [Notes -> NoteRow \cup {NoVal}]
    /\ Created \in 0..MaxNotes
    /\ \A n \in Notes : notes[n] # NoVal <=> n <= Created

\* Emit knows whom it writes to, and its place among the notifications is kept.
Committing == {p \in Emitters : emits[p].stage = "commit"}

EmitRec == {NoEmit}
    \cup [stage : {"commit"}, user : Users, kind : Kinds, sev : 1..3]
    \cup [stage : {"fan-out"}, user : Users, note : Notes, todo : SUBSET Outward]

EmitInv ==
    /\ emits \in [Emitters -> EmitRec]
    /\ Cardinality(Committing) + Created <= MaxNotes

\* A delivery is a row of a notification that stands.
RowsInv ==
    /\ rows \in [Keys -> Status]
    /\ \A k \in Keys : Row(k) => Live(k[1])
    /\ prefs \in [Users -> [Kinds -> SUBSET Outward]]

JobRec == [kind : {"deliver", "digest"}, user : Users, keys : SUBSET Keys, items : SUBSET Keys,
           tries : 0..MaxAttempts, stage : {"idle", "send", "sent", "skipped"}, acked : BOOLEAN]

JobsInv ==
    /\ jobs \in Seq(JobRec)
    /\ \A j \in DOMAIN jobs : jobs[j].keys # {} /\ jobs[j].items \subseteq jobs[j].keys

FlushInv ==
    /\ flush.stage \in {"idle", "lock", "filter", "enqueue", "unlock"}
    /\ flush.stage = "idle" => flush = NoFlush
    /\ flush.stage # "idle" => {"stage", "user"} \subseteq DOMAIN flush /\ flush.user \in Users
    /\ flush.stage \in {"filter", "enqueue", "unlock"} => "keys" \in DOMAIN flush
    /\ InFlush \subseteq Keys
    /\ flush.stage \in {"filter", "enqueue", "unlock"} => flush.keys # {}

\* What an emitter, the flush and the jobs hold, by its status, and apart.
Held(k) == notes[k[1]] # NoVal

HandsInv ==
    /\ \A p \in Emitters : emits[p].stage = "fan-out" =>
        /\ notes[emits[p].note] # NoVal
        /\ \A q \in Emitters \ {p} :
               emits[q].stage = "fan-out" => emits[q].note # emits[p].note
    /\ \A p \in Emitters : \A k \in ToEmit(p) :
        /\ rows[k] \in {"pending", "none"} /\ k \notin InFlush
        /\ \A j \in DOMAIN jobs : k \notin jobs[j].keys
    /\ \A k \in InFlush : Held(k)
    /\ \A k \in InFlush \ Doubted :
        /\ rows[k] \in {"queued_digest", "none"}
        /\ \A j \in DOMAIN jobs : k \notin jobs[j].keys
    /\ \A j \in DOMAIN jobs : \A k \in jobs[j].keys : Held(k)
    /\ \A j \in DOMAIN jobs : \A k \in jobs[j].keys \ Doubted :
        /\ rows[k] # "pending_digest"
        /\ jobs[j].kind = "digest" => rows[k] # "pending"
        /\ \A i \in DOMAIN jobs \ {j} : k \notin jobs[i].keys

NotifierInv ==
    /\ NotesInv /\ EmitInv /\ RowsInv /\ JobsInv /\ FlushInv /\ HandsInv
    /\ SettledNotResent

-----------------------------------------------------------------------------
(* Facts the steps share.                                                  *)

LEMMA SeveritiesKnown == \A kind \in Kinds : Severities[kind] \subseteq 1..3
BY NotifierAssumption DEF NotifierAssumption, Severities

\* The statuses an update leaves: its own on the rows it names and finds.
LEMMA Updated ==
    ASSUME NEW ks, NEW status \in Status \ {"none"}, RowsInv, UpdateStatus(ks, status)
    PROVE  /\ rows' \in [Keys -> Status]
           /\ \A k \in Keys : \/ rows'[k] = rows[k]
                              \/ k \in ks /\ rows[k] # "none" /\ rows'[k] = status
           /\ \A k \in Keys : rows'[k] = "none" <=> rows[k] = "none"
BY DEF RowsInv, UpdateStatus, Row, Status

\* Without a new notification, the numbering stands.
LEMMA NotesKept ==
    ASSUME NotesInv, UNCHANGED notes
    PROVE  NotesInv'
BY DEF NotesInv, Created

LEMMA EmitsKept ==
    ASSUME EmitInv, UNCHANGED <<notes, emits>>
    PROVE  EmitInv'
BY DEF EmitInv, Committing, Created

\* Emitters under way are finitely many.
LEMMA CommittingFinite == IsFiniteSet(Committing)
BY NotifierAssumption, FS_Subset DEF NotifierAssumption, Committing

LEMMA RowsKept ==
    ASSUME RowsInv, UNCHANGED <<notes, prefs>>, rows' \in [Keys -> Status],
           \A k \in Keys : rows'[k] = "none" <=> rows[k] = "none"
    PROVE  RowsInv'
BY DEF RowsInv, Row, Live

LEMMA JobTyped ==
    ASSUME JobsInv, NEW j \in DOMAIN jobs
    PROVE  jobs[j] \in JobRec
<1>1. DOMAIN jobs = 1..Len(jobs)
    BY LenProperties DEF JobsInv
<1> QED  BY <1>1, ElementOfSeq DEF JobsInv

\* The jobs stay what they are, whatever their attempts do.
SameJobs ==
    /\ DOMAIN jobs' = DOMAIN jobs
    /\ \A j \in DOMAIN jobs : /\ jobs'[j].kind = jobs[j].kind /\ jobs'[j].keys = jobs[j].keys
                              /\ jobs'[j].acked = jobs[j].acked

OneMoreJob(kind, ks, acked) ==
    LET l == Len(jobs) + 1 IN
    /\ DOMAIN jobs' = DOMAIN jobs \cup {l} /\ l \notin DOMAIN jobs
    /\ \A j \in DOMAIN jobs : jobs'[j] = jobs[j]
    /\ jobs'[l].kind = kind /\ jobs'[l].keys = ks /\ jobs'[l].acked = acked
    /\ jobs'[l].stage = "idle"

\* One row of background_jobs changes and keeps its kind and its keys.
LEMMA JobChanged ==
    ASSUME JobsInv, NEW j \in DOMAIN jobs, NEW row \in JobRec,
           jobs' = [jobs EXCEPT ![j] = row], row.keys = jobs[j].keys, row.items \subseteq row.keys,
           row.kind = jobs[j].kind, row.acked = jobs[j].acked
    PROVE  /\ JobsInv' /\ SameJobs
           /\ jobs'[j] = row /\ \A i \in DOMAIN jobs \ {j} : jobs'[i] = jobs[i]
<1>1. jobs' \in Seq(JobRec)
    BY ExceptSeq, ElementOfSeq DEF JobsInv
<1> QED  BY <1>1 DEF JobsInv, SameJobs

\* One job more, at the end of the table.
LEMMA JobAdded ==
    ASSUME JobsInv, NEW kind \in {"deliver", "digest"}, NEW u \in Users,
           NEW ks \in SUBSET Keys, ks # {}, NEW acked \in BOOLEAN, Enqueue(kind, u, ks, acked)
    PROVE  /\ JobsInv'
           /\ OneMoreJob(kind, ks, acked)
<1> DEFINE row == [kind |-> kind, user |-> u, keys |-> ks, items |-> {}, tries |-> 0,
                   stage |-> "idle", acked |-> acked]
<1>1. row \in JobRec
    BY NotifierAssumption DEF JobRec, NotifierAssumption
<1>2. /\ row.keys = ks /\ row.items = {} /\ row.kind = kind /\ row.acked = acked
      /\ row.stage = "idle"
    OBVIOUS
<1>3. jobs' = Append(jobs, row)
    BY DEF Enqueue
<1> HIDE DEF row
<1>4. /\ jobs' \in Seq(JobRec) /\ Len(jobs') = Len(jobs) + 1
      /\ \A j \in 1..Len(jobs) : jobs'[j] = jobs[j]
      /\ jobs'[Len(jobs) + 1] = row
    BY <1>1, <1>3, AppendProperties DEF JobsInv
<1>5. DOMAIN jobs = 1..Len(jobs) /\ DOMAIN jobs' = 1..Len(jobs') /\ Len(jobs) \in Nat
    BY <1>4, LenProperties DEF JobsInv
<1>6. DOMAIN jobs' = DOMAIN jobs \cup {Len(jobs) + 1} /\ Len(jobs) + 1 \notin DOMAIN jobs
    BY <1>4, <1>5
<1>7. \A j \in DOMAIN jobs : jobs'[j] = jobs[j]
    BY <1>4, <1>5
<1>8. (\A j \in DOMAIN jobs : jobs[j].keys # {} /\ jobs[j].items \subseteq jobs[j].keys)'
    BY <1>2, <1>4, <1>6, <1>7 DEF JobsInv
<1>9. JobsInv'
    BY <1>4, <1>8 DEF JobsInv
<1> QED  BY <1>2, <1>4, <1>6, <1>7, <1>9 DEF OneMoreJob

LEMMA SameDoubts ==
    ASSUME SameJobs
    PROVE  Doubted' = Doubted
BY DEF SameJobs, Doubted

\* Hands that only let go: nothing is held that was not, and what is held keeps
\* a status that fits.
LEMMA HandsKept ==
    ASSUME HandsInv, EmitInv, JobsInv, SameJobs,
           \A n \in Notes : notes[n] # NoVal => notes'[n] # NoVal,
           \A p \in Emitters :
               /\ ToEmit(p)' \subseteq ToEmit(p)
               /\ emits'[p].stage = "fan-out" =>
                      emits[p].stage = "fan-out" /\ emits'[p].note = emits[p].note,
           InFlush' \subseteq InFlush,
           \A p \in Emitters : \A k \in ToEmit(p) : rows'[k] \in {"pending", "none"},
           \A k \in InFlush' \ Doubted : rows'[k] \in {"queued_digest", "none"},
           \A j \in DOMAIN jobs : \A k \in jobs[j].keys \ Doubted :
               /\ rows'[k] # "pending_digest"
               /\ jobs[j].kind = "digest" => rows'[k] # "pending",
           InFlush \subseteq Keys
    PROVE  HandsInv'
<1>1. \A j \in DOMAIN jobs : jobs[j].keys \subseteq Keys
    BY JobTyped DEF JobRec
<1>2. \A k \in Keys : Held(k) => Held(k)'
    BY DEF Held, Keys
<1>3. \A p \in Emitters : emits[p].stage = "fan-out" => emits[p].note \in Notes
    BY DEF EmitInv, EmitRec, NoEmit
<1>4. Doubted' = Doubted
    BY SameDoubts
<1>5. (\A p \in Emitters : emits[p].stage = "fan-out" =>
          /\ notes[emits[p].note] # NoVal
          /\ \A q \in Emitters \ {p} :
                 emits[q].stage = "fan-out" => emits[q].note # emits[p].note)'
    BY <1>3 DEF HandsInv
<1>6. (\A p \in Emitters : \A k \in ToEmit(p) :
          /\ rows[k] \in {"pending", "none"} /\ k \notin InFlush
          /\ \A j \in DOMAIN jobs : k \notin jobs[j].keys)'
    BY DEF HandsInv, SameJobs
<1>7. (/\ \A k \in InFlush : Held(k)
       /\ \A j \in DOMAIN jobs : \A k \in jobs[j].keys : Held(k))'
    BY <1>1, <1>2 DEF HandsInv, SameJobs
<1>8. (\A k \in InFlush \ Doubted :
          /\ rows[k] \in {"queued_digest", "none"}
          /\ \A j \in DOMAIN jobs : k \notin jobs[j].keys)'
    BY <1>4 DEF HandsInv, SameJobs
<1>9. (\A j \in DOMAIN jobs : \A k \in jobs[j].keys \ Doubted :
          /\ rows[k] # "pending_digest"
          /\ jobs[j].kind = "digest" => rows[k] # "pending"
          /\ \A i \in DOMAIN jobs \ {j} : k \notin jobs[i].keys)'
    BY <1>4 DEF HandsInv, SameJobs
<1> QED  BY <1>5, <1>6, <1>7, <1>8, <1>9 DEF HandsInv

\* Deliveries pass from hands that let go of them to one new job; those of an
\* INSERT that is doubted stay in the hands of the flush as well.
LEMMA HandsPass ==
    ASSUME HandsInv, EmitInv, JobsInv, SettledNotResent, UNCHANGED <<notes, rows>>,
           \A p \in Emitters :
               /\ ToEmit(p)' \subseteq ToEmit(p)
               /\ emits'[p].stage = "fan-out" =>
                      emits[p].stage = "fan-out" /\ emits'[p].note = emits[p].note,
           InFlush' \subseteq InFlush,
           NEW ks \in SUBSET Keys, NEW kind, NEW acked \in BOOLEAN, OneMoreJob(kind, ks, acked),
           \A k \in ks : Held(k) /\ \A p \in Emitters : k \notin ToEmit(p)',
           acked => \A k \in ks \ Doubted :
               /\ rows[k] # "pending_digest" /\ k \notin InFlush'
               /\ kind = "digest" => rows[k] # "pending"
               /\ \A j \in DOMAIN jobs : k \notin jobs[j].keys
    PROVE  HandsInv' /\ SettledNotResent'
<1> DEFINE l == Len(jobs) + 1
<1>1. /\ DOMAIN jobs' = DOMAIN jobs \cup {l} /\ l \notin DOMAIN jobs
      /\ \A j \in DOMAIN jobs : jobs'[j] = jobs[j]
      /\ jobs'[l].kind = kind /\ jobs'[l].keys = ks /\ jobs'[l].acked = acked
      /\ jobs'[l].stage = "idle"
    BY DEF OneMoreJob
<1> HIDE DEF l
<1>2. \A k : Held(k)' <=> Held(k)
    BY DEF Held
<1>3. Doubted \subseteq Doubted' /\ (~acked => ks \subseteq Doubted')
    BY <1>1 DEF Doubted
<1>4. (\A p \in Emitters : emits[p].stage = "fan-out" =>
          /\ notes[emits[p].note] # NoVal
          /\ \A q \in Emitters \ {p} :
                 emits[q].stage = "fan-out" => emits[q].note # emits[p].note)'
    BY DEF HandsInv
<1>5. (\A p \in Emitters : \A k \in ToEmit(p) :
          /\ rows[k] \in {"pending", "none"} /\ k \notin InFlush
          /\ \A j \in DOMAIN jobs : k \notin jobs[j].keys)'
    BY <1>1 DEF HandsInv
<1>6. (/\ \A k \in InFlush : Held(k)
       /\ \A j \in DOMAIN jobs : \A k \in jobs[j].keys : Held(k))'
    BY <1>1, <1>2 DEF HandsInv
<1>7. (\A k \in InFlush \ Doubted :
          /\ rows[k] \in {"queued_digest", "none"}
          /\ \A j \in DOMAIN jobs : k \notin jobs[j].keys)'
    BY <1>1, <1>3 DEF HandsInv
<1>8. (\A j \in DOMAIN jobs : \A k \in jobs[j].keys \ Doubted :
          /\ rows[k] # "pending_digest"
          /\ jobs[j].kind = "digest" => rows[k] # "pending"
          /\ \A i \in DOMAIN jobs \ {j} : k \notin jobs[i].keys)'
  <2>1. ASSUME NEW k \in ks, k \notin Doubted'
        PROVE  /\ rows[k] # "pending_digest"
               /\ kind = "digest" => rows[k] # "pending"
               /\ \A j \in DOMAIN jobs : k \notin jobs[j].keys
      BY <1>3, <2>1
  <2> QED  BY <1>1, <1>3, <2>1 DEF HandsInv
<1>9. SettledNotResent'
    BY <1>1, <1>3 DEF SettledNotResent
<1> QED  BY <1>4, <1>5, <1>6, <1>7, <1>8, <1>9 DEF HandsInv

-----------------------------------------------------------------------------
(* The emitters.                                                           *)

LEMMA Initially == Init => NotifierInv
<1> SUFFICES ASSUME Init PROVE NotifierInv
    OBVIOUS
<1>1. NotesInv
  <2>1. {n \in Notes : notes[n] # NoVal} = {}
      BY DEF Init
  <2>2. Created = 0
      BY <2>1, FS_EmptySet DEF Created
  <2> QED  BY <2>1, <2>2, NotifierAssumption DEF NotesInv, Init, Notes, NotifierAssumption
<1>2. EmitInv
  <2>1. Committing = {}
      BY DEF Init, Committing, NoEmit
  <2>2. Cardinality(Committing) = 0
      BY <2>1, FS_EmptySet
  <2> QED  BY <1>1, <2>1, <2>2, NotifierAssumption DEF EmitInv, Init, EmitRec, NotesInv, NotifierAssumption
<1>3. RowsInv
  <2> PICK had \in [Users -> Profiles] : prefs = [u \in Users |-> had[u].prefs]
      BY DEF Init
  <2> QED  BY AccountAssumption DEF RowsInv, Init, Row, Status, AccountAssumption
<1>4. JobsInv /\ jobs = <<>>
    BY EmptySeq DEF Init, JobsInv
<1>5. FlushInv /\ InFlush = {}
    BY DEF Init, FlushInv, NoFlush, InFlush
<1>6. \A p \in Emitters : emits[p].stage = "idle"
    BY DEF Init, NoEmit
<1>7. HandsInv
    BY <1>4, <1>5, <1>6 DEF HandsInv, ToEmit
<1>8. SettledNotResent
    BY <1>4 DEF SettledNotResent
<1> QED  BY <1>1, <1>2, <1>3, <1>4, <1>5, <1>7, <1>8 DEF NotifierInv

LEMMA DedupeKeeps ==
    ASSUME NotifierInv, NEW p \in Emitters, NEW u \in Users, NEW kind \in Kinds,
           NEW sev \in Severities[kind], EmitDedupe(p, u, kind, sev)
    PROVE  NotifierInv'
<1> USE DEF NotifierInv
<1> DEFINE e == [stage |-> "commit", user |-> u, kind |-> kind, sev |-> sev]
<1>2. /\ emits[p] = NoEmit /\ UNCHANGED <<table, account, flush, jobs>>
      /\ Cardinality(Committing) + Created < MaxNotes
    BY DEF EmitDedupe, Committing
<1>5. e \in EmitRec
    BY SeveritiesKnown DEF EmitRec
<1>6. e.stage = "commit" /\ e.user = u /\ e.kind = kind
    OBVIOUS
<1>7. emits' = [emits EXCEPT ![p] = e]
    BY DEF EmitDedupe
<1> HIDE DEF e
<1>8. emits'[p] = e /\ \A q \in Emitters \ {p} : emits'[q] = emits[q]
    BY <1>7 DEF EmitInv
<1>9. EmitInv'
  <2>1. Committing' = Committing \cup {p} /\ p \notin Committing
      BY <1>2, <1>6, <1>8 DEF Committing, NoEmit
  <2>2. Cardinality(Committing') = Cardinality(Committing) + 1
      BY <2>1, CommittingFinite, FS_AddElement
  <2>3. Created' = Created
      BY <1>2 DEF Created, table
  <2>4. Cardinality(Committing)' + Created' <= MaxNotes
    <3>1. Cardinality(Committing) \in Nat
        BY CommittingFinite, FS_CardinalityType
    <3> QED  BY <1>2, <2>2, <2>3, <3>1, NotifierAssumption DEF NotesInv, NotifierAssumption
  <2>5. emits' \in [Emitters -> EmitRec]
      BY <1>5, <1>7 DEF EmitInv
  <2> QED  BY <2>4, <2>5 DEF EmitInv
<1>10. HandsInv'
  <2>1. \A q \in Emitters : /\ ToEmit(q)' \subseteq ToEmit(q)
                            /\ emits'[q].stage = "fan-out" =>
                                 emits[q].stage = "fan-out" /\ emits'[q].note = emits[q].note
      BY <1>6, <1>8 DEF ToEmit
  <2>2. InFlush' = InFlush
      BY <1>2 DEF InFlush
  <2> QED  BY <1>2, <2>1, <2>2, HandsKept DEF HandsInv, table, FlushInv, SameJobs
<1>11. NotesInv' /\ SettledNotResent'
    BY <1>2, NotesKept DEF table, SettledNotResent, Doubted
<1>12. RowsInv' /\ JobsInv' /\ FlushInv'
    BY <1>2 DEF RowsInv, JobsInv, FlushInv, table, account, Row, Live, InFlush
<1> QED  BY <1>9, <1>10, <1>11, <1>12

LEMMA PlannedStatuses ==
    \A u, c, sev : PlannedStatus(u, c, sev) \in {"skipped", "pending_digest", "pending"}
BY DEF PlannedStatus

LEMMA CommitKeeps ==
    ASSUME NotifierInv, NEW p \in Emitters, EmitCommit(p)
    PROVE  NotifierInv'
<1> USE DEF NotifierInv
<1> DEFINE n == Created + 1
           e == emits[p]
           plan == [c \in prefs[e.user][e.kind] |-> PlannedStatus(e.user, c, e.sev)]
           todo == {c \in DOMAIN plan : plan[c] = "pending"}
           note == [user |-> e.user, kind |-> e.kind, sev |-> e.sev,
                    recent |-> e.kind \in Deduped, gone |-> FALSE]
           next == IF todo = {} THEN NoEmit
                   ELSE [stage |-> "fan-out", user |-> e.user, note |-> n, todo |-> todo]
<1>1. /\ e.stage = "commit"
      /\ notes' = [notes EXCEPT ![n] = note]
      /\ rows' = [k \in Keys |-> IF k[1] = n /\ k[2] \in DOMAIN plan
                                 THEN plan[k[2]] ELSE rows[k]]
      /\ emits' = [emits EXCEPT ![p] = next]
      /\ UNCHANGED <<account, flush, jobs>>
    BY DEF EmitCommit
<1>2. e \in [stage : {"commit"}, user : Users, kind : Kinds, sev : 1..3]
    BY <1>1 DEF EmitInv, EmitRec, NoEmit
<1>3. DOMAIN plan \subseteq Outward /\ todo \subseteq Outward
    BY <1>2 DEF RowsInv
<1>4. \A c \in DOMAIN plan : plan[c] \in {"skipped", "pending_digest", "pending"}
    BY PlannedStatuses
<1>5. n \in Notes /\ Created \in Nat /\ notes[n] = NoVal
  <2>1. p \in Committing
      BY <1>1 DEF Committing
  <2>2. Cardinality(Committing) >= 1
    <3> DEFINE rest == Committing \ {p}
    <3>1. IsFiniteSet(rest) /\ Cardinality(rest) = Cardinality(Committing) - 1
        BY <2>1, CommittingFinite, FS_RemoveElement
    <3>2. Cardinality(rest) \in Nat /\ Cardinality(Committing) \in Nat
        BY <3>1, CommittingFinite, FS_CardinalityType
    <3> HIDE DEF rest
    <3> QED  BY <3>1, <3>2
  <2>3. Cardinality(Committing) \in Nat
      BY CommittingFinite, FS_CardinalityType
  <2>4. Created \in 0..MaxNotes /\ Cardinality(Committing) + Created <= MaxNotes
      BY DEF NotesInv, EmitInv
  <2>5. Created \in Nat /\ n \in Notes /\ ~(n <= Created)
      BY <2>2, <2>3, <2>4, NotifierAssumption DEF Notes, NotifierAssumption
  <2> QED  BY <2>5 DEF NotesInv
<1>6. note \in NoteRow
    BY <1>2 DEF NoteRow
<1>7. ~note.gone
    OBVIOUS
<1>8. next \in EmitRec /\ next.stage # "commit"
    BY <1>2, <1>3, <1>5 DEF EmitRec, NoEmit
<1>9. next.stage = "fan-out" => next.note = n /\ next.todo = todo
    BY DEF NoEmit
<1>10. \A c \in todo : c \in DOMAIN plan /\ plan[c] = "pending"
    OBVIOUS
<1> HIDE DEF note, next, plan, todo
<1>11. /\ notes'[n] = note /\ \A m \in Notes \ {n} : notes'[m] = notes[m]
       /\ notes' \in [Notes -> NoteRow \cup {NoVal}] /\ note # NoVal
    BY <1>1, <1>5, <1>6, AccountAssumption DEF NotesInv, AccountAssumption
<1>12. emits'[p] = next /\ \A q \in Emitters \ {p} : emits'[q] = emits[q]
    BY <1>1 DEF EmitInv
<1>13. /\ \A k \in Keys : k[1] # n => rows'[k] = rows[k]
       /\ \A k \in Keys : k[1] = n /\ k[2] \in todo => rows'[k] = "pending"
       /\ rows' \in [Keys -> Status]
    BY <1>1, <1>4, <1>10 DEF RowsInv, Status
<1>14. Created' = n /\ \A m \in Notes : notes'[m] # NoVal <=> m <= n
  <2>1. \A m \in Notes : m \in Int /\ (m <= Created <=> m <= n /\ m # n)
      BY <1>5 DEF Notes
  <2>2. \A m \in Notes : notes'[m] # NoVal <=> m <= n
      BY <1>5, <1>11, <2>1 DEF NotesInv
  <2>3. {m \in Notes : notes'[m] # NoVal} = 1..n
      BY <1>5, <2>2, NotifierAssumption DEF Notes, NotifierAssumption
  <2>4. Cardinality(1..n) = n
      BY <1>5, FS_Interval
  <2> QED  BY <2>2, <2>3, <2>4 DEF Created
<1>15. NotesInv'
    BY <1>5, <1>11, <1>14, NotifierAssumption DEF NotesInv, Notes, NotifierAssumption
<1>16. \A m \in Notes : notes[m] # NoVal => m # n
    BY <1>5
<1>17. EmitInv'
  <2>1. Committing' = Committing \ {p} /\ p \in Committing
      BY <1>1, <1>8, <1>12 DEF Committing
  <2>2. Cardinality(Committing') = Cardinality(Committing) - 1
      BY <2>1, CommittingFinite, FS_RemoveElement
  <2>3. Cardinality(Committing)' + Created' <= MaxNotes
    <3>1. Cardinality(Committing) \in Nat
        BY CommittingFinite, FS_CardinalityType
    <3>2. Cardinality(Committing) + Created <= MaxNotes
        BY DEF EmitInv
    <3> QED  BY <1>5, <1>14, <2>2, <3>1, <3>2, NotifierAssumption DEF NotifierAssumption
  <2>4. emits' \in [Emitters -> EmitRec]
      BY <1>1, <1>8 DEF EmitInv
  <2> QED  BY <2>3, <2>4 DEF EmitInv
<1>18. RowsInv'
  <2>1. \A k \in Keys : Row(k)' => Live(k[1])'
    <3> SUFFICES ASSUME NEW k \in Keys, Row(k)' PROVE Live(k[1])'
        OBVIOUS
    <3>1. CASE k[1] = n
        BY <1>7, <1>11, <3>1 DEF Live
    <3>2. CASE k[1] # n
        BY <1>11, <1>13, <3>2 DEF Live, Row, RowsInv, Keys
    <3> QED  BY <3>1, <3>2
  <2> QED  BY <1>1, <1>13, <2>1 DEF RowsInv, account
<1>19. JobsInv' /\ FlushInv'
    BY <1>1 DEF JobsInv, FlushInv, InFlush
<1>20. HandsInv'
  <2>1. \A k \in Keys : Held(k) => k[1] # n /\ rows'[k] = rows[k] /\ Held(k)'
      BY <1>11, <1>13, <1>16 DEF Held, Keys
  <2>2. \A j \in DOMAIN jobs : jobs[j].keys \subseteq Keys
      BY JobTyped DEF JobRec
  <2>3. InFlush' = InFlush /\ jobs' = jobs /\ InFlush \subseteq Keys
      BY <1>1 DEF InFlush, FlushInv
  <2>4. \A q \in Emitters \ {p} : ToEmit(q)' = ToEmit(q)
      BY <1>12 DEF ToEmit
  <2>5. \A q \in Emitters : emits[q].stage = "fan-out" =>
            emits[q].note \in Notes /\ notes[emits[q].note] # NoVal /\ emits[q].todo \subseteq Outward
      BY DEF HandsInv, EmitInv, EmitRec, NoEmit
  <2>6. \A q \in Emitters : \A k \in ToEmit(q) : k \in Keys /\ Held(k)
      BY <2>5 DEF ToEmit, Keys, Held
  <2>7. \A k \in ToEmit(p)' : k \in Keys /\ k[1] = n /\ rows'[k] = "pending"
      BY <1>3, <1>5, <1>9, <1>12, <1>13 DEF ToEmit, Keys
  <2>8. (\A q \in Emitters : emits[q].stage = "fan-out" =>
            /\ notes[emits[q].note] # NoVal
            /\ \A r \in Emitters \ {q} :
                   emits[r].stage = "fan-out" => emits[r].note # emits[q].note)'
      BY <1>9, <1>11, <1>12, <1>16, <2>5 DEF HandsInv
  <2>9. (\A q \in Emitters : \A k \in ToEmit(q) :
            /\ rows[k] \in {"pending", "none"} /\ k \notin InFlush
            /\ \A j \in DOMAIN jobs : k \notin jobs[j].keys)'
      BY <2>1, <2>2, <2>3, <2>4, <2>6, <2>7 DEF HandsInv
  <2>10. Doubted' = Doubted
      BY <2>3 DEF Doubted
  <2>11. (/\ \A k \in InFlush : Held(k)
          /\ \A j \in DOMAIN jobs : \A k \in jobs[j].keys : Held(k))'
      BY <2>1, <2>2, <2>3 DEF HandsInv
  <2>12. (\A k \in InFlush \ Doubted :
            /\ rows[k] \in {"queued_digest", "none"}
            /\ \A j \in DOMAIN jobs : k \notin jobs[j].keys)'
      BY <2>1, <2>3, <2>10 DEF HandsInv
  <2>13. (\A j \in DOMAIN jobs : \A k \in jobs[j].keys \ Doubted :
            /\ rows[k] # "pending_digest"
            /\ jobs[j].kind = "digest" => rows[k] # "pending"
            /\ \A i \in DOMAIN jobs \ {j} : k \notin jobs[i].keys)'
      BY <2>1, <2>2, <2>3, <2>10 DEF HandsInv
  <2> QED  BY <2>8, <2>9, <2>11, <2>12, <2>13 DEF HandsInv
<1>21. SettledNotResent'
  <2>1. jobs' = jobs /\ Doubted' = Doubted
      BY <1>1 DEF Doubted
  <2>2. \A j \in DOMAIN jobs : \A k \in jobs[j].items : k \in Keys /\ Held(k)
      BY JobTyped DEF JobsInv, JobRec, HandsInv
  <2>3. \A k \in Keys : Held(k) => rows'[k] = rows[k]
      BY <1>13, <1>16 DEF Held, Keys
  <2> QED  BY <2>1, <2>2, <2>3 DEF SettledNotResent
<1> QED  BY <1>15, <1>17, <1>18, <1>19, <1>20, <1>21

LEMMA FanOutKeeps ==
    ASSUME NotifierInv, NEW p \in Emitters, NEW c \in Outward, EmitFanOut(p, c)
    PROVE  NotifierInv'
<1> USE DEF NotifierInv
<1> DEFINE e == emits[p]
           rest == [e EXCEPT !.todo = @ \ {c}]
           next == IF e.todo = {c} THEN NoEmit ELSE rest
<1>1. /\ e.stage = "fan-out" /\ c \in e.todo
      /\ emits' = [emits EXCEPT ![p] = next]
      /\ UNCHANGED <<table, account, flush>>
    BY DEF EmitFanOut, Handled
<1>2. e \in [stage : {"fan-out"}, user : Users, note : Notes, todo : SUBSET Outward]
    BY <1>1 DEF EmitInv, EmitRec, NoEmit
<1>3. /\ rest \in [stage : {"fan-out"}, user : Users, note : Notes, todo : SUBSET Outward]
      /\ rest.note = e.note /\ rest.todo = e.todo \ {c}
    BY <1>2
<1> HIDE DEF rest
<1>4. /\ next \in EmitRec /\ next.stage # "commit"
      /\ next.stage = "fan-out" => next.note = e.note /\ next.todo = e.todo \ {c}
    BY <1>3 DEF EmitRec, NoEmit
<1> HIDE DEF next
<1>5. emits'[p] = next /\ \A q \in Emitters \ {p} : emits'[q] = emits[q]
    BY <1>1 DEF EmitInv
<1>6. NotesInv'
    BY <1>1, NotesKept DEF table
<1>7. RowsInv' /\ FlushInv'
    BY <1>1 DEF RowsInv, FlushInv, table, account, Row, Live, InFlush
<1>8. EmitInv'
  <2>1. Committing' = Committing
      BY <1>1, <1>4, <1>5 DEF Committing
  <2>2. emits' \in [Emitters -> EmitRec]
      BY <1>1, <1>4 DEF EmitInv
  <2> QED  BY <1>1, <2>1, <2>2 DEF EmitInv, Created, table
<1>9. \A q \in Emitters :
        /\ ToEmit(q)' \subseteq ToEmit(q)
        /\ emits'[q].stage = "fan-out" =>
               emits[q].stage = "fan-out" /\ emits'[q].note = emits[q].note
    BY <1>1, <1>4, <1>5 DEF ToEmit
<1>10. InFlush' = InFlush /\ InFlush \subseteq Keys
    BY <1>1 DEF InFlush, FlushInv
<1> DEFINE k == <<e.note, c>>
<1>11. k \in Keys /\ k \in ToEmit(p) /\ Held(k)
    BY <1>1, <1>2 DEF Keys, ToEmit, Held, HandsInv
<1>12. \A q \in Emitters : k \notin ToEmit(q)'
    BY <1>1, <1>2, <1>4, <1>5, <1>9 DEF ToEmit, HandsInv
<1>13. CASE Enqueue("deliver", e.user, {k}, TRUE)
  <2>1. PICK u \in Users : Enqueue("deliver", u, {k}, TRUE)
      BY <1>2, <1>13
  <2> HIDE DEF k, e
  <2>2. {k} \in SUBSET Keys /\ {k} # {}
      BY <1>11
  <2>3. JobsInv' /\ OneMoreJob("deliver", {k}, TRUE)
      BY <2>1, <2>2, JobAdded
  <2>4. \A x \in {k} :
            /\ Held(x) /\ rows[x] # "pending_digest" /\ x \notin InFlush'
            /\ \A q \in Emitters : x \notin ToEmit(q)'
            /\ \A j \in DOMAIN jobs : x \notin jobs[j].keys
      BY <1>10, <1>11, <1>12 DEF HandsInv
  <2>5. HandsInv' /\ SettledNotResent'
    <3>1. UNCHANGED <<notes, rows>> /\ InFlush' \subseteq InFlush
        BY <1>1, <1>10 DEF table
    <3> QED  BY <1>9, <2>2, <2>3, <2>4, <3>1, HandsPass DEF e
  <2> QED  BY <1>6, <1>7, <1>8, <2>3, <2>5
<1>14. CASE UNCHANGED jobs
  <2>1. JobsInv' /\ SettledNotResent'
      BY <1>1, <1>14 DEF JobsInv, SettledNotResent, Doubted, table
  <2>2. HandsInv'
      BY <1>1, <1>9, <1>10, <1>14, HandsKept DEF table, HandsInv, SameJobs
  <2> QED  BY <1>6, <1>7, <1>8, <2>1, <2>2
<1> QED  BY <1>13, <1>14 DEF EmitFanOut

LEMMA EmitLostKeeps ==
    ASSUME NotifierInv, NEW p \in Emitters, EmitLost(p)
    PROVE  NotifierInv'
<1> USE DEF NotifierInv
<1>1. /\ emits' = [emits EXCEPT ![p] = NoEmit]
      /\ UNCHANGED <<table, account, flush, jobs>>
    BY DEF EmitLost
<1>2. emits'[p] = NoEmit /\ \A q \in Emitters \ {p} : emits'[q] = emits[q]
    BY <1>1 DEF EmitInv
<1>3. NotesInv' /\ SettledNotResent'
    BY <1>1, NotesKept DEF table, SettledNotResent, Doubted
<1>4. RowsInv' /\ FlushInv' /\ JobsInv'
    BY <1>1 DEF RowsInv, FlushInv, JobsInv, table, account, Row, Live, InFlush
<1>5. EmitInv'
  <2>1. Committing' \subseteq Committing
      BY <1>2 DEF Committing, NoEmit
  <2>2. Cardinality(Committing') <= Cardinality(Committing)
      BY <2>1, CommittingFinite, FS_Subset
  <2>3. Created' = Created
      BY <1>1 DEF Created, table
  <2>4. Cardinality(Committing)' + Created' <= MaxNotes
    <3>1. Cardinality(Committing) \in Nat /\ Cardinality(Committing') \in Nat
        BY <2>1, CommittingFinite, FS_CardinalityType, FS_Subset
    <3> QED  BY <2>2, <2>3, <3>1, NotifierAssumption DEF NotesInv, EmitInv, NotifierAssumption
  <2>5. emits' \in [Emitters -> EmitRec]
      BY <1>1 DEF EmitInv, EmitRec
  <2> QED  BY <2>4, <2>5 DEF EmitInv
<1>6. HandsInv'
  <2>1. \A q \in Emitters : /\ ToEmit(q)' \subseteq ToEmit(q)
                            /\ emits'[q].stage = "fan-out" =>
                                 emits[q].stage = "fan-out" /\ emits'[q].note = emits[q].note
      BY <1>2 DEF ToEmit, NoEmit
  <2>2. InFlush' = InFlush
      BY <1>1 DEF InFlush
  <2> QED  BY <1>1, <2>1, <2>2, HandsKept DEF HandsInv, table, FlushInv, SameJobs
<1> QED  BY <1>3, <1>4, <1>5, <1>6

-----------------------------------------------------------------------------
(* The flush.                                                              *)

\* What no flush and no job disturbs.
LEMMA EmittersRest ==
    ASSUME NotifierInv, UNCHANGED <<notes, emits>>
    PROVE  /\ NotesInv' /\ EmitInv'
           /\ \A n \in Notes : notes[n] # NoVal => notes'[n] # NoVal
           /\ \A p \in Emitters :
                  /\ ToEmit(p)' = ToEmit(p)
                  /\ emits'[p].stage = "fan-out" =>
                         emits[p].stage = "fan-out" /\ emits'[p].note = emits[p].note
           /\ \A k : Held(k)' <=> Held(k)
BY NotesKept, EmitsKept DEF NotifierInv, ToEmit, Held

\* What is under way belongs to a delivery.
LEMMA HeldKeys ==
    ASSUME NotifierInv
    PROVE  /\ \A p \in Emitters : ToEmit(p) \subseteq Keys
           /\ InFlush \subseteq Keys
           /\ \A j \in DOMAIN jobs : jobs[j].keys \subseteq Keys
<1>1. \A p \in Emitters : ToEmit(p) \subseteq Keys
    BY DEF NotifierInv, EmitInv, EmitRec, NoEmit, ToEmit, Keys
<1>2. \A j \in DOMAIN jobs : jobs[j].keys \subseteq Keys
    BY JobTyped DEF JobRec, NotifierInv
<1> QED  BY <1>1, <1>2 DEF NotifierInv, FlushInv

\* What an attempt works on stays unsettled while no job changes.
LEMMA SettledKept ==
    ASSUME NotifierInv, UNCHANGED jobs,
           \A j \in DOMAIN jobs : \A k \in jobs[j].keys \ Doubted :
               rows[k] \in {"queued_digest", "none"} => rows'[k] \in {"queued_digest", "none"}
    PROVE  SettledNotResent'
BY DEF SettledNotResent, Doubted, NotifierInv, JobsInv

LEMMA BeginKeeps ==
    ASSUME NotifierInv, NEW u \in Users, FlushBegin(u)
    PROVE  NotifierInv'
<1> USE DEF NotifierInv
<1>1. /\ flush = NoFlush /\ UNCHANGED <<table, account, emits, jobs>>
      /\ flush' = [stage |-> "lock", user |-> u, min |-> settings[u][FlushChannel].min]
    BY DEF FlushBegin
<1>2. InFlush' = {} /\ FlushInv'
    BY <1>1 DEF InFlush, FlushInv
<1>3. RowsInv' /\ JobsInv'
    BY <1>1 DEF RowsInv, JobsInv, table, account, Row, Live
<1>4. HandsInv' /\ SettledNotResent'
    BY <1>1, <1>2, EmittersRest, HandsKept
       DEF table, HandsInv, FlushInv, SameJobs, SettledNotResent, Doubted
<1> QED  BY <1>1, <1>2, <1>3, <1>4, EmittersRest DEF table

LEMMA LockKeeps ==
    ASSUME NotifierInv, LockPendingDigestForUser
    PROVE  NotifierInv'
<1> USE DEF NotifierInv
<1> DEFINE ks == WaitingOf(flush.user)
<1>1. /\ flush.stage = "lock" /\ UNCHANGED <<notes, account, emits, jobs>>
      /\ UpdateStatus(ks, "queued_digest")
      /\ flush' = IF ks = {} THEN NoFlush
                  ELSE [stage |-> "filter", user |-> flush.user, min |-> flush.min, keys |-> ks]
    BY DEF LockPendingDigestForUser
<1>2. ks \subseteq Keys /\ \A k \in ks : rows[k] = "pending_digest" /\ Held(k)
    BY DEF WaitingOf, OfUser, Live, Held
<1> HIDE DEF ks
<1>3. /\ rows' \in [Keys -> Status]
      /\ \A k \in Keys : rows'[k] = rows[k] \/ (k \in ks /\ rows'[k] = "queued_digest")
      /\ \A k \in Keys : rows'[k] = "none" <=> rows[k] = "none"
    BY <1>1, Updated DEF Status
<1>4. InFlush' = ks /\ InFlush = {} /\ FlushInv'
    BY <1>1, <1>2 DEF InFlush, FlushInv, NoFlush
<1>5. RowsInv' /\ JobsInv'
    BY <1>1, <1>3, RowsKept DEF JobsInv, account
<1>6. \A k \in ks : rows'[k] = "queued_digest"
    BY <1>1, <1>2 DEF UpdateStatus, Row
<1>7. HandsInv'
  <2>1. (\A p \in Emitters : emits[p].stage = "fan-out" =>
            /\ notes[emits[p].note] # NoVal
            /\ \A q \in Emitters \ {p} :
                   emits[q].stage = "fan-out" => emits[q].note # emits[p].note)'
      BY <1>1 DEF HandsInv
  <2>2. (\A p \in Emitters : \A k \in ToEmit(p) :
            /\ rows[k] \in {"pending", "none"} /\ k \notin InFlush
            /\ \A j \in DOMAIN jobs : k \notin jobs[j].keys)'
      BY <1>1, <1>2, <1>3, <1>4, EmittersRest, HeldKeys DEF HandsInv
  <2>3. Doubted' = Doubted
      BY <1>1 DEF Doubted
  <2>4. (/\ \A k \in InFlush : Held(k)
         /\ \A j \in DOMAIN jobs : \A k \in jobs[j].keys : Held(k))'
      BY <1>1, <1>2, <1>4, EmittersRest DEF HandsInv
  <2>5. (\A k \in InFlush \ Doubted :
            /\ rows[k] \in {"queued_digest", "none"}
            /\ \A j \in DOMAIN jobs : k \notin jobs[j].keys)'
      BY <1>1, <1>2, <1>4, <1>6, <2>3 DEF HandsInv
  <2>6. (\A j \in DOMAIN jobs : \A k \in jobs[j].keys \ Doubted :
            /\ rows[k] # "pending_digest"
            /\ jobs[j].kind = "digest" => rows[k] # "pending"
            /\ \A i \in DOMAIN jobs \ {j} : k \notin jobs[i].keys)'
      BY <1>1, <1>3, <2>3, HeldKeys DEF HandsInv
  <2> QED  BY <2>1, <2>2, <2>4, <2>5, <2>6 DEF HandsInv
<1>8. SettledNotResent'
    BY <1>1, <1>3, HeldKeys, SettledKept
<1> QED  BY <1>1, <1>4, <1>5, <1>7, <1>8, EmittersRest

\* A flush that gives rows a status, and goes on with some of them or none.
LEMMA FlushLetsGo ==
    ASSUME NotifierInv, UNCHANGED <<notes, prefs, emits, jobs>>, NEW ks \in SUBSET InFlush,
           NEW status \in {"skipped", "pending_digest"}, UpdateStatus(ks, status),
           FlushInv', InFlush' \subseteq InFlush \ ks
    PROVE  NotifierInv'
<1> USE DEF NotifierInv
<1>1. /\ rows' \in [Keys -> Status]
      /\ \A k \in Keys : rows'[k] = rows[k] \/ (k \in ks /\ rows'[k] = status)
      /\ \A k \in Keys : rows'[k] = "none" <=> rows[k] = "none"
    BY Updated DEF Status
<1>2. RowsInv' /\ JobsInv'
    BY <1>1, RowsKept DEF JobsInv
<1>3. \A p \in Emitters : \A k \in ToEmit(p) : rows'[k] \in {"pending", "none"}
    BY <1>1, HeldKeys DEF HandsInv
<1>4. \A k \in InFlush' \ Doubted : rows'[k] \in {"queued_digest", "none"}
    BY <1>1, HeldKeys DEF HandsInv
<1>5. \A j \in DOMAIN jobs : \A k \in jobs[j].keys \ Doubted : rows'[k] = rows[k]
    BY <1>1, HeldKeys DEF HandsInv
<1>6. HandsInv'
    BY <1>3, <1>4, <1>5, EmittersRest, HeldKeys, HandsKept DEF SameJobs, HandsInv
<1>7. SettledNotResent'
    BY <1>5, SettledKept
<1> QED  BY <1>2, <1>6, <1>7, EmittersRest

LEMMA FilterKeeps ==
    ASSUME NotifierInv, filterByMinSeverity
    PROVE  NotifierInv'
<1> DEFINE passes == {k \in flush.keys : \/ flush.min = 1
                                         \/ /\ Row(k)
                                            /\ notes[k[1]].sev >= flush.min}
<1>1. PICK done \in SUBSET (flush.keys \ passes) : UpdateStatus(done, "skipped")
    BY DEF filterByMinSeverity
<1>2. /\ flush.stage = "filter" /\ UNCHANGED <<notes, prefs, emits, jobs>>
      /\ \/ flush' = NoFlush
         \/ passes # {} /\ flush' = [flush EXCEPT !.stage = "enqueue", !.keys = passes]
    BY DEF filterByMinSeverity
<1>3. passes \subseteq flush.keys
    OBVIOUS
<1> HIDE DEF passes
<1>4. InFlush = flush.keys /\ InFlush \subseteq Keys
    BY <1>2 DEF InFlush, NotifierInv, FlushInv
<1>5. FlushInv' /\ InFlush' \subseteq passes
  <2>1. CASE flush' = NoFlush
      BY <2>1 DEF FlushInv, InFlush, NoFlush
  <2>2. CASE passes # {} /\ flush' = [flush EXCEPT !.stage = "enqueue", !.keys = passes]
    <3>1. /\ flush'.stage = "enqueue" /\ flush'.keys = passes /\ flush'.user = flush.user
          /\ DOMAIN flush' = DOMAIN flush
        BY <1>2, <2>2 DEF NotifierInv, FlushInv
    <3> QED  BY <1>2, <1>3, <1>4, <2>2, <3>1 DEF NotifierInv, FlushInv, InFlush
  <2> QED  BY <1>2, <2>1, <2>2
<1>6. done \in SUBSET InFlush /\ InFlush' \subseteq InFlush \ done
    BY <1>1, <1>3, <1>4, <1>5
<1> QED  BY <1>1, <1>2, <1>5, <1>6, FlushLetsGo

LEMMA UnlockKeeps ==
    ASSUME NotifierInv, unlockBack
    PROVE  NotifierInv'
<1>1. PICK back \in SUBSET flush.keys : UpdateStatus(back, "pending_digest")
    BY DEF unlockBack
<1>2. /\ flush.stage \in {"filter", "enqueue", "unlock"} /\ flush' = NoFlush
      /\ UNCHANGED <<notes, account, emits, jobs>>
    BY DEF unlockBack
<1>3. InFlush = flush.keys /\ FlushInv' /\ InFlush' = {}
    BY <1>2 DEF InFlush, FlushInv, NoFlush
<1> QED  BY <1>1, <1>2, <1>3, FlushLetsGo DEF account

LEMMA FlushLostKeeps ==
    ASSUME NotifierInv, FlushLost
    PROVE  NotifierInv'
<1>1. flush' = NoFlush /\ UNCHANGED <<table, account, emits, jobs>>
    BY DEF FlushLost
<1>2. FlushInv' /\ InFlush' = {}
    BY <1>1 DEF InFlush, FlushInv, NoFlush
<1>3. UpdateStatus({}, "skipped")
    BY <1>1 DEF UpdateStatus, table, NotifierInv, RowsInv
<1> QED  BY <1>1, <1>2, <1>3, FlushLetsGo DEF account, table

LEMMA FlushEnqueueKeeps ==
    ASSUME NotifierInv, FlushEnqueue
    PROVE  NotifierInv'
<1> USE DEF NotifierInv
<1>1. PICK acked \in BOOLEAN :
        /\ Enqueue("digest", flush.user, flush.keys, acked)
        /\ flush' = IF acked THEN NoFlush ELSE [flush EXCEPT !.stage = "unlock"]
    BY DEF FlushEnqueue
<1>2. /\ flush.stage = "enqueue" /\ UNCHANGED <<table, account, emits>>
      /\ flush.user \in Users /\ flush.keys \in SUBSET Keys /\ flush.keys # {}
      /\ InFlush = flush.keys
    BY DEF FlushEnqueue, FlushInv, InFlush
<1>3. FlushInv' /\ InFlush' \subseteq InFlush /\ (acked => InFlush' = {})
  <2>1. CASE acked
      BY <1>1, <2>1 DEF InFlush, FlushInv, NoFlush
  <2>2. CASE ~acked
    <3>1. /\ flush'.stage = "unlock" /\ flush'.keys = flush.keys /\ flush'.user = flush.user
          /\ DOMAIN flush' = DOMAIN flush
        BY <1>1, <1>2, <2>2 DEF FlushInv
    <3> QED  BY <1>2, <2>2, <3>1 DEF InFlush, FlushInv
  <2> QED  BY <2>1, <2>2
<1>4. PICK u \in Users, ks \in SUBSET Keys :
        Enqueue("digest", u, ks, acked) /\ ks = InFlush /\ ks # {}
    BY <1>1, <1>2
<1>5. JobsInv' /\ OneMoreJob("digest", ks, acked)
    BY <1>4, JobAdded
<1>6. RowsInv'
    BY <1>2 DEF RowsInv, table, account, Row, Live
<1>7. HandsInv' /\ SettledNotResent'
  <2>1. \A k \in ks : Held(k) /\ \A p \in Emitters : k \notin ToEmit(p)'
      BY <1>2, <1>4, EmittersRest DEF HandsInv, table
  <2>2. acked => \A k \in ks \ Doubted :
          /\ rows[k] # "pending_digest" /\ k \notin InFlush'
          /\ rows[k] # "pending"
          /\ \A j \in DOMAIN jobs : k \notin jobs[j].keys
      BY <1>3, <1>4 DEF HandsInv
  <2> QED  BY <1>2, <1>3, <1>5, <2>1, <2>2, EmittersRest, HandsPass DEF table
<1> QED  BY <1>2, <1>3, <1>5, <1>6, <1>7, EmittersRest DEF table

LEMMA FlushKeeps ==
    ASSUME NotifierInv, FlushStep
    PROVE  NotifierInv'
BY BeginKeeps, LockKeeps, FilterKeeps, UnlockKeeps, FlushLostKeeps, FlushEnqueueKeeps
   DEF FlushStep, FlushEnds

-----------------------------------------------------------------------------
(* The worker.                                                             *)

\* A job writes to its own deliveries only, and never puts one back to wait.
LEMMA JobKeeps ==
    ASSUME NotifierInv, UNCHANGED <<notes, prefs, emits, flush>>, NEW j \in DOMAIN jobs,
           NEW row \in JobRec, jobs' = [jobs EXCEPT ![j] = row],
           row.keys = jobs[j].keys, row.items \subseteq row.keys,
           row.kind = jobs[j].kind, row.acked = jobs[j].acked,
           NEW ks \in SUBSET jobs[j].keys, NEW status \in {"pending", "sent", "skipped"},
           UpdateStatus(ks, status),
           row.kind = "digest" => ks = {} \/ status # "pending",
           row.kind = "digest" /\ row.stage # "idle" =>
               ks = {} /\ \A k \in row.items \ Doubted : rows[k] \in {"queued_digest", "none"}
    PROVE  NotifierInv'
<1> USE DEF NotifierInv
<1>1. /\ rows' \in [Keys -> Status]
      /\ \A k \in Keys : rows'[k] = rows[k] \/ (k \in ks /\ rows'[k] = status)
      /\ \A k \in Keys : rows'[k] = "none" <=> rows[k] = "none"
    BY Updated DEF Status
<1>2. /\ JobsInv' /\ SameJobs
      /\ jobs'[j] = row /\ \A i \in DOMAIN jobs \ {j} : jobs'[i] = jobs[i]
    BY JobChanged
<1>3. RowsInv' /\ FlushInv' /\ InFlush' = InFlush
    BY <1>1, RowsKept DEF FlushInv, InFlush
<1>4. \A p \in Emitters : \A k \in ToEmit(p) : rows'[k] \in {"pending", "none"}
    BY <1>1, HeldKeys DEF HandsInv
<1>5. \A k \in InFlush' \ Doubted : rows'[k] \in {"queued_digest", "none"}
    BY <1>1, <1>3, HeldKeys DEF HandsInv
<1>6. \A i \in DOMAIN jobs \ {j} : \A k \in jobs[i].keys \ Doubted : rows'[k] = rows[k]
    BY <1>1, HeldKeys DEF HandsInv
<1>7. \A k \in jobs[j].keys \ Doubted :
          /\ rows'[k] # "pending_digest"
          /\ jobs[j].kind = "digest" => rows'[k] # "pending"
    BY <1>1, HeldKeys DEF HandsInv
<1>8. \A i \in DOMAIN jobs : \A k \in jobs[i].keys \ Doubted :
          /\ rows'[k] # "pending_digest"
          /\ jobs[i].kind = "digest" => rows'[k] # "pending"
    BY <1>6, <1>7 DEF HandsInv
<1>9. HandsInv'
    BY <1>2, <1>3, <1>4, <1>5, <1>8, EmittersRest, HeldKeys, HandsKept
<1>10. SettledNotResent'
  <2> SUFFICES ASSUME NEW i \in DOMAIN jobs, jobs'[i].kind = "digest", jobs'[i].stage # "idle",
                      NEW k \in jobs'[i].items, k \notin Doubted
               PROVE  rows'[k] \in {"queued_digest", "none"}
      BY <1>2, SameDoubts DEF SettledNotResent, SameJobs
  <2>1. CASE i = j
      BY <1>1, <1>2, <2>1, HeldKeys
  <2>2. CASE i # j
      BY <1>2, <1>6, <2>2 DEF SettledNotResent, JobsInv
  <2> QED  BY <2>1, <2>2
<1> QED  BY <1>2, <1>3, <1>9, <1>10, EmittersRest

LEMMA NothingUpdated ==
    ASSUME NotifierInv, UNCHANGED rows, NEW status
    PROVE  UpdateStatus({}, status)
BY DEF UpdateStatus, NotifierInv, RowsInv

LEMMA LoadKeeps ==
    ASSUME NotifierInv, NEW j, RunLoad(j)
    PROVE  NotifierInv'
<1> DEFINE found == {k \in jobs[j].keys : Row(k)}
           items == IF jobs[j].kind = "digest" THEN digestPendingItems(found) ELSE found
           row   == [jobs[j] EXCEPT !.tries = @ + 1,
                                    !.stage = IF items = {} THEN "idle" ELSE "send",
                                    !.items = items]
<1>1. /\ j \in DOMAIN jobs /\ jobs[j].tries < MaxAttempts
      /\ jobs' = [jobs EXCEPT ![j] = row]
      /\ UNCHANGED <<table, account, emits, flush>>
    BY DEF RunLoad, Running
<1>2. jobs[j] \in JobRec
    BY <1>1, JobTyped DEF NotifierInv
<1>3. /\ items \subseteq jobs[j].keys
      /\ jobs[j].kind = "digest" => \A k \in items : rows[k] \notin Final
    BY DEF digestPendingItems
<1> HIDE DEF items
<1>4. /\ row \in JobRec /\ row.keys = jobs[j].keys /\ row.items = items
      /\ row.kind = jobs[j].kind /\ row.acked = jobs[j].acked
  <2>1. jobs[j].tries + 1 \in 0..MaxAttempts
      BY <1>1, <1>2, NotifierAssumption DEF JobRec, NotifierAssumption
  <2>2. items \in SUBSET Keys
      BY <1>2, <1>3 DEF JobRec
  <2> PICK tries, stage : /\ tries = jobs[j].tries + 1
                          /\ stage = IF items = {} THEN "idle" ELSE "send"
      OBVIOUS
  <2>3. row = [jobs[j] EXCEPT !.tries = tries, !.stage = stage, !.items = items]
      OBVIOUS
  <2> QED  BY <1>2, <2>1, <2>2, <2>3 DEF JobRec
<1> HIDE DEF row
<1>5. UpdateStatus({}, "pending")
    BY <1>1, NothingUpdated DEF table
<1>6. row.kind = "digest" =>
          \A k \in row.items \ Doubted : rows[k] \in {"queued_digest", "none"}
  <2>1. \A k \in jobs[j].keys : rows[k] \in Status
      BY <1>2 DEF JobRec, NotifierInv, RowsInv
  <2> QED  BY <1>1, <1>3, <1>4, <2>1 DEF NotifierInv, HandsInv, Status, Final
<1> QED  BY <1>1, <1>3, <1>4, <1>5, <1>6, JobKeeps DEF table, account

\* The end of an attempt.
LEMMA EndKeeps ==
    ASSUME NotifierInv, UNCHANGED <<notes, prefs, emits, flush>>, NEW j \in DOMAIN jobs,
           EndRun(j), NEW ks \in SUBSET jobs[j].keys,
           NEW status \in {"pending", "sent", "skipped"}, UpdateStatus(ks, status),
           jobs[j].kind = "digest" => ks = {} \/ status # "pending"
    PROVE  NotifierInv'
<1> DEFINE row == [jobs[j] EXCEPT !.stage = "idle", !.items = {}]
<1>1. jobs' = [jobs EXCEPT ![j] = row]
    BY DEF EndRun
<1>2. jobs[j] \in JobRec
    BY JobTyped DEF NotifierInv
<1>3. /\ row \in JobRec /\ row.keys = jobs[j].keys /\ row.items = {}
      /\ row.kind = jobs[j].kind /\ row.acked = jobs[j].acked /\ row.stage = "idle"
    BY <1>2 DEF JobRec
<1> HIDE DEF row
<1> QED  BY <1>1, <1>3, JobKeeps

LEMMA SendKeeps ==
    ASSUME NotifierInv, NEW j, RunSend(j)
    PROVE  NotifierInv'
<1>1. /\ j \in DOMAIN jobs /\ jobs[j].stage = "send"
      /\ UNCHANGED <<notes, account, emits, flush>>
    BY DEF RunSend, Running
<1>2. jobs[j] \in JobRec /\ jobs[j].items \subseteq jobs[j].keys
    BY <1>1, JobTyped DEF NotifierInv, JobsInv
<1>3. ASSUME NEW stage \in {"sent", "skipped"}, jobs' = [jobs EXCEPT ![j].stage = stage], UNCHANGED rows
      PROVE  NotifierInv'
  <2> DEFINE row == [jobs[j] EXCEPT !.stage = stage]
  <2>1. jobs' = [jobs EXCEPT ![j] = row]
      BY <1>3
  <2>2. /\ row \in JobRec /\ row.keys = jobs[j].keys /\ row.items = jobs[j].items
        /\ row.kind = jobs[j].kind /\ row.acked = jobs[j].acked
      BY <1>2 DEF JobRec
  <2>3. UpdateStatus({}, "pending")
      BY <1>3, NothingUpdated
  <2>4. row.kind = "digest" =>
            \A k \in row.items \ Doubted : rows[k] \in {"queued_digest", "none"}
      BY <1>1, <2>2 DEF NotifierInv, SettledNotResent
  <2> HIDE DEF row
  <2> QED  BY <1>1, <1>2, <2>1, <2>2, <2>3, <2>4, JobKeeps DEF account
<1>4. ASSUME EndRun(j), \/ jobs[j].kind = "deliver" /\ UpdateStatus(jobs[j].items, "pending")
                        \/ UNCHANGED rows
      PROVE  NotifierInv'
  <2>1. \E ks \in SUBSET jobs[j].keys :
            UpdateStatus(ks, "pending") /\ (jobs[j].kind = "digest" => ks = {})
      BY <1>2, <1>4, NothingUpdated
  <2> QED  BY <1>1, <1>4, <2>1, EndKeeps DEF account
<1> QED  BY <1>3, <1>4 DEF RunSend

LEMMA MarkKeeps ==
    ASSUME NotifierInv, NEW j, RunMark(j)
    PROVE  NotifierInv'
<1>1. /\ j \in DOMAIN jobs /\ jobs[j].stage \in {"sent", "skipped"} /\ EndRun(j)
      /\ UNCHANGED <<notes, prefs, emits, flush>>
    BY DEF RunMark
<1>2. PICK done \in SUBSET jobs[j].items : UpdateStatus(done, jobs[j].stage)
    BY DEF RunMark
<1>3. done \in SUBSET jobs[j].keys
    BY <1>1, <1>2 DEF NotifierInv, JobsInv
<1> QED  BY <1>1, <1>2, <1>3, EndKeeps

LEMMA RunKeeps ==
    ASSUME NotifierInv, RunStep
    PROVE  NotifierInv'
<1> PICK j \in 1..MaxJobs : RunLoad(j) \/ RunSend(j) \/ RunMark(j) \/ RunLost(j)
    BY DEF RunStep
<1>1. CASE RunLost(j)
  <2>1. j \in DOMAIN jobs /\ EndRun(j) /\ UNCHANGED <<table, account, emits, flush>>
      BY <1>1 DEF RunLost
  <2>2. UpdateStatus({}, "pending")
      BY <2>1, NothingUpdated DEF table
  <2> QED  BY <2>1, <2>2, EndKeeps DEF table, account
<1> QED  BY <1>1, LoadKeeps, SendKeeps, MarkKeeps

-----------------------------------------------------------------------------
(* Accounts and time.                                                      *)

LEMMA AccountKeeps ==
    ASSUME NotifierInv, UNCHANGED <<notes, rows, emits, flush, jobs>>,
           prefs' \in [Users -> [Kinds -> SUBSET Outward]]
    PROVE  NotifierInv'
<1>1. RowsInv' /\ JobsInv' /\ FlushInv' /\ InFlush' = InFlush
    BY DEF NotifierInv, RowsInv, JobsInv, FlushInv, InFlush, Row, Live
<1>2. HandsInv' /\ SettledNotResent'
    BY EmittersRest DEF NotifierInv, HandsInv, InFlush, SettledNotResent, Doubted
<1> QED  BY <1>1, <1>2, EmittersRest DEF NotifierInv

LEMMA PreferencesKeep ==
    ASSUME NotifierInv, AccountStep
    PROVE  prefs' \in [Users -> [Kinds -> SUBSET Outward]]
<1>1. ASSUME NEW u \in Users, NEW p \in Switches, UpsertPreferences(u, p)
      PROVE  prefs' \in [Users -> [Kinds -> SUBSET Outward]]
  <2>1. p.channel \in Outward
      BY AccountAssumption DEF AccountAssumption
  <2>2. prefs' = [prefs EXCEPT ![u] = [prefs[u] EXCEPT ![p.kind] =
            IF p.enabled THEN prefs[u][p.kind] \cup {p.channel}
                         ELSE prefs[u][p.kind] \ {p.channel}]]
      BY <1>1 DEF UpsertPreferences
  <2>3. prefs[u] \in [Kinds -> SUBSET Outward]
      BY DEF NotifierInv, RowsInv
  <2>4. [prefs[u] EXCEPT ![p.kind] =
            IF p.enabled THEN prefs[u][p.kind] \cup {p.channel}
                         ELSE prefs[u][p.kind] \ {p.channel}] \in [Kinds -> SUBSET Outward]
      BY <2>1, <2>3
  <2> QED  BY <2>2, <2>4 DEF NotifierInv, RowsInv
<1>2. CASE UNCHANGED prefs
    BY <1>2 DEF NotifierInv, RowsInv
<1> QED  BY <1>1, <1>2
         DEF AccountStep, UpsertChannelSettings, IssueTelegramLinkToken, UnlinkTelegram, BotMute,
             BotStart, SetLink, CreateWebhook, DeleteWebhook

LEMMA AccountStepKeeps ==
    ASSUME NotifierInv, AccountStep
    PROVE  NotifierInv'
<1>1. UNCHANGED <<notes, rows, emits, flush, jobs>>
    BY DEF AccountStep, UpsertPreferences, UpsertChannelSettings, IssueTelegramLinkToken,
           UnlinkTelegram, BotMute, BotStart, CreateWebhook, DeleteWebhook, Request, Quiet, table
<1> QED  BY <1>1, PreferencesKeep, AccountKeeps

\* A notification leaves the window, or the table with its deliveries.
LEMMA NoteFades ==
    ASSUME NotifierInv, UNCHANGED <<account, emits, flush, jobs>>,
           NEW n \in Notes, NEW row \in NoteRow, notes[n] # NoVal,
           notes' = [notes EXCEPT ![n] = row], notes[n].gone => row.gone,
           rows' \in [Keys -> Status],
           \A k \in Keys : rows'[k] \in {rows[k], "none"},
           row.gone => \A k \in Keys : k[1] = n => rows'[k] = "none"
    PROVE  NotifierInv'
<1> USE DEF NotifierInv
<1>1. /\ notes'[n] = row /\ row # NoVal /\ \A m \in Notes \ {n} : notes'[m] = notes[m]
      /\ notes' \in [Notes -> NoteRow \cup {NoVal}]
    BY AccountAssumption DEF NotesInv, AccountAssumption
<1>2. \A m \in Notes : notes'[m] # NoVal <=> notes[m] # NoVal
    BY <1>1
<1>3. Created' = Created
    BY <1>2 DEF Created
<1>4. NotesInv'
    BY <1>1, <1>2, <1>3 DEF NotesInv
<1>5. \A m \in Notes : Live(m)' => Live(m)
    BY <1>1 DEF Live
<1>7. EmitInv'
    BY <1>3 DEF EmitInv, Committing
<1>8. RowsInv'
  <2>1. ASSUME NEW k \in Keys, Row(k)'
        PROVE  Live(k[1])'
    <3>1. Row(k) /\ Live(k[1]) /\ k[1] \in Notes
        BY <2>1 DEF Row, RowsInv, Keys
    <3>2. CASE k[1] = n
        BY <1>1, <2>1, <3>2 DEF Live, Row
    <3>3. CASE k[1] # n
        BY <1>1, <3>1, <3>3 DEF Live
    <3> QED  BY <3>2, <3>3
  <2> QED  BY <2>1 DEF RowsInv, account
<1>9. /\ JobsInv' /\ SameJobs /\ FlushInv' /\ InFlush' = InFlush
      /\ \A p \in Emitters : ToEmit(p)' = ToEmit(p)
    BY DEF JobsInv, FlushInv, InFlush, ToEmit, SameJobs
<1>10. HandsInv'
  <2>1. \A p \in Emitters : \A k \in ToEmit(p) : rows'[k] \in {"pending", "none"}
      BY HeldKeys DEF HandsInv
  <2>2. \A k \in InFlush' \ Doubted : rows'[k] \in {"queued_digest", "none"}
      BY <1>9, HeldKeys DEF HandsInv
  <2>3. \A j \in DOMAIN jobs : \A k \in jobs[j].keys \ Doubted :
            /\ rows'[k] # "pending_digest"
            /\ jobs[j].kind = "digest" => rows'[k] # "pending"
      BY HeldKeys DEF HandsInv
  <2> QED  BY <1>2, <1>9, <2>1, <2>2, <2>3, HandsKept, HeldKeys
<1>11. SettledNotResent'
    BY HeldKeys, SettledKept
<1> QED  BY <1>4, <1>7, <1>8, <1>9, <1>10, <1>11

LEMMA DeleteKeeps ==
    ASSUME NotifierInv, NEW n \in Notes, DeleteNotification(n)
    PROVE  NotifierInv'
<1> DEFINE row == [notes[n] EXCEPT !.gone = TRUE, !.recent = FALSE]
<1>1. /\ Live(n) /\ notes' = [notes EXCEPT ![n] = row]
      /\ rows' = [k \in Keys |-> IF k[1] = n THEN "none" ELSE rows[k]]
      /\ UNCHANGED <<account, emits, flush, jobs>>
    BY DEF DeleteNotification, CascadeFrom, Quiet
<1>2. notes[n] \in NoteRow /\ notes[n] # NoVal
    BY <1>1 DEF NotifierInv, NotesInv, Live
<1>3. row \in NoteRow /\ row.gone
    BY <1>2 DEF NoteRow
<1> HIDE DEF row
<1>4. /\ rows' \in [Keys -> Status] /\ \A k \in Keys : rows'[k] \in {rows[k], "none"}
      /\ \A k \in Keys : k[1] = n => rows'[k] = "none"
    BY <1>1 DEF NotifierInv, RowsInv, Status
<1> QED  BY <1>1, <1>2, <1>3, <1>4, NoteFades

LEMMA TimeKeeps ==
    ASSUME NotifierInv, TimeStep
    PROVE  NotifierInv'
<1>1. ASSUME NEW n \in Notes, DedupeWindowEnds(n)
      PROVE  NotifierInv'
  <2> DEFINE row == [notes[n] EXCEPT !.recent = FALSE]
  <2>1. /\ Live(n) /\ notes' = [notes EXCEPT ![n] = row]
        /\ UNCHANGED <<rows, account, emits, flush, jobs>>
      BY <1>1 DEF DedupeWindowEnds, Quiet
  <2>2. notes[n] \in NoteRow /\ notes[n] # NoVal /\ ~notes[n].gone
      BY <2>1 DEF NotifierInv, NotesInv, Live
  <2>3. row \in NoteRow /\ ~row.gone
      BY <2>2 DEF NoteRow
  <2> HIDE DEF row
  <2>4. rows' \in [Keys -> Status] /\ \A k \in Keys : rows'[k] \in {rows[k], "none"}
      BY <2>1 DEF NotifierInv, RowsInv
  <2> QED  BY <2>1, <2>2, <2>3, <2>4, NoteFades
<1>2. ASSUME NEW u \in Users, TelegramTimePasses(u) \/ DigestWindowEnds(u)
      PROVE  NotifierInv'
  <2>1. UNCHANGED <<notes, rows, emits, flush, jobs, prefs>>
      BY <1>2 DEF TelegramTimePasses, DigestWindowEnds, SetLink, Quiet, table
  <2> QED  BY <2>1, AccountKeeps DEF NotifierInv, RowsInv
<1> QED  BY <1>1, <1>2 DEF TimeStep

-----------------------------------------------------------------------------
(* The theorems.                                                           *)

LEMMA NotifierStep ==
    ASSUME NotifierInv, Next
    PROVE  NotifierInv'
<1>1. ASSUME EmitStep
      PROVE  NotifierInv'
    BY <1>1, DedupeKeeps, CommitKeeps, EmitLostKeeps, FanOutKeeps DEF EmitStep
<1> QED  BY <1>1, FlushKeeps, RunKeeps, AccountStepKeeps, TimeKeeps, DeleteKeeps DEF Next

LEMMA NotifierStutter ==
    ASSUME NotifierInv, UNCHANGED vars
    PROVE  NotifierInv'
<1>1. UNCHANGED <<notes, rows, emits, flush, jobs, prefs>>
    BY DEF vars
<1> QED  BY <1>1, AccountKeeps DEF NotifierInv, RowsInv

\* What stands in every state: the numbering of the notifications, whose hands
\* each delivery is in, and what an attempt may still send.
THEOREM NotifierInvariant == Spec => []NotifierInv
<1>1. NotifierInv /\ [Next]_vars => NotifierInv'
    BY NotifierStep, NotifierStutter
<1> QED  BY Initially, <1>1, PTL DEF Spec

\* A delivery exists with its notification only, whichever order deletions,
\* flushes and attempts come in (ON DELETE CASCADE, UpdateStatus on a row that
\* is gone), and an attempt works on deliveries of its job.
THEOREM NotifierTypes == Spec => []NotifierTypeOK
<1>1. NotifierInv => NotifierTypeOK
  <2> SUFFICES ASSUME NotifierInv PROVE NotifierTypeOK
      OBVIOUS
  <2>1. \A j \in DOMAIN jobs : jobs[j].tries \in 0..MaxAttempts
                               /\ jobs[j].stage \in {"idle", "send", "sent", "skipped"}
      BY JobTyped DEF NotifierInv, JobRec
  <2> QED  BY <2>1 DEF NotifierInv, RowsInv, JobsInv, NotifierTypeOK
<1> QED  BY NotifierInvariant, <1>1, PTL

\* Among things of which at most one has a key, the key counts at most once.
LEMMA AtMostOne ==
    ASSUME NEW S, \A x, y \in S : x = y
    PROVE  /\ Cardinality(S) \in {0, 1}
           /\ S # {} => Cardinality(S) = 1
           /\ S = {} => Cardinality(S) = 0
<1>1. CASE S = {}
    BY <1>1, FS_EmptySet
<1>2. CASE S # {}
  <2> PICK x \in S : TRUE
      BY <1>2
  <2>1. S = {x}
      OBVIOUS
  <2> QED  BY <1>2, <2>1, FS_Singleton
<1> QED  BY <1>1, <1>2

\* No delivery is in two pairs of hands: Emit lets go of it when it has its job,
\* a flush takes only what waits, and what waits for a digest is in no job, but
\* for what an INSERT put into one that was taken for not enqueued.
THEOREM HeldByOne == Spec => []HeldOnce
<1>1. NotifierInv => HeldOnce
  <2> SUFFICES ASSUME NotifierInv PROVE HeldOnce
      OBVIOUS
  <2>1. ASSUME NEW k \in Keys \ Doubted
        PROVE  Cardinality({p \in Emitters : k \in ToEmit(p)})
                 + Cardinality({j \in DOMAIN jobs : k \in jobs[j].keys})
                 + (IF k \in InFlush THEN 1 ELSE 0) <= 1
    <3> DEFINE E == {p \in Emitters : k \in ToEmit(p)}
               J == {j \in DOMAIN jobs : k \in jobs[j].keys}
               f == IF k \in InFlush THEN 1 ELSE 0
    <3>1. \A p, q \in E : p = q
        BY DEF NotifierInv, HandsInv, ToEmit
    <3>2. \A i, j \in J : i = j
        BY DEF NotifierInv, HandsInv
    <3>3. /\ E # {} => J = {} /\ f = 0
          /\ k \in InFlush => J = {}
          /\ f \in {0, 1} /\ (f = 1 => k \in InFlush)
        BY DEF NotifierInv, HandsInv
    <3> HIDE DEF E, J, f
    <3>4. Cardinality(E) \in {0, 1} /\ (Cardinality(E) = 1 => E # {})
        BY <3>1, AtMostOne
    <3>5. Cardinality(J) \in {0, 1} /\ (Cardinality(J) = 1 => J # {})
        BY <3>2, AtMostOne
    <3>6. Cardinality(E) + Cardinality(J) + f <= 1
        BY <3>3, <3>4, <3>5
    <3> QED  BY <3>6 DEF E, J, f
  <2> QED  BY <2>1 DEF HeldOnce, NotifierInv, HandsInv
<1> QED  BY NotifierInvariant, <1>1, PTL

\* Whatever attempts are repeated and whatever is flushed meanwhile, a digest
\* under way has only what is neither sent nor skipped: ExecuteDigestJob leaves
\* out what is final, and no other hand settles what the attempt is about to send.
THEOREM SettledStaysSettled == Spec => []SettledNotResent
<1>1. NotifierInv => SettledNotResent
    BY DEF NotifierInv
<1> QED  BY NotifierInvariant, <1>1, PTL
=============================================================================
