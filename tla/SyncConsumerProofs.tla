-------------------------- MODULE SyncConsumerProofs --------------------------
(***************************************************************************)
(* What SyncConsumer promises, for any indicators, patterns and number of  *)
(* edits and faults.  The argument turns on one place in the stream, the   *)
(* one at which the process goes on or a new one would (Place): all that   *)
(* is before it has been applied (ProgressInv), and a row that is active   *)
(* for an indicator which is gone waits for the event at or after it that  *)
(* will switch it off (ActiveInv).  A replay compares an event with what   *)
(* the rows have kept of later ones (VersionInv, CoherentInv, KnownInv).   *)
(***************************************************************************)
EXTENDS SyncConsumer, TLAPS

-----------------------------------------------------------------------------
(* The stream.                                                             *)

\* Event k mentions i, and i is gone with it.
Mentions(i, k) == i = log[k].id \/ i \in log[k].from
Gone(i, k) == i \in log[k].from \/ (log[k].kind = "delete" /\ log[k].id = i)

\* A write of event k, when it is in order.
Writes(k) == log[k].kind # "delete" /\ Writable(log[k].object)

LogInv ==
    \A k \in DOMAIN log :
        /\ log[k].object.modified \in 1..k
        /\ log[k].kind # "delete" => log[k].object.modified = k
        /\ log[k].object.domains \in Patterns[log[k].id]
        /\ log[k].id \notin log[k].from
        /\ log[k].from # {} <=> log[k].kind = "merge"

\* What OpenCTI has is what the last event about it said.
TruthInv ==
    \A i \in Indicators :
        Live(i) =>
            /\ truth[i].domains \in Patterns[i]
            /\ truth[i].detection \in Detections
            /\ truth[i].modified \in DOMAIN log
            /\ LET k == truth[i].modified IN
               /\ log[k].id = i /\ log[k].kind # "delete" /\ log[k].object = truth[i]
               /\ \A m \in DOMAIN log : Mentions(i, m) => m <= k

\* Nobody comes back.
LifeInv ==
    \A i \in Indicators :
        /\ \A k \in DOMAIN log : Gone(i, k) =>
              ~Live(i) /\ \A m \in DOMAIN log : Mentions(i, m) => m <= k
        /\ \A k \in DOMAIN log : Mentions(i, k) =>
              Live(i) \/ \E m \in DOMAIN log : Gone(i, m)

TypeInv ==
    /\ TypeOK
    /\ LogInv
    /\ \A i \in Indicators : Live(i) => truth[i].domains \in Patterns[i] /\ truth[i].modified \in 1..Len(log)
    /\ pc = "merged" => pos \in DOMAIN log /\ log[pos].kind = "merge"

-----------------------------------------------------------------------------
(* The place in the stream.                                                *)

\* A reconnect by id finds the id in the stream's window.
Kept ==
    pc = "connecting" /\ cfg.recover = None => cfg.from >= window /\ cfg.from >= 0

At(time) == IF time = 0 THEN 1 ELSE time
PlannedAt == IF cfg.recover # None THEN At(cfg.recover) ELSE cfg.from + 1
RestartAt == IF checkpoint.late THEN At(checkpoint.at) ELSE checkpoint.id + 1

Place ==
    CASE pc = "stopped" -> RestartAt
      [] pc = "connecting" -> PlannedAt
      [] pc = "closing" -> IF pending.id # None THEN pending.id + 1 ELSE PlannedAt
      [] OTHER -> pos

Connected == pc \in {"listening", "merged", "checkpoint"}

\* What is remembered of the last event handled goes with the place.
PendingInv ==
    /\ pending.at <= pending.id /\ (pending.at = None => pending.id = None)
    /\ pc = "stopped" => pending.id = None
    /\ (pc = "checkpoint" \/ pending.count > 0) => pending.id # None
    /\ pc = "connecting" /\ pending.id # None =>
          cfg.from = pending.id /\ cfg.recover = None
    /\ Connected => IF pending.id # None THEN pos = pending.id + 1
                    ELSE PlannedAt <= pos /\ RestartAt <= PlannedAt

\* What is applied has no gaps, and neither the checkpoint nor the place is past it; a
\* restart is never ahead of the place.
ProgressInv ==
    /\ applied \subseteq DOMAIN log
    /\ \A k \in applied : 1..k \subseteq applied
    /\ 1..checkpoint.id \subseteq applied
    /\ checkpoint.at <= checkpoint.id /\ (checkpoint.at = None => checkpoint.id = None)
    /\ 1..(Place - 1) \subseteq applied
    /\ pc # "stopped" => RestartAt <= Place
    /\ PendingInv

\* The verdict an event writes.
Written(k) == [record |-> log[k].id, revoked |-> log[k].object.revoked, modified |-> k,
               label |-> log[k].object.label, active |-> TRUE]

\* Last write of i that has been applied.
LastWrite(i, k) ==
    /\ k \in applied /\ Writes(k) /\ log[k].id = i
    /\ \A m \in applied : m > k => ~(Writes(m) /\ log[m].id = i)

VerdictInv ==
    /\ \A d \in Domains : db.rows[d].modified \in applied \cup {0}
    /\ \A i \in Indicators, k \in applied :
         Live(i) /\ LastWrite(i, k) => \A d \in log[k].object.domains : db.rows[d] = Written(k)

\* Indicator i is there, or it goes with an event from place k on.
Owns(i, k) == Live(i) \/ \E m \in DOMAIN log : Gone(i, m) /\ m >= k

\* The first event of which the database has seen nothing since the last (re)start.
Ahead == IF pc = "merged" THEN Place + 1 ELSE Place

ActiveInv ==
    \A d \in Domains :
        db.rows[d].active =>
            /\ db.rows[d].record \in Indicators
            /\ Owns(db.rows[d].record, Ahead)

-----------------------------------------------------------------------------
(* The database.                                                           *)

RowType == [record : Indicators \cup {NoIndicator}, revoked : BOOLEAN, modified : Nat,
            label : Labels \cup {NoIndicator}, active : BOOLEAN]

RowOf(ev) == [record |-> ev.id, revoked |-> ev.object.revoked,
              modified |-> ev.object.modified, label |-> ev.object.label, active |-> TRUE]

\* What a deletion and a merge make of a row.
SwitchedOff(row) == [row EXCEPT !.active = FALSE, !.revoked = FALSE]
Renamed(row, to) == [row EXCEPT !.record = to]

LEMMA RowChanges ==
    ASSUME NEW row \in RowType, NEW to \in Indicators
    PROVE  /\ SwitchedOff(row) \in RowType /\ Renamed(row, to) \in RowType
           /\ SwitchedOff(row).record = row.record /\ SwitchedOff(row).modified = row.modified
           /\ ~SwitchedOff(row).active /\ ~SwitchedOff(row).revoked
           /\ Renamed(row, to).record = to /\ Renamed(row, to).modified = row.modified
           /\ Renamed(row, to).active = row.active /\ Renamed(row, to).revoked = row.revoked
  BY DEF RowType, SwitchedOff, Renamed

LEMMA RowsType ==
    ASSUME NEW D \in Database
    PROVE  /\ D.rows \in [Domains -> RowType]
           /\ \A d \in Domains : D.rows[d] \in RowType /\ D.rows[d].modified \in Nat
           /\ D.domains \in SUBSET Domains /\ D.evidence \in SUBSET (Domains \X SUBSET Domains)
  <1>1. D.rows \in [Domains -> RowType]  BY DEF Database, RowType
  <1>2. \A d \in Domains : D.rows[d].modified \in Nat  BY <1>1 DEF RowType
  <1> QED  BY <1>1, <1>2 DEF Database

LEMMA DatabaseMade ==
    ASSUME NEW rows \in [Domains -> RowType], NEW domains \in SUBSET Domains,
           NEW evidence \in SUBSET (Domains \X SUBSET Domains)
    PROVE  [rows |-> rows, domains |-> domains, evidence |-> evidence] \in Database
  BY DEF Database, RowType

LEMMA RowsReplaced ==
    ASSUME NEW D \in Database, NEW r
    PROVE  [D EXCEPT !.rows = r] = [rows |-> r, domains |-> D.domains, evidence |-> D.evidence]
  BY DEF Database

\* A stale event changes nothing, any other overwrites the rows of its domains
\* (UpsertOpenCTI).
LEMMA UpsertRows ==
    ASSUME NEW D \in Database, NEW ev \in Event
    PROVE  /\ UpsertOpenCTI(D, ev) \in Database
           /\ Stale(D, ev) => UpsertOpenCTI(D, ev) = D
           /\ ~Stale(D, ev) => \A d \in Domains :
                 UpsertOpenCTI(D, ev).rows[d] =
                    IF d \in ev.object.domains THEN RowOf(ev) ELSE D.rows[d]
  <1> DEFINE rows == [d \in Domains |-> IF d \in ev.object.domains THEN RowOf(ev) ELSE D.rows[d]]
             domains == D.domains \cup ev.object.domains
             evidence == D.evidence \cup (ev.object.domains \X {ev.object.domains})
  <1>1. ev.object \in Object /\ ev.id \in Indicators /\ ev.object.domains \in SUBSET Domains
    BY DEF Event, Object
  <1>2. RowOf(ev) \in RowType  BY <1>1 DEF Object, RowOf, RowType
  <1>3. rows \in [Domains -> RowType]  BY <1>2, RowsType
  <1>4. domains \in SUBSET Domains  BY <1>1, RowsType
  <1>5. evidence \in SUBSET (Domains \X SUBSET Domains)  BY <1>1, RowsType
  <1>6. ~Stale(D, ev) =>
           UpsertOpenCTI(D, ev) = [rows |-> rows, domains |-> domains, evidence |-> evidence]
    BY DEF UpsertOpenCTI, RowOf
  <1>7. Stale(D, ev) => UpsertOpenCTI(D, ev) = D  BY DEF UpsertOpenCTI
  <1> HIDE DEF rows, domains, evidence
  <1>8. [rows |-> rows, domains |-> domains, evidence |-> evidence] \in Database
    BY <1>3, <1>4, <1>5, DatabaseMade
  <1>9. UpsertOpenCTI(D, ev) \in Database  BY <1>6, <1>7, <1>8
  <1>10. ~Stale(D, ev) => UpsertOpenCTI(D, ev).rows = rows  BY <1>6
  <1> QED  BY <1>7, <1>9, <1>10 DEF rows

\* The rows of the indicator are switched off, no other is touched (DeleteOpenCTI).
LEMMA DeleteRows ==
    ASSUME NEW D \in Database, NEW i \in Indicators
    PROVE  /\ DeleteOpenCTI(D, i) \in Database
           /\ \A d \in Domains :
                 DeleteOpenCTI(D, i).rows[d] =
                    IF D.rows[d].record = i THEN SwitchedOff(D.rows[d]) ELSE D.rows[d]
           /\ DeleteOpenCTI(D, i).domains = D.domains
           /\ DeleteOpenCTI(D, i).evidence = D.evidence
  <1> DEFINE rows == [d \in Domains |->
                        IF D.rows[d].record = i THEN SwitchedOff(D.rows[d]) ELSE D.rows[d]]
  <1>1. rows \in [Domains -> RowType]  BY RowsType, RowChanges
  <1>2. DeleteOpenCTI(D, i) = [rows |-> rows, domains |-> D.domains, evidence |-> D.evidence]
    <2>1. DeleteOpenCTI(D, i) = [D EXCEPT !.rows = rows]  BY DEF DeleteOpenCTI, SwitchedOff
    <2> HIDE DEF rows
    <2> QED  BY <2>1, RowsReplaced
  <1>3. \A d \in Domains :
            rows[d] = IF D.rows[d].record = i THEN SwitchedOff(D.rows[d]) ELSE D.rows[d]
    OBVIOUS
  <1> HIDE DEF rows
  <1>4. DeleteOpenCTI(D, i) \in Database  BY <1>1, <1>2, RowsType, DatabaseMade
  <1> QED  BY <1>2, <1>3, <1>4

\* Rows of the merged indicators take the survivor's id (MergeOpenCTI).
LEMMA MergeRows ==
    ASSUME NEW D \in Database, NEW from \in SUBSET Indicators, NEW to \in Indicators,
           to \notin from
    PROVE  /\ MergeOpenCTI(D, from, to) \in Database
           /\ \A d \in Domains :
                 MergeOpenCTI(D, from, to).rows[d] =
                    IF D.rows[d].record \in from THEN Renamed(D.rows[d], to) ELSE D.rows[d]
           /\ MergeOpenCTI(D, from, to).domains = D.domains
           /\ MergeOpenCTI(D, from, to).evidence = D.evidence
  <1> DEFINE rows == [d \in Domains |->
                        IF D.rows[d].record \in from THEN Renamed(D.rows[d], to) ELSE D.rows[d]]
  <1>1. rows \in [Domains -> RowType]  BY RowsType, RowChanges
  <1>2. MergeOpenCTI(D, from, to) = [rows |-> rows, domains |-> D.domains, evidence |-> D.evidence]
    <2>1. \A d \in Domains : D.rows[d].record \in from => D.rows[d].record # to  OBVIOUS
    <2>2. rows = [d \in Domains |->
                    IF D.rows[d].record \notin from THEN D.rows[d]
                    ELSE IF D.rows[d].record = to THEN NoRow
                    ELSE Renamed(D.rows[d], to)]
      BY <2>1
    <2>3. MergeOpenCTI(D, from, to) = [D EXCEPT !.rows = rows]
      <3> HIDE DEF rows
      <3> QED  BY <2>2 DEF MergeOpenCTI, Renamed
    <2> HIDE DEF rows
    <2> QED  BY <2>3, RowsReplaced
  <1>3. \A d \in Domains :
            rows[d] = IF D.rows[d].record \in from THEN Renamed(D.rows[d], to) ELSE D.rows[d]
    OBVIOUS
  <1> HIDE DEF rows
  <1>4. MergeOpenCTI(D, from, to) \in Database  BY <1>1, <1>2, RowsType, DatabaseMade
  <1> QED  BY <1>2, <1>3, <1>4

LEMMA MergeKnown ==
    ASSUME NEW D \in Database, NEW from \in SUBSET Indicators, NEW to \in Indicators,
           to \notin from
    PROVE  /\ MergeOpenCTI(D, from, to).domains = D.domains
           /\ MergeOpenCTI(D, from, to).evidence = D.evidence
  <1>1. MergeOpenCTI(D, from, to).domains = D.domains  BY MergeRows
  <1>2. MergeOpenCTI(D, from, to).evidence = D.evidence  BY MergeRows
  <1> QED  BY <1>1, <1>2

LEMMA HandleUpsertType ==
    ASSUME NEW D \in Database, NEW ev \in Event
    PROVE  HandleUpsert(D, ev) \in Database
  BY UpsertRows DEF HandleUpsert

-----------------------------------------------------------------------------
(* Types.                                                                  *)

LEMMA Constants ==
    /\ MaxEvents \in Nat /\ CheckpointEvery \in Nat /\ MaxFaults \in Nat
    /\ \A n \in Int : n \in Ids <=> -1 <= n /\ n <= MaxEvents
    /\ None = -1 /\ None \in Ids
    /\ Absent \notin Object
    /\ \A i \in Indicators : Patterns[i] \subseteq SUBSET Domains
  <1>1. Absent \notin Object  BY SyncAssumption DEF Absent, Object
  <1> QED  BY <1>1, SyncAssumption DEF Ids, None

LEMMA InitType == Init => TypeInv
  <1> SUFFICES ASSUME Init PROVE TypeInv  OBVIOUS
  <1>1. db \in Database
    <2>1. NoRow \in RowType  BY DEF NoRow, RowType
    <2>2. [d \in Domains |-> NoRow] \in [Domains -> RowType]  BY <2>1
    <2> QED  BY <2>2, DatabaseMade DEF Init, EmptyDatabase
  <1>2. checkpoint.id \in {None, 0} /\ checkpoint \in [id : Ids, at : Ids, late : BOOLEAN]
    BY Constants, SyncAssumption DEF Init, Ids
  <1>3. cfg \in [from : Ids, recover : Ids]  BY <1>2, Constants DEF Init
  <1>4. pending \in [id : Ids, at : Ids, count : Nat]  BY Constants DEF Init, NoPending
  <1>5. log \in Seq(Event) /\ Len(log) = 0 /\ DOMAIN log = {}  BY DEF Init
  <1>6. \A i \in Indicators : ~Live(i)  BY DEF Init, Live
  <1>7. pos \in 1..(MaxEvents + 1) /\ faults \in 0..MaxFaults /\ window \in 0..(MaxEvents + 1)
        /\ Len(log) <= MaxEvents
    BY <1>5, Constants DEF Init
  <1>8. truth \in [Indicators -> Object \cup {Absent}]  BY DEF Init
  <1>9. TypeOK  BY <1>1, <1>2, <1>3, <1>4, <1>5, <1>7, <1>8 DEF Init, TypeOK
  <1> QED  BY <1>5, <1>6, <1>9 DEF TypeInv, LogInv, Init

LEMMA LogType ==
    ASSUME TypeInv
    PROVE  /\ log \in Seq(Event) /\ Len(log) \in Nat /\ Len(log) <= MaxEvents
           /\ DOMAIN log = 1..Len(log)
           /\ \A k \in DOMAIN log :
                /\ k \in Nat /\ k >= 1 /\ k <= Len(log)
                /\ log[k] \in Event /\ log[k].object \in Object /\ log[k].id \in Indicators
                /\ log[k].from \in SUBSET Indicators
                /\ log[k].kind \in {"create", "update", "delete", "merge"}
                /\ log[k].object.domains \in SUBSET Domains
                /\ log[k].object.modified \in Nat
                /\ log[k].object.modified >= 1 /\ log[k].object.modified <= k
                /\ log[k].kind # "delete" => log[k].object.modified = k
                /\ log[k].object.domains \in Patterns[log[k].id]
                /\ log[k].id \notin log[k].from
                /\ log[k].from # {} <=> log[k].kind = "merge"
  <1>1. log \in Seq(Event) /\ Len(log) \in Nat /\ Len(log) <= MaxEvents /\ DOMAIN log = 1..Len(log)
    BY DEF TypeInv, TypeOK
  <1>2. ASSUME NEW k \in DOMAIN log
        PROVE  /\ log[k] \in Event /\ log[k].object \in Object /\ log[k].id \in Indicators
               /\ log[k].from \in SUBSET Indicators
               /\ log[k].kind \in {"create", "update", "delete", "merge"}
               /\ log[k].object.domains \in SUBSET Domains
    <2>1. log[k] \in Event  BY <1>1
    <2> QED  BY <2>1 DEF Event, Object
  <1>3. LogInv  BY DEF TypeInv
  <1> QED  BY <1>1, <1>2, <1>3 DEF LogInv

\* An event e is the next one that OpenCTI may send.
NextEvent(e) ==
    /\ e \in Event
    /\ e.object.modified \in 1..(Len(log) + 1)
    /\ e.kind # "delete" => e.object.modified = Len(log) + 1
    /\ e.object.domains \in Patterns[e.id]
    /\ e.id \notin e.from
    /\ e.from # {} <=> e.kind = "merge"

\* What an analyst does appends one event, and changes nothing but OpenCTI.
Appended(e) ==
    /\ NextEvent(e)
    /\ log' = Append(log, e)
    /\ Len(log) < MaxEvents
    /\ UNCHANGED <<window, memory, checkpoint, db, applied, faults>>

LEMMA AppendedLog ==
    ASSUME TypeInv, NEW e, Appended(e)
    PROVE  /\ log' \in Seq(Event) /\ Len(log') = Len(log) + 1 /\ Len(log') <= MaxEvents
           /\ DOMAIN log' = DOMAIN log \cup {Len(log) + 1} /\ Len(log) + 1 \notin DOMAIN log
           /\ \A k \in DOMAIN log : log'[k] = log[k]
           /\ log'[Len(log) + 1] = e
           /\ LogInv'
           /\ UNCHANGED <<window, pc, stopping, cfg, pos, pending, checkpoint, db, applied, faults>>
  <1>1. log \in Seq(Event) /\ e \in Event /\ Len(log) \in Nat
    BY LogType DEF Appended, NextEvent
  <1>2. /\ log' \in Seq(Event) /\ Len(log') = Len(log) + 1
        /\ DOMAIN log = 1..Len(log) /\ DOMAIN log' = 1..(Len(log) + 1)
        /\ \A k \in DOMAIN log : log'[k] = log[k]
        /\ log'[Len(log) + 1] = e
    BY <1>1 DEF Appended
  <1>3. DOMAIN log' = DOMAIN log \cup {Len(log) + 1} /\ Len(log) + 1 \notin DOMAIN log
    BY <1>1, <1>2
  <1>4. LogInv'
    <2>1. \A k \in DOMAIN log :
             /\ log'[k].object.modified \in 1..k
             /\ log'[k].kind # "delete" => log'[k].object.modified = k
             /\ log'[k].object.domains \in Patterns[log'[k].id]
             /\ log'[k].id \notin log'[k].from
             /\ log'[k].from # {} <=> log'[k].kind = "merge"
      BY <1>2 DEF TypeInv, LogInv
    <2>2. NextEvent(e)  BY DEF Appended
    <2> QED  BY <1>2, <1>3, <2>1, <2>2 DEF LogInv, NextEvent
  <1>5. Len(log) + 1 <= MaxEvents  BY <1>1, Constants DEF Appended
  <1> QED  BY <1>2, <1>3, <1>4, <1>5 DEF Appended, memory

LEMMA EditedType ==
    ASSUME TypeInv, NEW i \in Indicators, NEW object \in Edited(i)
    PROVE  /\ object \in Object /\ object # Absent
           /\ object.modified = Len(log) + 1
           /\ object.domains \in Patterns[i]
           /\ object.detection \in Detections
  <1>1. PICK domains \in Patterns[i], revoked \in BOOLEAN, detection \in Detections,
             label \in Labels :
          object = [domains |-> domains, revoked |-> revoked, detection |-> detection,
                    label |-> label, modified |-> Len(log) + 1]
    BY DEF Edited
  <1>2. domains \in SUBSET Domains /\ detection \in BOOLEAN /\ Len(log) + 1 \in Nat
    BY Constants, SyncAssumption, LogType
  <1>3. object \in Object  BY <1>1, <1>2 DEF Object
  <1> QED  BY <1>1, <1>3, Constants

LEMMA TruthType ==
    ASSUME TypeInv, NEW i \in Indicators, Live(i)
    PROVE  /\ truth[i] \in Object /\ truth[i] # Absent /\ truth[i].domains \in Patterns[i]
           /\ truth[i].modified \in 1..Len(log) /\ truth[i].modified \in Nat
  <1>1. truth[i] \in Object \cup {Absent} /\ truth[i] # Absent  BY DEF TypeInv, TypeOK, Live
  <1>2. truth[i].domains \in Patterns[i] /\ truth[i].modified \in 1..Len(log)  BY DEF TypeInv
  <1> QED  BY <1>1, <1>2, LogType

\* The four things an analyst does.
LEMMA CreateAppends ==
    ASSUME TypeInv, NEW i \in Indicators, Create(i) \/ Update(i)
    PROVE  \E object \in Edited(i), kind \in {"create", "update"} :
              /\ truth' = [truth EXCEPT ![i] = object]
              /\ Appended([kind |-> kind, id |-> i, from |-> {}, object |-> object])
  <1>1. ASSUME NEW object \in Edited(i), NEW kind \in {"create", "update"}
        PROVE  NextEvent([kind |-> kind, id |-> i, from |-> {}, object |-> object])
    <2>1. Len(log) + 1 \in 1..(Len(log) + 1)  BY LogType
    <2> QED  BY <2>1, EditedType DEF NextEvent, Event
  <1>2. \E object \in Edited(i), kind \in {"create", "update"} :
           truth' = [truth EXCEPT ![i] = object] /\ Emit(kind, i, {}, object)
    BY DEF Create, Update
  <1> QED  BY <1>1, <1>2 DEF Emit, Appended

LEMMA DeleteAppends ==
    ASSUME TypeInv, NEW i \in Indicators, Delete(i)
    PROVE  /\ Live(i)
           /\ truth' = [truth EXCEPT ![i] = Absent]
           /\ Appended([kind |-> "delete", id |-> i, from |-> {}, object |-> truth[i]])
  <1>1. Live(i) /\ truth' = [truth EXCEPT ![i] = Absent] /\ Emit("delete", i, {}, truth[i])
    BY DEF Delete
  <1>2. NextEvent([kind |-> "delete", id |-> i, from |-> {}, object |-> truth[i]])
    <2>1. truth[i].modified \in 1..(Len(log) + 1)  BY <1>1, TruthType, LogType
    <2> QED  BY <1>1, <2>1, TruthType DEF NextEvent, Event
  <1> QED  BY <1>1, <1>2 DEF Emit, Appended

LEMMA MergeAppends ==
    ASSUME TypeInv, NEW i \in Indicators, NEW j \in Indicators, Merge(i, j)
    PROVE  /\ Live(i) /\ Live(j) /\ i # j
           /\ \E object \in Object :
                 /\ object # Absent /\ object.domains = truth[j].domains
                 /\ object.detection = truth[j].detection
                 /\ object.modified = Len(log) + 1
                 /\ truth' = [truth EXCEPT ![i] = Absent, ![j] = object]
                 /\ Appended([kind |-> "merge", id |-> j, from |-> {i}, object |-> object])
  <1> DEFINE object == [truth[j] EXCEPT !.modified = Len(log) + 1]
  <1>1. /\ Live(i) /\ Live(j) /\ i # j
        /\ truth' = [truth EXCEPT ![i] = Absent, ![j] = object] /\ Emit("merge", j, {i}, object)
    BY DEF Merge
  <1>2. truth[j] \in Object /\ truth[j].domains \in Patterns[j] /\ Len(log) + 1 \in Nat
    BY <1>1, TruthType, LogType
  <1>3. /\ object \in Object /\ object.modified = Len(log) + 1
        /\ object.domains = truth[j].domains /\ object.detection = truth[j].detection
    BY <1>2 DEF Object
  <1> HIDE DEF object
  <1>4. NextEvent([kind |-> "merge", id |-> j, from |-> {i}, object |-> object])
    <2>1. Len(log) + 1 \in 1..(Len(log) + 1)  BY LogType
    <2> QED  BY <1>1, <1>2, <1>3, <2>1 DEF NextEvent, Event
  <1> QED  BY <1>1, <1>3, <1>4, Constants DEF Emit, Appended

LEMMA AnalystAppends ==
    ASSUME TypeInv, Analyst
    PROVE  \E e : Appended(e)
  BY CreateAppends, DeleteAppends, MergeAppends DEF Analyst

LEMMA AnalystType == ASSUME TypeInv, Analyst PROVE TypeInv'
  <1>1. PICK e : Appended(e)  BY AnalystAppends
  <1>2. /\ log' \in Seq(Event) /\ Len(log') = Len(log) + 1 /\ Len(log') <= MaxEvents
        /\ DOMAIN log' = DOMAIN log \cup {Len(log) + 1}
        /\ \A k \in DOMAIN log : log'[k] = log[k]
        /\ LogInv'
        /\ UNCHANGED <<window, pc, stopping, cfg, pos, pending, checkpoint, db, applied, faults>>
    BY <1>1, AppendedLog
  <1> DEFINE T(t) == /\ t \in [Indicators -> Object \cup {Absent}]
                     /\ \A i \in Indicators : t[i] # Absent =>
                           t[i].domains \in Patterns[i] /\ t[i].modified \in 1..(Len(log) + 1)
  <1>3. T(truth')
    <2>0. truth \in [Indicators -> Object \cup {Absent}]  BY DEF TypeInv, TypeOK
    <2>1. \A i \in Indicators : truth[i] # Absent =>
             truth[i].domains \in Patterns[i] /\ truth[i].modified \in 1..(Len(log) + 1)
      BY TruthType, LogType DEF Live
    <2>2. Len(log) + 1 \in 1..(Len(log) + 1)  BY LogType
    <2>3. ASSUME NEW i \in Indicators, Create(i) \/ Update(i) PROVE T(truth')
      <3>1. PICK object \in Edited(i) : truth' = [truth EXCEPT ![i] = object]
        BY <2>3, CreateAppends
      <3>2. object \in Object /\ object.modified = Len(log) + 1 /\ object.domains \in Patterns[i]
        BY EditedType
      <3>3. /\ \A n \in Indicators : truth'[n] = IF n = i THEN object ELSE truth[n]
            /\ truth' \in [Indicators -> Object \cup {Absent}]
        BY <2>0, <3>1, <3>2
      <3> QED  BY <2>1, <2>2, <3>2, <3>3
    <2>4. ASSUME NEW i \in Indicators, Delete(i) PROVE T(truth')
      <3>1. truth' = [truth EXCEPT ![i] = Absent]  BY <2>4, DeleteAppends
      <3> QED  BY <2>0, <2>1, <3>1
    <2>5. ASSUME NEW i \in Indicators, NEW j \in Indicators, Merge(i, j) PROVE T(truth')
      <3>1. PICK object \in Object : /\ object.domains = truth[j].domains
                                     /\ object.modified = Len(log) + 1
                                     /\ truth' = [truth EXCEPT ![i] = Absent, ![j] = object]
        BY <2>5, MergeAppends
      <3>2. truth[j].domains \in Patterns[j]  BY <2>5, MergeAppends, TruthType
      <3>3. /\ \A n \in Indicators :
                  truth'[n] = IF n = j THEN object ELSE IF n = i THEN Absent ELSE truth[n]
            /\ truth' \in [Indicators -> Object \cup {Absent}]
        BY <2>0, <3>1
      <3> QED  BY <2>1, <2>2, <3>1, <3>2, <3>3
    <2> QED  BY <2>3, <2>4, <2>5 DEF Analyst
  <1>4. TypeOK'  BY <1>2, <1>3 DEF TypeInv, TypeOK
  <1> QED  BY <1>2, <1>3, <1>4 DEF TypeInv, Live

\* A step of the consumer leaves OpenCTI alone.
LEMMA StepType ==
    ASSUME TypeInv, UNCHANGED <<truth, log>>,
           window' \in 0..(MaxEvents + 1),
           pc' \in {"listening", "merged", "checkpoint", "closing", "connecting", "stopped",
                    "ended"},
           stopping' \in BOOLEAN, cfg' \in [from : Ids, recover : Ids],
           pos' \in 1..(MaxEvents + 1), pending' \in [id : Ids, at : Ids, count : Nat],
           checkpoint' \in [id : Ids, at : Ids, late : BOOLEAN], db' \in Database,
           applied' \subseteq 1..MaxEvents, faults' \in 0..MaxFaults,
           pc' = "merged" => pos' \in DOMAIN log /\ log[pos'].kind = "merge"
    PROVE  TypeInv'
  <1>1. TypeOK'  BY DEF TypeInv, TypeOK
  <1> QED  BY <1>1 DEF TypeInv, LogInv, Live

LEMMA Unfolded ==
    ASSUME TypeInv
    PROVE  /\ window \in 0..(MaxEvents + 1) /\ window \in Nat
           /\ pc \in {"listening", "merged", "checkpoint", "closing", "connecting", "stopped",
                     "ended"}
           /\ stopping \in BOOLEAN
           /\ cfg \in [from : Ids, recover : Ids] /\ cfg.from \in Ids /\ cfg.recover \in Ids
           /\ cfg.from \in Int /\ cfg.recover \in Int
           /\ pos \in 1..(MaxEvents + 1) /\ pos \in Nat /\ pos >= 1
           /\ pending \in [id : Ids, at : Ids, count : Nat]
           /\ pending.id \in Ids /\ pending.at \in Ids /\ pending.count \in Nat
           /\ pending.id \in Int /\ pending.at \in Int
           /\ checkpoint \in [id : Ids, at : Ids, late : BOOLEAN]
           /\ checkpoint.id \in Ids /\ checkpoint.at \in Ids /\ checkpoint.late \in BOOLEAN
           /\ checkpoint.id \in Int /\ checkpoint.at \in Int
           /\ db \in Database
           /\ applied \subseteq 1..MaxEvents
           /\ faults \in 0..MaxFaults
           /\ pc = "merged" => pos \in DOMAIN log /\ log[pos].kind = "merge"
  <1>1. /\ cfg \in [from : Ids, recover : Ids]
        /\ pending \in [id : Ids, at : Ids, count : Nat]
        /\ checkpoint \in [id : Ids, at : Ids, late : BOOLEAN]
    BY DEF TypeInv, TypeOK
  <1>2. /\ cfg.from \in Ids /\ cfg.recover \in Ids
        /\ pending.id \in Ids /\ pending.at \in Ids /\ pending.count \in Nat
        /\ checkpoint.id \in Ids /\ checkpoint.at \in Ids /\ checkpoint.late \in BOOLEAN
    BY <1>1
  <1>3. \A n \in Ids : n \in Int  BY DEF Ids, None
  <1>4. window \in Nat /\ pos \in Nat /\ pos >= 1
    BY Constants DEF TypeInv, TypeOK
  <1> QED  BY <1>1, <1>2, <1>3, <1>4 DEF TypeInv, TypeOK

LEMMA FaultType == ASSUME TypeInv, NEW kind, Fault(kind) PROVE faults' \in 0..MaxFaults
  BY Constants DEF TypeInv, TypeOK, Fault

\* What Handle remembers of event pos.
LEMMA RecordType ==
    ASSUME TypeInv, pos \in DOMAIN log, Record
    PROVE  /\ pending'.id = pos /\ pending'.at = log[pos].object.modified
           /\ pending'.count = pending.count + 1
           /\ pending' \in [id : Ids, at : Ids, count : Nat]
           /\ pos' = pos + 1 /\ pos' \in 1..(MaxEvents + 1)
           /\ pos \in 1..MaxEvents
  <1>1. /\ pos \in Nat /\ pos >= 1 /\ pos <= Len(log) /\ Len(log) <= MaxEvents
        /\ log[pos].object.modified \in Nat /\ log[pos].object.modified <= pos
        /\ pending.count \in Nat /\ Len(log) \in Nat
    BY LogType, Unfolded
  <1>2. pos \in Ids /\ log[pos].object.modified \in Ids  BY <1>1, Constants
  <1>3. pos \in 1..MaxEvents /\ pos + 1 \in 1..(MaxEvents + 1)  BY <1>1, Constants
  <1> QED  BY <1>1, <1>2, <1>3 DEF Record

LEMMA HandledType ==
    ASSUME TypeInv, pos \in DOMAIN log, Handled, db' \in Database
    PROVE  TypeInv'
  <1>1. applied' \subseteq 1..MaxEvents  BY RecordType, Unfolded DEF Handled
  <1>2. pc' \in {"checkpoint", "listening"}  BY DEF Handled
  <1> QED  BY <1>1, <1>2, RecordType, Unfolded, StepType DEF Handled, environment

LEMMA SaveType ==
    ASSUME TypeInv, SaveCheckpoint
    PROVE  /\ checkpoint' \in [id : Ids, at : Ids, late : BOOLEAN]
           /\ checkpoint'.id = pending.id /\ checkpoint'.at = pending.at /\ ~checkpoint'.late
  BY Unfolded DEF SaveCheckpoint

LEMMA FlushedType ==
    ASSUME TypeInv, Flushed
    PROVE  /\ pending' \in [id : Ids, at : Ids, count : Nat]
           /\ pending'.id = pending.id /\ pending'.at = pending.at /\ pending'.count = 0
  BY Unfolded DEF Flushed

LEMMA ForgetType ==
    ASSUME TypeInv, Forget
    PROVE  /\ pc' = "stopped" /\ stopping' \in BOOLEAN
           /\ pending' \in [id : Ids, at : Ids, count : Nat]
           /\ pending'.id = None /\ pending'.at = None /\ pending'.count = 0
           /\ cfg' \in [from : Ids, recover : Ids] /\ pos' \in 1..(MaxEvents + 1)
  <1>1. pos' = 1 /\ 1 \in 1..(MaxEvents + 1)  BY Constants DEF Forget
  <1>2. pending' = [id |-> None, at |-> None, count |-> 0] /\ None \in Ids
    BY Constants DEF Forget, NoPending
  <1>3. cfg' = [from |-> None, recover |-> None]  BY DEF Forget
  <1>4. pending' \in [id : Ids, at : Ids, count : Nat] /\ cfg' \in [from : Ids, recover : Ids]
    BY <1>2, <1>3
  <1>5. pending'.id = None /\ pending'.at = None /\ pending'.count = 0  BY <1>2
  <1> QED  BY <1>1, <1>4, <1>5 DEF Forget

\* Back to the stream, or the end of the process.
LEMMA ReopenType ==
    ASSUME TypeInv, Reopen, stopping \/ Flushed \/ UNCHANGED pending
    PROVE  /\ pc' \in {"connecting", "stopped"} /\ stopping' \in BOOLEAN
           /\ pending' \in [id : Ids, at : Ids, count : Nat]
           /\ cfg' \in [from : Ids, recover : Ids] /\ pos' \in 1..(MaxEvents + 1)
  <1>1. CASE stopping  BY <1>1, ForgetType DEF Reopen
  <1>2. CASE ~stopping
    <2>1. pending' \in [id : Ids, at : Ids, count : Nat]  BY <1>2, FlushedType, Unfolded
    <2>2. [from |-> pending.id, recover |-> None] \in [from : Ids, recover : Ids]
      BY Unfolded, Constants
    <2>3. /\ cfg' \in {[from |-> pending.id, recover |-> None], cfg} /\ pc' = "connecting"
          /\ UNCHANGED <<stopping, pos>>
      BY <1>2 DEF Reopen
    <2> QED  BY <2>1, <2>2, <2>3, Unfolded
  <1> QED  BY <1>1, <1>2

LEMMA StartType == ASSUME TypeInv, Start PROVE TypeInv'
  <1>1. PICK long \in BOOLEAN :
          /\ checkpoint' = [checkpoint EXCEPT !.late = long]
          /\ cfg' = IF long /\ checkpoint.at # None
                    THEN [from |-> None, recover |-> checkpoint.at]
                    ELSE [from |-> checkpoint.id, recover |-> None]
    BY DEF Start
  <1>2. cfg' \in [from : Ids, recover : Ids]  BY <1>1, Unfolded, Constants
  <1>3. checkpoint' \in [id : Ids, at : Ids, late : BOOLEAN]  BY <1>1, Unfolded
  <1> QED  BY <1>2, <1>3, Unfolded, StepType DEF Start, environment

LEMMA ConnectType == ASSUME TypeInv, Connect PROVE TypeInv'
  <1>1. ResumeAt \in 1..(MaxEvents + 1)
    <2>1. /\ cfg.recover \in Int /\ cfg.recover >= -1 /\ cfg.recover <= MaxEvents
          /\ cfg.from \in Int /\ cfg.from >= -1 /\ cfg.from <= MaxEvents
          /\ Len(log) \in Nat /\ Len(log) <= MaxEvents /\ None = -1 /\ MaxEvents \in Nat
      BY Unfolded, Constants, LogType
    <2> QED  BY <2>1 DEF ResumeAt
  <1> QED  BY <1>1, Unfolded, StepType DEF Connect, environment

LEMMA DeliverType == ASSUME TypeInv, Deliver PROVE TypeInv'
  <1>1. /\ pos \in DOMAIN log /\ log[pos].kind # "merge" /\ db' = Handle(db, log[pos]) /\ Handled
    BY DEF Deliver
  <1>2. db' \in Database
    BY <1>1, LogType, Unfolded, DeleteRows, HandleUpsertType DEF Handle
  <1> QED  BY <1>1, <1>2, HandledType

LEMMA DeliverMergeType == ASSUME TypeInv, DeliverMerge PROVE TypeInv'
  <1>0. pos \in DOMAIN log /\ db' = MergeOpenCTI(db, log[pos].from, log[pos].id)
    BY DEF DeliverMerge
  <1>1. db' \in Database
    <2>1. /\ log[pos].from \in SUBSET Indicators /\ log[pos].id \in Indicators
          /\ log[pos].id \notin log[pos].from /\ db \in Database
      BY <1>0, LogType, Unfolded
    <2> QED  BY <1>0, <2>1, MergeRows
  <1> QED  BY <1>1, Unfolded, StepType DEF DeliverMerge, environment

LEMMA FinishMergeType == ASSUME TypeInv, FinishMerge PROVE TypeInv'
  <1>1. pos \in DOMAIN log  BY Unfolded DEF FinishMerge
  <1>2. db' \in Database  BY <1>1, LogType, Unfolded, HandleUpsertType DEF FinishMerge
  <1> QED  BY <1>1, <1>2, HandledType DEF FinishMerge

LEMMA FailHandleType == ASSUME TypeInv, FailHandle PROVE TypeInv'
  <1>1. pos \in DOMAIN log  BY Unfolded DEF FailHandle, Writing
  <1>2. stopping' \in BOOLEAN /\ faults' \in 0..MaxFaults
    BY FaultType, Unfolded DEF FailHandle
  <1> QED  BY <1>1, <1>2, RecordType, Unfolded, StepType DEF FailHandle, environment

LEMMA CloseType == ASSUME TypeInv, Close \/ FailClose PROVE TypeInv'
  <1>1. CASE Close
    <2>1. checkpoint' \in [id : Ids, at : Ids, late : BOOLEAN]
      BY <1>1, SaveType, Unfolded DEF Close
    <2>2. Reopen /\ (stopping \/ Flushed)  BY <1>1 DEF Close
    <2> QED  BY <1>1, <2>1, <2>2, ReopenType, Unfolded, StepType DEF Close, environment
  <1>2. CASE FailClose
    <2>1. Reopen /\ (stopping \/ UNCHANGED pending) /\ faults' \in 0..MaxFaults
      BY <1>2, FaultType DEF FailClose
    <2> QED  BY <1>2, <2>1, ReopenType, Unfolded, StepType DEF FailClose, environment
  <1> QED  BY <1>1, <1>2

LEMMA OtherStepsType ==
    ASSUME TypeInv, Checkpoint \/ FailStart \/ FailCheckpoint \/ Disconnect \/ Stop \/ Kill \/ Trim
    PROVE  TypeInv'
  <1>1. CASE Checkpoint
    BY <1>1, SaveType, FlushedType, Unfolded, StepType DEF Checkpoint, environment
  <1>2. CASE FailCheckpoint
    BY <1>2, FaultType, Unfolded, StepType DEF FailCheckpoint, environment
  <1>3. CASE Disconnect
    BY <1>3, FaultType, Unfolded, StepType DEF Disconnect, environment
  <1>4. CASE Stop
    <2>1. faults' \in 0..MaxFaults /\ UNCHANGED <<truth, log, window, checkpoint, db, applied>>
      BY <1>4, FaultType DEF Stop, environment
    <2>2. CASE Forget  BY <2>1, <2>2, ForgetType, Unfolded, StepType
    <2>3. CASE ~Forget
      <3>1. stopping' = TRUE /\ pc' = "closing" /\ UNCHANGED <<cfg, pos, pending>>
        BY <1>4, <2>3 DEF Stop
      <3> QED  BY <2>1, <3>1, Unfolded, StepType
    <2> QED  BY <2>2, <2>3
  <1>5. CASE Kill
    BY <1>5, FaultType, ForgetType, Unfolded, StepType DEF Kill, environment
  <1>6. CASE Trim
    <2>1. Len(log) + 1 \in 0..(MaxEvents + 1)  BY LogType, Constants
    <2>2. window' = Len(log) + 1 /\ faults' \in 0..MaxFaults
          /\ UNCHANGED <<truth, log, pc, stopping, cfg, pos, pending, checkpoint, db, applied>>
      BY <1>6, FaultType DEF Trim, memory
    <2> QED  BY <2>1, <2>2, Unfolded, StepType
  <1>7. CASE FailStart
    BY <1>7, FaultType, Unfolded, StepType DEF FailStart, environment
  <1> QED  BY <1>1, <1>2, <1>3, <1>4, <1>5, <1>6, <1>7

LEMMA NextType == TypeInv /\ [Next]_vars => TypeInv'
  <1> SUFFICES ASSUME TypeInv, [Next]_vars PROVE TypeInv'  OBVIOUS
  <1>1. CASE Next
    BY <1>1, AnalystType, StartType, ConnectType, DeliverType, DeliverMergeType, FinishMergeType,
       FailHandleType, CloseType, OtherStepsType DEF Next, Consume
  <1>2. CASE UNCHANGED vars
    BY <1>2, Unfolded, StepType DEF vars, environment, memory
  <1> QED  BY <1>1, <1>2

LEMMA TypeInvariance == Spec => []TypeInv
  BY InitType, NextType, PTL DEF Spec

\* Every variable keeps its type: the place in the stream stays within it, a checkpoint is
\* one of its events, and the database is one, whatever fails.
THEOREM TypeCorrect == Spec => []TypeOK
  BY TypeInvariance, PTL DEF TypeInv

-----------------------------------------------------------------------------
(* Evidence.                                                               *)

Explained(D) ==
    \A d \in Domains : D.rows[d] # NoRow =>
        d \in D.domains /\ \E line \in D.evidence : line[1] = d

LEMMA UpsertExplained ==
    ASSUME NEW D \in Database, NEW ev \in Event, Explained(D)
    PROVE  Explained(HandleUpsert(D, ev))
  <1> DEFINE E == UpsertOpenCTI(D, ev)
  <1>1. CASE Stale(D, ev)
    <2>1. E = D  BY <1>1, UpsertRows
    <2> QED  BY <2>1 DEF HandleUpsert
  <1>2. CASE ~Stale(D, ev)
    <2>1. E.domains = D.domains \cup ev.object.domains
      BY <1>2 DEF UpsertOpenCTI
    <2>2. E.evidence = D.evidence \cup (ev.object.domains \X {ev.object.domains})
      BY <1>2 DEF UpsertOpenCTI
    <2>3. \A d \in Domains :
             E.rows[d] = IF d \in ev.object.domains THEN RowOf(ev) ELSE D.rows[d]
      BY <1>2, UpsertRows
    <2> HIDE DEF E
    <2>4. \A d \in ev.object.domains : \E line \in E.evidence : line[1] = d
      <3>1. \A d \in ev.object.domains :
               <<d, ev.object.domains>> \in E.evidence /\ <<d, ev.object.domains>>[1] = d
        BY <2>2
      <3> QED  BY <3>1
    <2>5. Explained(E)  BY <2>1, <2>2, <2>3, <2>4 DEF Explained
    <2> QED  BY <2>5 DEF HandleUpsert, E
  <1> QED  BY <1>1, <1>2

LEMMA DeleteExplained ==
    ASSUME NEW D \in Database, NEW i \in Indicators, Explained(D)
    PROVE  Explained(DeleteOpenCTI(D, i))
  <1> DEFINE E == DeleteOpenCTI(D, i)
  <1>1. E.domains = D.domains /\ E.evidence = D.evidence  BY DeleteRows
  <1>2. \A d \in Domains : E.rows[d] = IF D.rows[d].record = i THEN SwitchedOff(D.rows[d])
                                        ELSE D.rows[d]
    BY DeleteRows
  <1>3. NoRow.record # i  BY SyncAssumption DEF NoRow
  <1> HIDE DEF E
  <1>4. Explained(E)  BY <1>1, <1>2, <1>3 DEF Explained
  <1> QED  BY <1>4 DEF E

LEMMA MergeExplained ==
    ASSUME NEW D \in Database, NEW from \in SUBSET Indicators, NEW to \in Indicators,
           to \notin from, Explained(D)
    PROVE  Explained(MergeOpenCTI(D, from, to))
  <1> DEFINE E == MergeOpenCTI(D, from, to)
  <1>1. E.domains = D.domains /\ E.evidence = D.evidence  BY MergeKnown
  <1>2. \A d \in Domains : E.rows[d] = IF D.rows[d].record \in from THEN Renamed(D.rows[d], to)
                                        ELSE D.rows[d]
    BY MergeRows
  <1>3. NoRow.record \notin from  BY SyncAssumption DEF NoRow
  <1> HIDE DEF E
  <1>4. Explained(E)  BY <1>1, <1>2, <1>3 DEF Explained
  <1> QED  BY <1>4 DEF E

LEMMA StepExplained == ASSUME TypeInv, RowsExplained, [Next]_vars PROVE RowsExplained'
  <1>0. RowsExplained <=> Explained(db)  BY DEF RowsExplained, Explained
  <1>1. RowsExplained' <=> Explained(db')  BY DEF RowsExplained, Explained
  <1>2. CASE Deliver
    <2>1. pos \in DOMAIN log /\ log[pos] \in Event /\ db \in Database /\ log[pos].kind # "merge"
          /\ db' = Handle(db, log[pos]) /\ log[pos].id \in Indicators
      BY <1>2, LogType, Unfolded DEF Deliver
    <2>2. CASE log[pos].kind = "delete"
      <3>1. db' = DeleteOpenCTI(db, log[pos].id)  BY <2>1, <2>2 DEF Handle
      <3> QED  BY <1>0, <1>1, <2>1, <3>1, DeleteExplained
    <2>3. CASE log[pos].kind # "delete"
      <3>1. db' = HandleUpsert(db, log[pos])  BY <2>1, <2>3 DEF Handle
      <3> QED  BY <1>0, <1>1, <2>1, <3>1, UpsertExplained
    <2> QED  BY <2>2, <2>3
  <1>3. CASE DeliverMerge
    <2>1. /\ db' = MergeOpenCTI(db, log[pos].from, log[pos].id)
          /\ log[pos].from \in SUBSET Indicators /\ log[pos].id \in Indicators
          /\ log[pos].id \notin log[pos].from /\ db \in Database
      BY <1>3, LogType, Unfolded DEF DeliverMerge
    <2> QED  BY <1>0, <1>1, <2>1, MergeExplained
  <1>4. CASE FinishMerge
    <2>1. log[pos] \in Event /\ db \in Database /\ db' = HandleUpsert(db, log[pos])
      BY <1>4, LogType, Unfolded DEF FinishMerge
    <2> QED  BY <1>0, <1>1, <2>1, UpsertExplained
  <1>5. CASE db' = db  BY <1>5 DEF RowsExplained
  <1> QED
    BY <1>2, <1>3, <1>4, <1>5
       DEF Next, Consume, Analyst, Create, Update, Delete, Merge, Emit, Start, Connect, Checkpoint,
           Close, FailStart, FailHandle, FailCheckpoint, FailClose, Disconnect, Stop, Kill, Trim,
           vars

\* Every row that was ever written has its domain known and its evidence kept, whatever
\* fails, also when the row has gone over to another indicator (UpsertOpenCTI, MergeOpenCTI).
THEOREM RowsAreExplained == Spec => []RowsExplained
  <1>1. Init => RowsExplained  BY DEF Init, EmptyDatabase, RowsExplained
  <1> QED  BY <1>1, StepExplained, TypeInvariance, PTL DEF Spec

-----------------------------------------------------------------------------
(* Progress.                                                               *)

LEMMA Within ==
    ASSUME NEW S, NEW a \in Int, NEW b \in Int, a <= b + 1, 1..b \subseteq S
    PROVE  1..(a - 1) \subseteq S
  OBVIOUS

LEMMA PlaceIs ==
    /\ /\ pc = "stopped" => Place = RestartAt
       /\ pc = "connecting" => Place = PlannedAt
       /\ pc = "closing" => Place = IF pending.id # None THEN pending.id + 1 ELSE PlannedAt
       /\ Connected => Place = pos
    /\ /\ pc' = "stopped" => Place' = RestartAt'
       /\ pc' = "connecting" => Place' = PlannedAt'
       /\ pc' = "closing" =>
             Place' = IF pending'.id # None THEN pending'.id + 1 ELSE PlannedAt'
       /\ Connected' => Place' = pos'
  BY DEF Place, Connected

LEMMA PlacesType ==
    ASSUME TypeInv
    PROVE  RestartAt \in Int /\ PlannedAt \in Int /\ Place \in Int
  BY Unfolded DEF RestartAt, PlannedAt, Place, At

\* The parts that only depend on what is unchanged.
LEMMA SamePlaces ==
    /\ UNCHANGED checkpoint => RestartAt' = RestartAt
    /\ UNCHANGED cfg => PlannedAt' = PlannedAt
  BY DEF RestartAt, PlannedAt, At

LEMMA InitProgress == Init => ProgressInv
  <1> SUFFICES ASSUME Init PROVE ProgressInv  OBVIOUS
  <1>1. /\ pc = "listening" /\ pos = 1 /\ applied = {} /\ pending = NoPending
        /\ checkpoint.id \in {-1, 0} /\ checkpoint.at = checkpoint.id /\ ~checkpoint.late
        /\ cfg.from = checkpoint.id /\ cfg.recover = -1 /\ None = -1
    BY DEF Init, None
  <1>2. Place = 1 /\ RestartAt = checkpoint.id + 1 /\ PlannedAt = checkpoint.id + 1
    BY <1>1 DEF Place, RestartAt, PlannedAt, At
  <1>3. PendingInv  BY <1>1, <1>2 DEF PendingInv, NoPending, Connected
  <1> QED  BY <1>1, <1>2, <1>3 DEF ProgressInv

LEMMA AnalystProgress == ASSUME TypeInv, ProgressInv, Analyst PROVE ProgressInv'
  <1>1. PICK e : Appended(e)  BY AnalystAppends
  <1>2. /\ DOMAIN log \subseteq DOMAIN log'
        /\ UNCHANGED <<pc, cfg, pos, pending, checkpoint, applied>>
    BY <1>1, AppendedLog
  <1> QED  BY <1>2 DEF ProgressInv, PendingInv, Connected, Place, RestartAt, PlannedAt, At

LEMMA StartProgress == ASSUME TypeInv, ProgressInv, Start PROVE ProgressInv'
  <1>1. PICK long \in BOOLEAN :
          /\ checkpoint.late => long
          /\ checkpoint' = [checkpoint EXCEPT !.late = long]
          /\ cfg' = IF long /\ checkpoint.at # None
                    THEN [from |-> None, recover |-> checkpoint.at]
                    ELSE [from |-> checkpoint.id, recover |-> None]
    BY DEF Start
  <1>2. /\ pc = "stopped" /\ pc' = "connecting"
        /\ UNCHANGED <<log, pos, pending, applied>>
    BY DEF Start, environment
  <1>3. /\ checkpoint'.id = checkpoint.id /\ checkpoint'.at = checkpoint.at
        /\ checkpoint'.late = long
    BY <1>1, Unfolded
  <1>4. Place' = PlannedAt' /\ pending.id = None
    BY <1>2, PlaceIs DEF ProgressInv, PendingInv
  <1>5. checkpoint.id \in Int /\ checkpoint.at \in Int /\ None = -1
        /\ checkpoint.id >= -1 /\ checkpoint.at >= -1
    BY Unfolded, Constants
  <1>6. RestartAt' <= PlannedAt' /\ PlannedAt' \in Int /\ PlannedAt' - 1 <= checkpoint.id
    <2>0. checkpoint.at <= checkpoint.id  BY DEF ProgressInv
    <2>1. CASE long /\ checkpoint.at # None
      <3>1. cfg'.recover = checkpoint.at  BY <1>1, <2>1
      <3> QED  BY <1>3, <1>5, <2>0, <2>1, <3>1 DEF RestartAt, PlannedAt, At
    <2>2. CASE ~(long /\ checkpoint.at # None)
      <3>1. cfg'.recover = None /\ cfg'.from = checkpoint.id  BY <1>1, <2>2
      <3> QED  BY <1>3, <1>5, <2>0, <2>2, <3>1 DEF RestartAt, PlannedAt, At, ProgressInv
    <2> QED  BY <2>1, <2>2
  <1>7. 1..(Place' - 1) \subseteq applied
    <2>1. 1..checkpoint.id \subseteq applied  BY DEF ProgressInv
    <2>2. PlannedAt' <= checkpoint.id + 1  BY <1>5, <1>6
    <2>3. 1..(PlannedAt' - 1) \subseteq applied  BY <1>5, <1>6, <2>1, <2>2, Within
    <2> QED  BY <1>4, <2>3
  <1>8. PendingInv'  BY <1>2, <1>4 DEF ProgressInv, PendingInv, Connected
  <1> QED  BY <1>2, <1>3, <1>4, <1>6, <1>7, <1>8 DEF ProgressInv

\* A reconnect by id goes on right behind it, if the stream still has it.
LEMMA ResumesAsPlanned ==
    ASSUME TypeInv, Kept, pc = "connecting"
    PROVE  ResumeAt = PlannedAt
  BY Constants, Unfolded DEF Kept, ResumeAt, PlannedAt, At

LEMMA ConnectProgress == ASSUME TypeInv, ProgressInv, Kept, Connect PROVE ProgressInv'
  <1>1. /\ pc = "connecting" /\ pc' = "listening" /\ pos' = PlannedAt
        /\ UNCHANGED <<log, cfg, pending, checkpoint, applied>>
    BY ResumesAsPlanned DEF Connect, environment
  <1>2. Place = PlannedAt /\ Place' = PlannedAt /\ RestartAt' = RestartAt
        /\ PlannedAt' = PlannedAt
    BY <1>1, PlaceIs, SamePlaces DEF Connected
  <1>3. PendingInv'
    <2>1. pending.id # None => PlannedAt = pending.id + 1
      BY <1>1 DEF ProgressInv, PendingInv, PlannedAt
    <2>2. RestartAt <= PlannedAt /\ PlannedAt <= PlannedAt
      BY <1>1, <1>2, PlacesType DEF ProgressInv
    <2> QED  BY <1>1, <1>2, <2>1, <2>2 DEF ProgressInv, PendingInv, Connected
  <1> QED  BY <1>1, <1>2, <1>3 DEF ProgressInv

LEMMA HandledProgress ==
    ASSUME TypeInv, ProgressInv, pos \in DOMAIN log, Connected, Handled
    PROVE  ProgressInv'
  <1>1. /\ pc' \in {"checkpoint", "listening"} /\ UNCHANGED <<log, cfg, checkpoint>>
        /\ applied' = applied \cup {pos} /\ Record
    BY DEF Handled, environment
  <1>2. /\ pending'.id = pos /\ pending'.at = log[pos].object.modified /\ pos' = pos + 1
        /\ pos \in Nat /\ pos >= 1
        /\ log[pos].object.modified \in Nat /\ log[pos].object.modified >= 1
        /\ log[pos].object.modified <= pos /\ None = -1
    BY <1>1, RecordType, LogType, Unfolded, Constants
  <1>3. Place = pos /\ Place' = pos + 1 /\ RestartAt' = RestartAt /\ RestartAt \in Int
    BY <1>1, <1>2, PlaceIs, SamePlaces, PlacesType DEF Connected
  <1>4. 1..pos \subseteq applied'
    <2>1. 1..(pos - 1) \subseteq applied  BY <1>3 DEF ProgressInv
    <2>2. \A n \in 1..pos : n \in 1..(pos - 1) \/ n = pos  BY <1>2
    <2> QED  BY <1>1, <2>1, <2>2
  <1>5. \A k \in applied' : 1..k \subseteq applied'  BY <1>1, <1>4 DEF ProgressInv
  <1>6. PendingInv'  BY <1>1, <1>2 DEF PendingInv, Connected
  <1>7. RestartAt' <= Place'
    BY <1>2, <1>3 DEF ProgressInv, Connected
  <1>8. 1..(Place' - 1) \subseteq applied'  BY <1>2, <1>3, <1>4
  <1> QED  BY <1>1, <1>5, <1>6, <1>7, <1>8 DEF ProgressInv

LEMMA DeliverMergeProgress == ASSUME TypeInv, ProgressInv, DeliverMerge PROVE ProgressInv'
  <1>1. /\ pc = "listening" /\ pc' = "merged"
        /\ UNCHANGED <<log, cfg, pos, pending, checkpoint, applied>>
    BY DEF DeliverMerge, environment
  <1>2. Place = pos /\ Place' = pos /\ RestartAt' = RestartAt /\ PlannedAt' = PlannedAt
    BY <1>1, PlaceIs, SamePlaces DEF Connected
  <1>3. PendingInv'  BY <1>1, <1>2 DEF ProgressInv, PendingInv, Connected
  <1> QED  BY <1>1, <1>2, <1>3 DEF ProgressInv

LEMMA CheckpointProgress == ASSUME TypeInv, ProgressInv, Checkpoint PROVE ProgressInv'
  <1>1. /\ pc = "checkpoint" /\ pc' = "listening" /\ SaveCheckpoint /\ Flushed
        /\ UNCHANGED <<log, cfg, pos, applied>>
    BY DEF Checkpoint, environment
  <1>2. /\ checkpoint'.id = pending.id /\ checkpoint'.at = pending.at /\ ~checkpoint'.late
        /\ pending'.id = pending.id /\ pending'.at = pending.at /\ pending'.count = 0
    BY <1>1, SaveType, FlushedType
  <1>3. pending.id # None /\ pos = pending.id + 1 /\ pending.id \in Int /\ Place = pos
    BY <1>1, Unfolded, PlaceIs DEF ProgressInv, PendingInv, Connected
  <1>4. RestartAt' = pos /\ Place' = pos
    BY <1>1, <1>2, <1>3, PlaceIs DEF RestartAt, Connected
  <1>5. PendingInv'  BY <1>1, <1>2, <1>3 DEF ProgressInv, PendingInv, Connected
  <1>6. 1..pending.id \subseteq applied  BY <1>3 DEF ProgressInv
  <1> QED  BY <1>1, <1>2, <1>3, <1>4, <1>5, <1>6 DEF ProgressInv, PendingInv

\* The connection is closed: what is handled may be saved, and the place is kept.
LEMMA CloseProgress == ASSUME TypeInv, ProgressInv, Close PROVE ProgressInv'
  <1>1. /\ pc = "closing" /\ Reopen /\ (stopping \/ Flushed)
        /\ IF pending.count > 0 THEN SaveCheckpoint ELSE UNCHANGED checkpoint
        /\ UNCHANGED <<log, applied>>
    BY DEF Close, environment
  <1>2. /\ pending.id \in Int /\ pending.at \in Int /\ pending.count \in Nat
        /\ RestartAt \in Int /\ Place \in Int /\ PlannedAt \in Int
    BY Unfolded, PlacesType
  <1>3. Place = IF pending.id # None THEN pending.id + 1 ELSE PlannedAt
    BY <1>1, PlaceIs
  <1>4. /\ 1..checkpoint'.id \subseteq applied
        /\ checkpoint'.at <= checkpoint'.id /\ (checkpoint'.at = None => checkpoint'.id = None)
        /\ RestartAt' <= Place /\ RestartAt' \in Int
    <2>1. CASE pending.count > 0
      <3>1. /\ checkpoint'.id = pending.id /\ checkpoint'.at = pending.at /\ ~checkpoint'.late
        BY <1>1, <2>1, SaveType
      <3>2. pending.id # None /\ Place = pending.id + 1
        BY <1>3, <2>1 DEF ProgressInv, PendingInv
      <3>3. RestartAt' = Place /\ RestartAt' \in Int  BY <1>2, <3>1, <3>2 DEF RestartAt
      <3>4. 1..pending.id \subseteq applied  BY <1>2, <3>2 DEF ProgressInv
      <3> QED  BY <1>2, <3>1, <3>3, <3>4 DEF ProgressInv, PendingInv
    <2>2. CASE ~(pending.count > 0)
      <3>1. checkpoint' = checkpoint /\ RestartAt' = RestartAt  BY <1>1, <2>2, SamePlaces
      <3> QED  BY <1>1, <1>2, <3>1 DEF ProgressInv
    <2> QED  BY <2>1, <2>2
  <1>5. /\ 1..(Place' - 1) \subseteq applied
        /\ pc' # "stopped" => RestartAt' <= Place'
        /\ PendingInv'
    <2>0. 1..(Place - 1) \subseteq applied  BY DEF ProgressInv
    <2>1. CASE stopping
      <3>1. pc' = "stopped" /\ pending'.id = None /\ pending'.at = None /\ pending'.count = 0
        BY <1>1, <2>1, ForgetType DEF Reopen
      <3>2. Place' = RestartAt'  BY <3>1, PlaceIs
      <3>3. PendingInv'  BY <3>1, Constants DEF PendingInv, Connected
      <3>4. RestartAt' <= (Place - 1) + 1 /\ Place - 1 \in Int  BY <1>2, <1>4
      <3>5. 1..(RestartAt' - 1) \subseteq applied  BY <1>4, <2>0, <3>4, Within
      <3> QED  BY <3>1, <3>2, <3>3, <3>5
    <2>2. CASE ~stopping
      <3>1. /\ pc' = "connecting" /\ Flushed
            /\ cfg' = IF pending.id # None THEN [from |-> pending.id, recover |-> None] ELSE cfg
        BY <1>1, <2>2 DEF Reopen
      <3>2. pending'.id = pending.id /\ pending'.at = pending.at /\ pending'.count = 0
        BY <3>1, FlushedType
      <3>3. Place' = PlannedAt'  BY <3>1, PlaceIs
      <3>4. PlannedAt' = Place
        <4>1. CASE pending.id # None
          <5>1. cfg'.from = pending.id /\ cfg'.recover = None  BY <3>1, <4>1
          <5> QED  BY <1>3, <4>1, <5>1 DEF PlannedAt
        <4>2. CASE pending.id = None
          BY <1>3, <3>1, <4>2, SamePlaces
        <4> QED  BY <4>1, <4>2
      <3>5. PendingInv'
        <4>1. pending.id # None => cfg'.from = pending.id /\ cfg'.recover = None  BY <3>1
        <4> QED  BY <3>1, <3>2, <4>1 DEF ProgressInv, PendingInv, Connected
      <3> QED  BY <1>4, <2>0, <3>3, <3>4, <3>5
    <2> QED  BY <2>1, <2>2
  <1> QED  BY <1>1, <1>4, <1>5 DEF ProgressInv

LEMMA DisconnectProgress == ASSUME TypeInv, ProgressInv, Disconnect PROVE ProgressInv'
  <1>1. /\ pc = "listening" /\ pc' = "closing"
        /\ UNCHANGED <<log, cfg, pos, pending, checkpoint, applied>>
    BY DEF Disconnect, environment
  <1>2. Place = pos /\ RestartAt' = RestartAt /\ PlannedAt' = PlannedAt
        /\ RestartAt \in Int /\ PlannedAt \in Int /\ pos \in Nat
    BY <1>1, PlaceIs, SamePlaces, PlacesType, Unfolded DEF Connected
  <1>3. Place' = IF pending.id # None THEN pending.id + 1 ELSE PlannedAt
    BY <1>1, <1>2, PlaceIs
  <1>4. Place' <= pos /\ RestartAt <= Place' /\ Place' \in Int
    BY <1>1, <1>2, <1>3 DEF ProgressInv, PendingInv, Connected
  <1>5. 1..(Place' - 1) \subseteq applied
    <2>1. 1..(pos - 1) \subseteq applied  BY <1>2 DEF ProgressInv
    <2>2. Place' <= (pos - 1) + 1 /\ pos - 1 \in Int  BY <1>2, <1>4
    <2> QED  BY <1>4, <2>1, <2>2, Within
  <1>6. PendingInv'  BY <1>1 DEF ProgressInv, PendingInv, Connected
  <1> QED  BY <1>1, <1>2, <1>4, <1>5, <1>6 DEF ProgressInv

\* A process that dies falls back to its checkpoint, which is not ahead of it.
LEMMA KillProgress == ASSUME TypeInv, ProgressInv, Kill PROVE ProgressInv'
  <1>1. /\ pc # "stopped" /\ Forget /\ UNCHANGED <<log, checkpoint, applied>>
    BY DEF Kill, environment
  <1>2. pc' = "stopped" /\ pending'.id = None /\ pending'.at = None /\ pending'.count = 0
    BY <1>1, ForgetType
  <1>3. Place' = RestartAt /\ RestartAt' = RestartAt /\ RestartAt \in Int /\ Place \in Int
    BY <1>1, <1>2, PlaceIs, SamePlaces, PlacesType
  <1>4. 1..(Place' - 1) \subseteq applied  BY <1>1, <1>3 DEF ProgressInv
  <1>5. PendingInv'  BY <1>2, Constants DEF PendingInv, Connected
  <1> QED  BY <1>1, <1>2, <1>4, <1>5 DEF ProgressInv

LEMMA SameProgress ==
    ASSUME ProgressInv, UNCHANGED <<log, pc, cfg, pos, pending, checkpoint, applied>>
    PROVE  ProgressInv'
  BY DEF ProgressInv, PendingInv, Connected, Place, RestartAt, PlannedAt, At

\* A handler or a checkpoint that fails is what does lose events: the last id is taken
\* for handled all the same.
HandlersSucceed == Faults \cap {"dbError", "stop"} = {}

LEMMA NextProgress ==
    ASSUME HandlersSucceed, TypeInv, ProgressInv, Kept, [Next]_vars PROVE ProgressInv'
  <1>1. ~FailStart /\ ~FailHandle /\ ~FailCheckpoint /\ ~FailClose /\ ~Stop
    BY DEF HandlersSucceed, FailStart, FailHandle, FailCheckpoint, FailClose, Stop, Fault
  <1>2. CASE Deliver
    <2>1. pos \in DOMAIN log /\ Handled /\ Connected  BY <1>2 DEF Deliver, Connected
    <2> QED  BY <2>1, HandledProgress
  <1>3. CASE FinishMerge
    <2>1. pos \in DOMAIN log /\ Handled /\ Connected  BY <1>3, Unfolded DEF FinishMerge, Connected
    <2> QED  BY <2>1, HandledProgress
  <1>4. CASE Trim  BY <1>4, SameProgress DEF Trim, memory
  <1>5. CASE UNCHANGED vars  BY <1>5, SameProgress DEF vars, environment, memory
  <1> QED
    BY <1>1, <1>2, <1>3, <1>4, <1>5, AnalystProgress, StartProgress, ConnectProgress,
       DeliverMergeProgress, CheckpointProgress, CloseProgress, DisconnectProgress, KillProgress
       DEF Next, Consume

LEMMA Progress == ASSUME HandlersSucceed PROVE Spec /\ []Kept => []ProgressInv
  <1>1. TypeInv /\ ProgressInv /\ Kept /\ [Next]_vars => ProgressInv'  BY NextProgress
  <1> QED  BY <1>1, InitProgress, TypeInvariance, PTL DEF Spec

\* No event is passed over, by the checkpoint or by a connection, as long as no handler
\* fails and every reconnect by id finds its id in the stream (Run, Flush).
THEOREM NothingIsSkipped ==
    ASSUME HandlersSucceed PROVE Spec /\ []Kept => []NothingSkipped
  <1>1. ProgressInv => NothingSkipped
    BY PlaceIs DEF ProgressInv, NothingSkipped, Connected
  <1> QED  BY <1>1, Progress, PTL

-----------------------------------------------------------------------------
(* When the stream has what a reconnect asks for.                          *)

\* Kept, under the faults of the next theorem: an id that is given up is given up at a
\* start, as long as no connection is lost after a recovery by time.
KeptInv ==
    /\ Kept
    /\ checkpoint.id >= 0 /\ checkpoint.at >= 0
    /\ pending.id # None => pending.id >= 0 /\ pending.at >= 0
    /\ (pc = "checkpoint" \/ pending.count > 0) => pending.id # None
    /\ pc # "stopped" /\ cfg.recover = None => cfg.from >= 0
    /\ "trimStopped" \notin Faults => window = 0
    /\ "disconnect" \notin Faults => pc # "closing"

\* There is a checkpoint, and either the stream keeps everything or no connection is lost.
MildFaults ==
    /\ ~Fresh
    /\ Faults \subseteq {"disconnect", "kill"} \/ Faults \subseteq {"kill", "trimStopped"}

LEMMA NextKept ==
    ASSUME MildFaults, TypeInv, KeptInv, [Next]_vars PROVE KeptInv'
  <1> USE DEF KeptInv
  <1>0. /\ ~FailStart /\ ~FailHandle /\ ~FailCheckpoint /\ ~FailClose /\ ~Stop
        /\ "disconnect" \notin Faults \/ "trimStopped" \notin Faults
        /\ "trimWaiting" \notin Faults
    BY DEF MildFaults, FailStart, FailHandle, FailCheckpoint, FailClose, Stop, Fault
  <1>1. CASE Analyst
    <2>1. PICK e : Appended(e)  BY <1>1, AnalystAppends
    <2>2. UNCHANGED <<pc, cfg, pending, checkpoint, window>>  BY <2>1, AppendedLog
    <2> QED  BY <2>2 DEF Kept
  <1>2. CASE Start
    <2>1. PICK long \in BOOLEAN :
            /\ checkpoint.id < window => long
            /\ checkpoint' = [checkpoint EXCEPT !.late = long]
            /\ cfg' = IF long /\ checkpoint.at # None
                      THEN [from |-> None, recover |-> checkpoint.at]
                      ELSE [from |-> checkpoint.id, recover |-> None]
      BY <1>2 DEF Start
    <2>2. /\ checkpoint'.id = checkpoint.id /\ checkpoint'.at = checkpoint.at
          /\ checkpoint.id \in Int /\ checkpoint.at \in Int /\ window \in Nat /\ None = -1
      BY <2>1, Unfolded, Constants
    <2>3. /\ cfg'.recover = None => cfg'.from = checkpoint.id /\ checkpoint.id >= window
      <3>1. CASE long
        <4>1. cfg'.recover = checkpoint.at  BY <2>1, <2>2, <3>1
        <4> QED  BY <2>2, <4>1
      <3>2. CASE ~long
        <4>1. cfg'.from = checkpoint.id  BY <2>1, <3>2
        <4> QED  BY <2>1, <2>2, <3>2, <4>1
      <3> QED  BY <3>1, <3>2
    <2>4. pc' = "connecting" /\ UNCHANGED <<window, pending>>  BY <1>2 DEF Start, environment
    <2>5. Kept'  BY <2>2, <2>3, <2>4 DEF Kept
    <2> QED  BY <2>2, <2>3, <2>4, <2>5
  <1>3. CASE Connect
    <2>1. pc = "connecting" /\ pc' = "listening"
          /\ UNCHANGED <<cfg, window, pending, checkpoint>>
      BY <1>3 DEF Connect, environment
    <2> QED  BY <2>1 DEF Kept
  <1>4. CASE Deliver \/ FinishMerge
    <2>1. pos \in DOMAIN log /\ Handled /\ pc # "stopped"
      BY <1>4, Unfolded DEF Deliver, FinishMerge
    <2>2. /\ pc' \in {"checkpoint", "listening"} /\ Record
          /\ UNCHANGED <<cfg, window, checkpoint>>
      BY <2>1 DEF Handled, environment
    <2>3. pending'.id >= 0 /\ pending'.at >= 0 /\ pending'.id # None
      BY <2>1, <2>2, RecordType, LogType, Constants
    <2> QED  BY <2>1, <2>2, <2>3 DEF Kept
  <1>5. CASE DeliverMerge
    <2>1. pc = "listening" /\ pc' = "merged" /\ UNCHANGED <<cfg, window, pending, checkpoint>>
      BY <1>5 DEF DeliverMerge, environment
    <2> QED  BY <2>1 DEF Kept
  <1>6. CASE Checkpoint
    <2>1. pc = "checkpoint" /\ pc' = "listening" /\ UNCHANGED <<cfg, window>>
          /\ SaveCheckpoint /\ Flushed
      BY <1>6 DEF Checkpoint, environment
    <2> QED  BY <2>1, SaveType, FlushedType DEF Kept
  <1>7. CASE Close
    <2>1. /\ pc = "closing" /\ Reopen /\ (stopping \/ Flushed) /\ window' = window
          /\ IF pending.count > 0 THEN SaveCheckpoint ELSE UNCHANGED checkpoint
      BY <1>7 DEF Close, environment
    <2>2. window = 0  BY <1>0, <2>1
    <2>3. checkpoint'.id >= 0 /\ checkpoint'.at >= 0  BY <2>1, SaveType
    <2>4. CASE stopping
      <3>1. pc' = "stopped" /\ pending'.id = None /\ pending'.count = 0
        BY <2>1, <2>4, ForgetType DEF Reopen
      <3> QED  BY <2>1, <2>2, <2>3, <3>1 DEF Kept
    <2>5. CASE ~stopping
      <3>1. /\ pc' = "connecting" /\ Flushed
            /\ cfg' = IF pending.id # None THEN [from |-> pending.id, recover |-> None] ELSE cfg
        BY <2>1, <2>5 DEF Reopen
      <3>2. pending'.id = pending.id /\ pending'.at = pending.at /\ pending'.count = 0
        BY <3>1, FlushedType
      <3>3. cfg'.recover = None => cfg'.from >= 0
        <4>1. CASE pending.id # None
          <5>1. cfg'.from = pending.id  BY <3>1, <4>1
          <5> QED  BY <4>1, <5>1
        <4>2. CASE pending.id = None  BY <2>1, <3>1, <4>2
        <4> QED  BY <4>1, <4>2
      <3> QED  BY <2>1, <2>2, <2>3, <3>1, <3>2, <3>3 DEF Kept
    <2> QED  BY <2>4, <2>5
  <1>8. CASE Disconnect
    <2>1. pc = "listening" /\ pc' = "closing" /\ "disconnect" \in Faults
          /\ UNCHANGED <<cfg, window, pending, checkpoint>>
      BY <1>8 DEF Disconnect, environment, Fault
    <2> QED  BY <2>1 DEF Kept
  <1>9. CASE Kill
    <2>1. Forget /\ UNCHANGED <<window, checkpoint>>  BY <1>9 DEF Kill, environment
    <2>2. pc' = "stopped" /\ pending'.id = None /\ pending'.count = 0  BY <2>1, ForgetType
    <2> QED  BY <2>1, <2>2 DEF Kept
  <1>10. CASE Trim
    <2>1. pc = "stopped" /\ "trimStopped" \in Faults /\ UNCHANGED <<pc, cfg, pending, checkpoint>>
      BY <1>0, <1>10 DEF Trim, memory, Fault
    <2> QED  BY <2>1 DEF Kept
  <1>11. CASE UNCHANGED vars
    BY <1>11 DEF vars, environment, memory, Kept
  <1> QED
    BY <1>0, <1>1, <1>2, <1>3, <1>4, <1>5, <1>6, <1>7, <1>8, <1>9, <1>10, <1>11
       DEF Next, Consume

\* A reconnect by id finds its id in the stream, if the service has a checkpoint to begin
\* with and no connection is lost while it catches up by time (Run; main's max_catch_up).
THEOREM StreamHasTheId == ASSUME MildFaults PROVE Spec => []Kept
  <1>1. Init => KeptInv
    <2> SUFFICES ASSUME Init PROVE KeptInv  OBVIOUS
    <2>1. /\ pc = "listening" /\ window = 0 /\ checkpoint.id = 0 /\ checkpoint.at = 0
          /\ cfg.from = 0 /\ pending.id = None /\ pending.count = 0
      BY DEF Init, MildFaults, NoPending
    <2> QED  BY <2>1 DEF KeptInv, Kept
  <1>2. TypeInv /\ KeptInv /\ [Next]_vars => KeptInv'  BY NextKept
  <1>3. KeptInv => Kept  BY DEF KeptInv
  <1> QED  BY <1>1, <1>2, <1>3, TypeInvariance, PTL DEF Spec

\* No event is passed over under these faults, in any number (Flush: "ghi trước rồi chết
\* giữa chừng sẽ bỏ qua vĩnh viễn sự kiện đó").
THEOREM NothingIsSkippedMildly == ASSUME MildFaults PROVE Spec => []NothingSkipped
  <1>1. HandlersSucceed  BY DEF HandlersSucceed, MildFaults
  <1> QED  BY <1>1, StreamHasTheId, NothingIsSkipped, PTL

-----------------------------------------------------------------------------
(* What OpenCTI says.                                                      *)

\* Event e is appended, and says what becomes of the indicators it mentions.
Told(e) ==
    /\ Appended(e)
    /\ \A i \in Indicators :
         LET said == i = e.id \/ i \in e.from
             gone == i \in e.from \/ (e.kind = "delete" /\ e.id = i) IN
         /\ ~said => truth'[i] = truth[i]
         /\ said => \A k \in DOMAIN log : ~Gone(i, k)
         /\ gone => truth'[i] = Absent
         /\ said /\ ~gone => /\ truth'[i] = e.object /\ e.object # Absent
                             /\ e.object.detection \in Detections

LEMMA AnalystTells ==
    ASSUME ~Recreates, TypeInv, TruthInv, LifeInv, Analyst
    PROVE  \E e : Told(e)
  <1>0. truth \in [Indicators -> Object \cup {Absent}]  BY DEF TypeInv, TypeOK
  <1>1. ASSUME NEW i \in Indicators, Create(i) \/ Update(i) PROVE \E e : Told(e)
    <2>1. PICK object \in Edited(i), kind \in {"create", "update"} :
             /\ truth' = [truth EXCEPT ![i] = object]
             /\ Appended([kind |-> kind, id |-> i, from |-> {}, object |-> object])
      BY <1>1, CreateAppends
    <2>2. object # Absent /\ object.detection \in Detections  BY EditedType
    <2>3. \A n \in Indicators : truth'[n] = IF n = i THEN object ELSE truth[n]
      BY <1>0, <2>1
    <2>4. \A k \in DOMAIN log : ~Gone(i, k)
      BY <1>1 DEF Create, Update, LifeInv, Gone
    <2> DEFINE e == [kind |-> kind, id |-> i, from |-> {}, object |-> object]
    <2>5. e.kind \in {"create", "update"} /\ e.id = i /\ e.from = {} /\ e.object = object
      OBVIOUS
    <2>6. Appended(e)  BY <2>1
    <2> HIDE DEF e
    <2> QED  BY <2>2, <2>3, <2>4, <2>5, <2>6 DEF Told
  <1>2. ASSUME NEW i \in Indicators, Delete(i) PROVE \E e : Told(e)
    <2> DEFINE e == [kind |-> "delete", id |-> i, from |-> {}, object |-> truth[i]]
    <2>1. Live(i) /\ truth' = [truth EXCEPT ![i] = Absent] /\ Appended(e)
      BY <1>2, DeleteAppends
    <2>2. \A n \in Indicators : truth'[n] = IF n = i THEN Absent ELSE truth[n]
      BY <1>0, <2>1
    <2>3. \A k \in DOMAIN log : ~Gone(i, k)  BY <2>1 DEF LifeInv
    <2>4. e.kind = "delete" /\ e.id = i /\ e.from = {}  OBVIOUS
    <2> HIDE DEF e
    <2> QED  BY <2>1, <2>2, <2>3, <2>4 DEF Told
  <1>3. ASSUME NEW i \in Indicators, NEW j \in Indicators, Merge(i, j) PROVE \E e : Told(e)
    <2>1. PICK object \in Object :
             /\ object # Absent /\ object.detection = truth[j].detection
             /\ truth' = [truth EXCEPT ![i] = Absent, ![j] = object]
             /\ Appended([kind |-> "merge", id |-> j, from |-> {i}, object |-> object])
      BY <1>3, MergeAppends
    <2>2. Live(i) /\ Live(j) /\ i # j  BY <1>3, MergeAppends
    <2>3. object.detection \in Detections  BY <2>1, <2>2 DEF TruthInv
    <2>4. \A n \in Indicators :
             truth'[n] = IF n = j THEN object ELSE IF n = i THEN Absent ELSE truth[n]
      BY <1>0, <2>1
    <2>5. \A k \in DOMAIN log : ~Gone(i, k) /\ ~Gone(j, k)  BY <2>2 DEF LifeInv
    <2> DEFINE e == [kind |-> "merge", id |-> j, from |-> {i}, object |-> object]
    <2>6. e.kind = "merge" /\ e.id = j /\ e.from = {i} /\ e.object = object  OBVIOUS
    <2>7. Appended(e)  BY <2>1
    <2> HIDE DEF e
    <2> QED  BY <2>1, <2>2, <2>3, <2>4, <2>5, <2>6, <2>7 DEF Told
  <1> QED  BY <1>1, <1>2, <1>3 DEF Analyst

\* Only the new event, n, is new.
LEMMA ToldLog ==
    ASSUME TypeInv, NEW e, Told(e), NEW n, n = Len(log) + 1
    PROVE  /\ DOMAIN log' = DOMAIN log \cup {n} /\ n \notin DOMAIN log
           /\ log'[n] = e /\ n \in Nat
           /\ \A k \in DOMAIN log : log'[k] = log[k] /\ k \in Nat /\ k < n
           /\ \A i \in Indicators, k \in DOMAIN log :
                 /\ Mentions(i, k)' <=> Mentions(i, k)
                 /\ Gone(i, k)' <=> Gone(i, k)
           /\ \A i \in Indicators :
                 /\ Mentions(i, n)' <=> i = e.id \/ i \in e.from
                 /\ Gone(i, n)' <=> i \in e.from \/ (e.kind = "delete" /\ e.id = i)
  <1>1. Appended(e)  BY DEF Told
  <1>2. /\ DOMAIN log' = DOMAIN log \cup {n} /\ n \notin DOMAIN log
        /\ \A k \in DOMAIN log : log'[k] = log[k]
        /\ log'[n] = e
    BY <1>1, AppendedLog
  <1>3. n \in Nat /\ \A k \in DOMAIN log : k \in Nat /\ k < n
    BY LogType
  <1> QED  BY <1>2, <1>3 DEF Mentions, Gone

LEMMA ToldTruth == ASSUME TypeInv, TruthInv, NEW e, Told(e) PROVE TruthInv'
  <1>0. PICK n : n = Len(log) + 1  OBVIOUS
  <1> SUFFICES ASSUME NEW i \in Indicators, Live(i)'
               PROVE  /\ truth'[i].domains \in Patterns[i]
                      /\ truth'[i].detection \in Detections
                      /\ truth'[i].modified \in DOMAIN log'
                      /\ log'[truth'[i].modified].id = i
                      /\ log'[truth'[i].modified].kind # "delete"
                      /\ log'[truth'[i].modified].object = truth'[i]
                      /\ \A m \in DOMAIN log' : Mentions(i, m)' => m <= truth'[i].modified
    BY DEF TruthInv
  <1>1. /\ DOMAIN log' = DOMAIN log \cup {n} /\ log'[n] = e /\ n \in Nat
        /\ \A k \in DOMAIN log : log'[k] = log[k] /\ k \in Nat /\ k < n
        /\ \A k \in DOMAIN log : Mentions(i, k)' <=> Mentions(i, k)
        /\ Mentions(i, n)' <=> i = e.id \/ i \in e.from
    BY <1>0, ToldLog
  <1>2. CASE i = e.id \/ i \in e.from
    <2>1. truth'[i] # Absent  BY DEF Live
    <2>2. ~(i \in e.from) /\ ~(e.kind = "delete" /\ e.id = i)  BY <2>1 DEF Told
    <2>3. truth'[i] = e.object /\ e.object.detection \in Detections /\ e.id = i
          /\ e.kind # "delete"
      BY <1>2, <2>2 DEF Told
    <2>4. e.object.modified = n /\ e.object.domains \in Patterns[i]
      BY <1>0, <2>3 DEF Told, Appended, NextEvent
    <2>5. \A m \in DOMAIN log' : m <= n  BY <1>1
    <2> QED  BY <1>1, <2>3, <2>4, <2>5
  <1>3. CASE ~(i = e.id \/ i \in e.from)
    <2>1. truth'[i] = truth[i]  BY <1>3 DEF Told
    <2>2. Live(i)  BY <2>1 DEF Live
    <2> QED  BY <1>1, <1>3, <2>1, <2>2 DEF TruthInv
  <1> QED  BY <1>2, <1>3

LEMMA ToldLife == ASSUME TypeInv, LifeInv, NEW e, Told(e) PROVE LifeInv'
  <1>0. PICK n : n = Len(log) + 1  OBVIOUS
  <1> SUFFICES ASSUME NEW i \in Indicators
               PROVE  /\ \A k \in DOMAIN log' : Gone(i, k)' =>
                            ~Live(i)' /\ \A m \in DOMAIN log' : Mentions(i, m)' => m <= k
                      /\ \A k \in DOMAIN log' : Mentions(i, k)' =>
                            Live(i)' \/ \E m \in DOMAIN log' : Gone(i, m)'
    BY DEF LifeInv
  <1>1. /\ DOMAIN log' = DOMAIN log \cup {n} /\ n \in Nat
        /\ \A k \in DOMAIN log : k \in Nat /\ k < n
        /\ \A k \in DOMAIN log : Mentions(i, k)' <=> Mentions(i, k)
        /\ \A k \in DOMAIN log : Gone(i, k)' <=> Gone(i, k)
        /\ Mentions(i, n)' <=> i = e.id \/ i \in e.from
        /\ Gone(i, n)' <=> i \in e.from \/ (e.kind = "delete" /\ e.id = i)
    BY <1>0, ToldLog
  <1>2. CASE i = e.id \/ i \in e.from
    <2>1. \A k \in DOMAIN log : ~Gone(i, k)  BY <1>2 DEF Told
    <2>2. Gone(i, n)' => ~Live(i)'  BY <1>1 DEF Told, Live
    <2>3. ~Gone(i, n)' => Live(i)'  BY <1>1, <1>2 DEF Told, Live
    <2> QED  BY <1>1, <2>1, <2>2, <2>3
  <1>3. CASE ~(i = e.id \/ i \in e.from)
    <2>1. Live(i)' <=> Live(i)  BY <1>3 DEF Told, Live
    <2>2. ~Mentions(i, n)' /\ ~Gone(i, n)'  BY <1>1, <1>3
    <2> QED  BY <1>1, <2>1, <2>2 DEF LifeInv
  <1> QED  BY <1>2, <1>3

\* Only analysts change what is in OpenCTI and in its stream.
LEMMA OpenCTIKept == ASSUME [Next]_vars PROVE Analyst \/ UNCHANGED <<truth, log>>
  BY DEF Next, Consume, Start, Connect, Deliver, DeliverMerge, FinishMerge, Handled, Checkpoint,
         Close, FailStart, FailHandle, FailCheckpoint, FailClose, Disconnect, Stop, Kill, Trim,
           vars,
         environment

LEMMA OpenCTI ==
    ASSUME ~Recreates PROVE Spec => [](TruthInv /\ LifeInv)
  <1>1. Init => TruthInv /\ LifeInv
    <2> SUFFICES ASSUME Init PROVE TruthInv /\ LifeInv  OBVIOUS
    <2>1. DOMAIN log = {} /\ \A i \in Indicators : ~Live(i)  BY DEF Init, Live
    <2> QED  BY <2>1 DEF TruthInv, LifeInv
  <1>2. TypeInv /\ TruthInv /\ LifeInv /\ [Next]_vars => TruthInv' /\ LifeInv'
    <2> SUFFICES ASSUME TypeInv, TruthInv, LifeInv, [Next]_vars PROVE TruthInv' /\ LifeInv'
      OBVIOUS
    <2>1. CASE Analyst  BY <2>1, AnalystTells, ToldTruth, ToldLife
    <2>2. CASE UNCHANGED <<truth, log>>
      BY <2>2 DEF TruthInv, LifeInv, Live, Mentions, Gone
    <2> QED  BY <2>1, <2>2, OpenCTIKept
  <1> QED  BY <1>1, <1>2, TypeInvariance, PTL DEF Spec

-----------------------------------------------------------------------------
(* Revocation.                                                             *)

\* Indicators have domains of their own, and no deleted id comes back.
Separate ==
    /\ ~Recreates
    /\ \A i, j \in Indicators : i # j =>
          \A p \in Patterns[i], q \in Patterns[j] : p \cap q = {}

\* The row of a domain that i may name is i's, unless a merge has taken it away.
RecordInv ==
    \A d \in Domains :
        /\ db.rows[d].record = NoIndicator => ~db.rows[d].revoked
        /\ \A i \in Indicators : \A p \in Patterns[i] :
              d \in p => \/ db.rows[d].record \in {NoIndicator, i}
                        \/ \E m \in DOMAIN log : i \in log[m].from

LEMMA UpsertRecord ==
    ASSUME Separate, TypeInv, RecordInv, pos \in DOMAIN log, db' = HandleUpsert(db, log[pos]),
           UNCHANGED log
    PROVE  RecordInv'
  <1> DEFINE ev == log[pos]
  <1>1. /\ ev \in Event /\ ev.id \in Indicators /\ ev.object.domains \in Patterns[ev.id]
        /\ db \in Database
    BY LogType, Unfolded
  <1>2. ev.id # NoIndicator  BY <1>1, SyncAssumption
  <1> HIDE DEF ev
  <1>3. CASE db' = db  BY <1>3 DEF RecordInv
  <1>4. CASE db' # db
    <2>1. ~Stale(db, ev) /\ db' = UpsertOpenCTI(db, ev)
      BY <1>1, <1>4, UpsertRows DEF HandleUpsert, ev
    <2> SUFFICES ASSUME NEW d \in Domains
                 PROVE  /\ db'.rows[d].record = NoIndicator => ~db'.rows[d].revoked
                        /\ \A i \in Indicators : \A p \in Patterns[i] :
                              d \in p => \/ db'.rows[d].record \in {NoIndicator, i}
                                        \/ \E m \in DOMAIN log' : i \in log'[m].from
      BY DEF RecordInv
    <2>2. db'.rows[d] = IF d \in ev.object.domains THEN RowOf(ev) ELSE db.rows[d]
      BY <1>1, <2>1, UpsertRows
    <2>3. CASE d \in ev.object.domains
      <3>1. db'.rows[d].record = ev.id  BY <2>2, <2>3 DEF RowOf
      <3>2. \A i \in Indicators : \A p \in Patterns[i] : d \in p => i = ev.id
        BY <1>1, <2>3 DEF Separate
      <3> QED  BY <1>2, <3>1, <3>2
    <2>4. CASE d \notin ev.object.domains
      <3>1. db'.rows[d] = db.rows[d]  BY <2>2, <2>4
      <3> QED  BY <3>1 DEF RecordInv
    <2> QED  BY <2>3, <2>4
  <1> QED  BY <1>3, <1>4

LEMMA DeleteRecord ==
    ASSUME TypeInv, RecordInv, NEW i \in Indicators, db' = DeleteOpenCTI(db, i), UNCHANGED log
    PROVE  RecordInv'
  <1>1. \A d \in Domains :
           db'.rows[d] = IF db.rows[d].record = i THEN SwitchedOff(db.rows[d]) ELSE db.rows[d]
    BY Unfolded, DeleteRows
  <1>2. \A d \in Domains : /\ db'.rows[d].record = db.rows[d].record
                           /\ db'.rows[d].revoked => db.rows[d].revoked
                           /\ db.rows[d].revoked \in BOOLEAN /\ db'.rows[d].revoked \in BOOLEAN
    <2> SUFFICES ASSUME NEW d \in Domains
                 PROVE  /\ db'.rows[d].record = db.rows[d].record
                        /\ db'.rows[d].revoked => db.rows[d].revoked
                        /\ db.rows[d].revoked \in BOOLEAN /\ db'.rows[d].revoked \in BOOLEAN
      OBVIOUS
    <2>1. db.rows[d] \in RowType  BY Unfolded, RowsType
    <2>2. /\ SwitchedOff(db.rows[d]).record = db.rows[d].record
          /\ SwitchedOff(db.rows[d]).revoked = FALSE
      BY <2>1 DEF RowType, SwitchedOff
    <2> QED  BY <1>1, <2>1, <2>2 DEF RowType
  <1> QED  BY <1>2 DEF RecordInv

LEMMA MergeRecord ==
    ASSUME TypeInv, RecordInv, DeliverMerge PROVE RecordInv'
  <1>1. /\ pos \in DOMAIN log /\ db' = MergeOpenCTI(db, log[pos].from, log[pos].id)
        /\ UNCHANGED log
    BY DEF DeliverMerge, environment
  <1>2. /\ log[pos].from \in SUBSET Indicators /\ log[pos].id \in Indicators
        /\ log[pos].id \notin log[pos].from /\ db \in Database
        /\ NoIndicator \notin Indicators
    BY <1>1, LogType, Unfolded, SyncAssumption
  <1> SUFFICES ASSUME NEW d \in Domains
               PROVE  /\ db'.rows[d].record = NoIndicator => ~db'.rows[d].revoked
                      /\ \A i \in Indicators : \A p \in Patterns[i] :
                            d \in p => \/ db'.rows[d].record \in {NoIndicator, i}
                                      \/ \E m \in DOMAIN log' : i \in log'[m].from
    BY DEF RecordInv
  <1>3. db'.rows[d] = IF db.rows[d].record \in log[pos].from
                      THEN Renamed(db.rows[d], log[pos].id) ELSE db.rows[d]
    BY <1>1, <1>2, MergeRows
  <1>4. CASE db.rows[d].record \in log[pos].from
    <2>1. db'.rows[d].record = log[pos].id
      <3>1. db.rows[d] \in RowType  BY <1>2, RowsType
      <3>2. Renamed(db.rows[d], log[pos].id).record = log[pos].id  BY <1>2, <3>1, RowChanges
      <3> QED  BY <1>3, <1>4, <3>2
    <2>2. ASSUME NEW i \in Indicators, NEW p \in Patterns[i], d \in p
          PROVE  \E m \in DOMAIN log : i \in log[m].from
      <3>1. CASE db.rows[d].record = i  BY <1>1, <1>4, <3>1
      <3>2. CASE db.rows[d].record # i
        <4>1. db.rows[d].record # NoIndicator  BY <1>2, <1>4
        <4> QED  BY <2>2, <3>2, <4>1 DEF RecordInv
      <3> QED  BY <3>1, <3>2
    <2> QED  BY <1>1, <1>2, <2>1, <2>2
  <1>5. CASE db.rows[d].record \notin log[pos].from
    <2>1. db'.rows[d] = db.rows[d]  BY <1>3, <1>5
    <2> QED  BY <1>1, <2>1 DEF RecordInv
  <1> QED  BY <1>4, <1>5

\* Nothing else touches the rows; the log only grows.
LEMMA NextRecord ==
    ASSUME Separate, TypeInv, RecordInv, [Next]_vars PROVE RecordInv'
  <1>1. CASE Deliver
    <2>1. /\ pos \in DOMAIN log /\ db' = Handle(db, log[pos]) /\ UNCHANGED log
          /\ log[pos].kind # "merge" /\ log[pos].id \in Indicators
      BY <1>1, LogType DEF Deliver, Handled, environment
    <2>2. CASE log[pos].kind = "delete"
      <3>1. db' = DeleteOpenCTI(db, log[pos].id)  BY <2>1, <2>2 DEF Handle
      <3> QED  BY <2>1, <3>1, DeleteRecord
    <2>3. CASE log[pos].kind # "delete"
      <3>1. db' = HandleUpsert(db, log[pos])  BY <2>1, <2>3 DEF Handle
      <3> QED  BY <2>1, <3>1, UpsertRecord
    <2> QED  BY <2>2, <2>3
  <1>2. CASE DeliverMerge  BY <1>2, MergeRecord
  <1>3. CASE FinishMerge
    <2>1. pos \in DOMAIN log /\ db' = HandleUpsert(db, log[pos]) /\ UNCHANGED log
      BY <1>3, Unfolded DEF FinishMerge, Handled, environment
    <2> QED  BY <2>1, UpsertRecord
  <1>4. CASE Analyst
    <2>1. PICK e : Appended(e)  BY <1>4, AnalystAppends
    <2>2. DOMAIN log \subseteq DOMAIN log' /\ \A k \in DOMAIN log : log'[k] = log[k]
      BY <2>1, AppendedLog
    <2>3. db' = db  BY <2>1, AppendedLog
    <2> QED  BY <2>2, <2>3 DEF RecordInv
  <1>5. CASE UNCHANGED <<log, db>>  BY <1>5 DEF RecordInv
  <1> QED
    BY <1>1, <1>2, <1>3, <1>4, <1>5
       DEF Next, Consume, Start, Connect, Checkpoint, Close, FailStart, FailHandle, FailCheckpoint,
           FailClose, Disconnect, Stop, Kill, Trim, vars, environment

\* What RevocationSticks asks of a step.
Sticks ==
    \A d \in Domains :
        LET row == db.rows[d] IN
        row.revoked /\ db'.rows[d].active /\ ~db'.rows[d].revoked =>
            \/ db'.rows[d].modified > row.modified
            \/ pos \in DOMAIN log /\ MergedLater(pos)

\* An event that overwrites a revoked row is about its indicator and newer, or about one
\* that had the row before a merge.
LEMMA UpsertSticks ==
    ASSUME Separate, TypeInv, LifeInv, RecordInv, pos \in DOMAIN log,
           db' = HandleUpsert(db, log[pos])
    PROVE  Sticks
  <1> DEFINE ev == log[pos]
  <1>1. /\ ev \in Event /\ ev.id \in Indicators /\ ev.object.domains \in Patterns[ev.id]
        /\ db \in Database /\ ev.object.modified \in Nat
    BY LogType, Unfolded
  <1> SUFFICES ASSUME NEW d \in Domains, db.rows[d].revoked, ~db'.rows[d].revoked
               PROVE  db'.rows[d].modified > db.rows[d].modified \/ MergedLater(pos)
    BY DEF Sticks
  <1>2. ~Stale(db, ev) /\ db' = UpsertOpenCTI(db, ev)
    BY <1>1, UpsertRows DEF HandleUpsert
  <1>3. db'.rows[d] = IF d \in ev.object.domains THEN RowOf(ev) ELSE db.rows[d]
    BY <1>1, <1>2, UpsertRows
  <1>4. d \in ev.object.domains /\ db'.rows[d].modified = ev.object.modified
    BY <1>3 DEF RowOf
  <1>5. db.rows[d].modified \in Nat  BY <1>1, RowsType
  <1>6. CASE db.rows[d].record = ev.id
    BY <1>1, <1>2, <1>4, <1>5, <1>6 DEF Stale
  <1>7. CASE db.rows[d].record # ev.id
    <2>1. PICK m \in DOMAIN log : ev.id \in log[m].from
      BY <1>1, <1>4, <1>7 DEF RecordInv
    <2>2. Gone(ev.id, m) /\ Mentions(ev.id, pos)  BY <2>1 DEF Gone, Mentions, ev
    <2>3. pos <= m  BY <1>1, <2>2 DEF LifeInv
    <2>4. pos # m /\ pos \in Nat /\ m \in Nat  BY <2>1, LogType
    <2> QED  BY <2>1, <2>3, <2>4 DEF MergedLater
  <1> QED  BY <1>6, <1>7

\* Each transaction of the handlers does one of these.
LEMMA StepSticks ==
    ASSUME Separate, TypeInv, LifeInv, RecordInv, [Next]_vars PROVE Sticks
  <1>1. CASE Deliver
    <2>1. /\ pos \in DOMAIN log /\ db' = Handle(db, log[pos]) /\ log[pos].kind # "merge"
          /\ log[pos].id \in Indicators /\ db \in Database
      BY <1>1, LogType, Unfolded DEF Deliver
    <2>2. CASE log[pos].kind = "delete"
      <3>1. db' = DeleteOpenCTI(db, log[pos].id)  BY <2>1, <2>2 DEF Handle
      <3>2. ASSUME NEW d \in Domains, db.rows[d].revoked, db'.rows[d].active
            PROVE  db'.rows[d].revoked
        <4>1. db.rows[d] \in RowType  BY <2>1, RowsType
        <4>2. ~SwitchedOff(db.rows[d]).active  BY <4>1 DEF SwitchedOff, RowType
        <4> QED  BY <2>1, <3>1, <3>2, <4>2, DeleteRows
      <3> QED  BY <3>2 DEF Sticks
    <2>3. CASE log[pos].kind # "delete"
      <3>1. db' = HandleUpsert(db, log[pos])  BY <2>1, <2>3 DEF Handle
      <3> QED  BY <2>1, <3>1, UpsertSticks
    <2> QED  BY <2>2, <2>3
  <1>2. CASE DeliverMerge
    <2>1. /\ db' = MergeOpenCTI(db, log[pos].from, log[pos].id)
          /\ log[pos].from \in SUBSET Indicators /\ log[pos].id \in Indicators
          /\ log[pos].id \notin log[pos].from /\ db \in Database
      BY <1>2, LogType, Unfolded DEF DeliverMerge
    <2>2. ASSUME NEW d \in Domains PROVE db'.rows[d].revoked = db.rows[d].revoked
      <3>1. db.rows[d] \in RowType  BY <2>1, RowsType
      <3>2. Renamed(db.rows[d], log[pos].id).revoked = db.rows[d].revoked
        BY <2>1, <3>1, RowChanges
      <3> QED  BY <2>1, <3>2, MergeRows
    <2> QED  BY <2>2 DEF Sticks
  <1>3. CASE FinishMerge
    <2>1. pos \in DOMAIN log /\ db' = HandleUpsert(db, log[pos])
      BY <1>3, Unfolded DEF FinishMerge
    <2> QED  BY <2>1, UpsertSticks
  <1>4. CASE db' = db  BY <1>4 DEF Sticks
  <1> QED
    BY <1>1, <1>2, <1>3, <1>4
       DEF Next, Consume, Analyst, Create, Update, Delete, Merge, Emit, Start, Connect, Checkpoint,
           Close, FailStart, FailHandle, FailCheckpoint, FailClose, Disconnect, Stop, Kill, Trim,
           vars

\* Whatever is replayed, fails or is lost, an old event takes the veto from a revoked row
\* only if a merge has since taken the row from its indicator (isStale in
\* internal/store/opencti.go).
THEOREM RevocationsStick == ASSUME Separate PROVE Spec => RevocationSticks
  <1>1. TypeInv /\ LifeInv /\ RecordInv /\ [Next]_vars =>
          [\A d \in Domains :
              LET row == db.rows[d] IN
              row.revoked /\ db'.rows[d].active /\ ~db'.rows[d].revoked =>
                  \/ db'.rows[d].modified > row.modified
                  \/ pos \in DOMAIN log /\ MergedLater(pos)]_vars
    BY StepSticks DEF Sticks
  <1>2. Init => RecordInv
    BY DEF Init, EmptyDatabase, NoRow, RecordInv
  <1>3. TypeInv /\ RecordInv /\ [Next]_vars => RecordInv'  BY NextRecord
  <1>4. Spec => [](TruthInv /\ LifeInv)  BY OpenCTI DEF Separate
  <1> QED  BY <1>1, <1>2, <1>3, <1>4, TypeInvariance, PTL DEF Spec, RevocationSticks

-----------------------------------------------------------------------------
(* Rows and OpenCTI.                                                       *)

MirrorInv == TypeInv /\ ProgressInv /\ TruthInv /\ LifeInv /\ VerdictInv /\ ActiveInv

\* What becomes of the verdicts depends on no other variable.
LEMMA SameVerdicts ==
    ASSUME VerdictInv, UNCHANGED <<truth, log, db, applied>> PROVE VerdictInv'
  BY DEF VerdictInv, LastWrite, Writes, Written, Live

\* The event is the first or a replay: what is applied has no gaps.
LEMMA FirstOrReplay ==
    ASSUME TypeInv, ProgressInv
    PROVE  /\ pos \notin applied => \A k \in applied : k < pos
           /\ \A k \in applied : k \in DOMAIN log /\ k \in Nat
  <1>1. \A k \in applied : k \in DOMAIN log /\ k \in Nat /\ 1..k \subseteq applied
    BY LogType DEF ProgressInv
  <1>2. pos \in Nat /\ pos >= 1  BY Unfolded
  <1> QED  BY <1>1, <1>2

LEMMA StaleIsReplay ==
    ASSUME TypeInv, ProgressInv, VerdictInv, pos \in DOMAIN log, log[pos].kind # "delete",
           Stale(db, log[pos])
    PROVE  pos \in applied
  <1> SUFFICES ASSUME pos \notin applied PROVE FALSE  OBVIOUS
  <1>1. log[pos].object.modified = pos /\ pos \in Nat /\ pos >= 1 /\ db \in Database
    BY LogType, Unfolded
  <1>2. PICK d \in Domains : db.rows[d].modified >= pos  BY <1>1 DEF Stale
  <1>3. db.rows[d].modified \in applied \cup {0} /\ db.rows[d].modified \in Nat
    BY <1>1, RowsType DEF VerdictInv
  <1> QED  BY <1>1, <1>2, <1>3, FirstOrReplay

\* An event that is applied for the first time is never stale and becomes the last write of
\* its indicator; a replay is stale as long as the indicator is there (isStale).
LEMMA UpsertVerdict ==
    ASSUME Separate, TypeInv, ProgressInv, VerdictInv, pos \in DOMAIN log,
           log[pos].kind # "delete", db' = HandleUpsert(db, log[pos]),
           applied' = applied \cup {pos}, UNCHANGED <<truth, log>>
    PROVE  VerdictInv'
  <1> DEFINE e == log[pos]
  <1>1. /\ e \in Event /\ db \in Database /\ pos \in Nat /\ pos >= 1
        /\ e.id \in Indicators /\ e.object.modified = pos /\ e.object.domains \in SUBSET Domains
        /\ e.object.domains \in Patterns[e.id]
    BY LogType, Unfolded
  <1>2. /\ ~Writable(e.object) => db' = db
        /\ Writable(e.object) => db' = UpsertOpenCTI(db, e)
    BY DEF HandleUpsert
  <1>3. /\ pos \notin applied => \A k \in applied : k < pos
        /\ \A k \in applied : k \in DOMAIN log /\ k \in Nat
    BY FirstOrReplay
  <1>4. RowOf(e) = Written(pos)  BY <1>1 DEF RowOf, Written
  <1> DEFINE touched == Writable(e.object) /\ ~Stale(db, e)
  <1>5. \A d \in Domains :
           db'.rows[d] = IF touched /\ d \in e.object.domains THEN Written(pos) ELSE db.rows[d]
    <2>1. CASE touched  BY <1>1, <1>2, <1>4, <2>1, UpsertRows
    <2>2. CASE ~touched  BY <1>1, <1>2, <2>2, UpsertRows
    <2> QED  BY <2>1, <2>2
  <1>6. \A d \in Domains : db.rows[d].modified \in applied \cup {0} /\ db.rows[d].modified \in Nat
    BY <1>1, RowsType DEF VerdictInv
  <1>7. Stale(db, e) => pos \in applied  BY StaleIsReplay
  <1>8. \A d \in Domains : db'.rows[d].modified \in applied' \cup {0}
    <2>1. Written(pos).modified = pos  BY DEF Written
    <2> QED  BY <1>5, <1>6, <2>1
  <1>9. ASSUME NEW i \in Indicators, NEW k \in applied', Live(i)', LastWrite(i, k)'
        PROVE  \A d \in log[k].object.domains : db'.rows[d] = Written(k)
    <2>1. /\ Live(i) /\ Writes(k) /\ log[k].id = i
          /\ \A m \in applied' : m > k => ~(Writes(m) /\ log[m].id = i)
      BY <1>9 DEF Live, LastWrite, Writes
    <2>2. k \in DOMAIN log /\ k \in Nat  BY <1>1, <1>3
    <2>3. log[k].object.domains \in SUBSET Domains /\ log[k].object.domains \in Patterns[i]
      BY <2>1, <2>2, LogType
    <2>4. k \in applied => \A d \in log[k].object.domains : db.rows[d] = Written(k)
      BY <2>1 DEF VerdictInv, LastWrite
    <2>5. CASE i # e.id \/ ~Writable(e.object)
      <3>1. k # pos  BY <2>1, <2>5 DEF Writes
      <3>2. k \in applied  BY <3>1
      <3>3. i # e.id => log[k].object.domains \cap e.object.domains = {}
        BY <1>1, <2>3 DEF Separate
      <3> HIDE DEF e
      <3>4. \A d \in log[k].object.domains : db'.rows[d] = db.rows[d]
        BY <1>5, <2>3, <2>5, <3>3
      <3> QED  BY <2>4, <3>2, <3>4
    <2>6. CASE i = e.id /\ Writable(e.object)
      <3>1. Writes(pos) /\ log[pos].id = i /\ pos \in applied'  BY <2>6 DEF Writes
      <3>2. ~(pos > k)  BY <2>1, <3>1
      <3>3. CASE pos \in applied
        <4>1. k \in applied  BY <3>3
        <4>2. log[k].object.domains # {}  BY <2>1 DEF Writes, Writable
        <4>3. PICK d \in log[k].object.domains : TRUE  BY <4>2
        <4>4. db.rows[d] = Written(k) /\ d \in Domains  BY <2>3, <2>4, <4>1
        <4>5. db.rows[d].record = e.id /\ db.rows[d].modified >= e.object.modified
          BY <1>1, <2>1, <2>2, <2>6, <3>2, <4>4 DEF Written
        <4>6. Stale(db, e)  BY <4>4, <4>5 DEF Stale
        <4>7. \A c \in log[k].object.domains : db'.rows[c] = db.rows[c]
          BY <1>5, <2>3, <4>6
        <4> QED  BY <2>4, <4>1, <4>7
      <3>4. CASE pos \notin applied
        <4>1. k = pos  BY <1>1, <1>3, <2>2, <3>2, <3>4
        <4>2. touched  BY <1>7, <2>6, <3>4
        <4> QED  BY <1>5, <2>3, <4>1, <4>2
      <3> QED  BY <3>3, <3>4
    <2> QED  BY <2>5, <2>6
  <1>10. \A k : Written(k)' = Written(k) /\ log'[k] = log[k]  BY DEF Written
  <1> QED  BY <1>8, <1>9, <1>10 DEF VerdictInv

\* A deletion leaves the rows of the others as they are.
LEMMA DeleteVerdict ==
    ASSUME TypeInv, ProgressInv, LifeInv, VerdictInv, pos \in DOMAIN log,
           log[pos].kind = "delete",
           db' = DeleteOpenCTI(db, log[pos].id), applied' = applied \cup {pos},
           UNCHANGED <<truth, log>>
    PROVE  VerdictInv'
  <1> DEFINE j == log[pos].id
  <1>1. db \in Database /\ j \in Indicators /\ Gone(j, pos)  BY LogType, Unfolded DEF Gone
  <1>2. ~Live(j)  BY <1>1 DEF LifeInv
  <1>3. \A d \in Domains : /\ db'.rows[d].modified = db.rows[d].modified
                           /\ db.rows[d].record # j => db'.rows[d] = db.rows[d]
    BY <1>1, DeleteRows, RowsType, RowChanges
  <1>4. ASSUME NEW i \in Indicators, NEW k \in applied', Live(i)', LastWrite(i, k)'
        PROVE  \A d \in log[k].object.domains : db'.rows[d] = Written(k)
    <2>1. Live(i) /\ i # j  BY <1>2, <1>4 DEF Live
    <2>2. k \in applied /\ LastWrite(i, k)  BY <1>4 DEF LastWrite, Writes
    <2>3. \A d \in log[k].object.domains : db.rows[d] = Written(k)
      BY <2>1, <2>2 DEF VerdictInv
    <2>4. log[k].id = i  BY <2>2 DEF LastWrite
    <2>5. \A d \in log[k].object.domains : db.rows[d].record # j
      BY <2>1, <2>3, <2>4 DEF Written
    <2>6. log[k].object.domains \subseteq Domains
      BY <2>2, FirstOrReplay, LogType
    <2> QED  BY <1>3, <2>3, <2>5, <2>6
  <1>5. \A k : Written(k)' = Written(k) /\ log'[k] = log[k]  BY DEF Written
  <1> QED  BY <1>3, <1>4, <1>5 DEF VerdictInv

\* A merge takes no row from an indicator that is there.
LEMMA MergeVerdict ==
    ASSUME TypeInv, ProgressInv, LifeInv, VerdictInv, DeliverMerge
    PROVE  VerdictInv'
  <1> DEFINE from == log[pos].from
  <1>1. /\ pos \in DOMAIN log /\ db' = MergeOpenCTI(db, from, log[pos].id)
        /\ UNCHANGED <<truth, log, applied>>
    BY DEF DeliverMerge, environment
  <1>2. /\ db \in Database /\ log[pos].id \in Indicators /\ from \in SUBSET Indicators
        /\ log[pos].id \notin from
    BY <1>1, LogType, Unfolded
  <1>3. \A i \in from : ~Live(i)  BY <1>1, <1>2 DEF LifeInv, Gone
  <1>4. \A d \in Domains : /\ db'.rows[d].modified = db.rows[d].modified
                           /\ db.rows[d].record \notin from => db'.rows[d] = db.rows[d]
    <2> HIDE DEF from
    <2>1. \A d \in Domains : db.rows[d] \in RowType  BY <1>2, RowsType
    <2>2. \A d \in Domains :
             db'.rows[d] = IF db.rows[d].record \in from THEN Renamed(db.rows[d], log[pos].id)
                           ELSE db.rows[d]
      BY <1>1, <1>2, MergeRows
    <2>3. \A d \in Domains : Renamed(db.rows[d], log[pos].id).modified = db.rows[d].modified
      BY <1>2, <2>1, RowChanges
    <2> QED  BY <2>2, <2>3
  <1>5. ASSUME NEW i \in Indicators, NEW k \in applied, Live(i), LastWrite(i, k)
        PROVE  \A d \in log[k].object.domains : db'.rows[d] = Written(k)
    <2>1. \A d \in log[k].object.domains : db.rows[d] = Written(k)  BY <1>5 DEF VerdictInv
    <2>2. log[k].id = i /\ i \notin from  BY <1>3, <1>5 DEF LastWrite
    <2>3. \A d \in log[k].object.domains : db.rows[d].record \notin from
      BY <2>1, <2>2 DEF Written
    <2>4. log[k].object.domains \subseteq Domains  BY FirstOrReplay, LogType
    <2> QED  BY <1>4, <2>1, <2>3, <2>4
  <1>6. \A d \in Domains : db'.rows[d].modified \in applied' \cup {0}
    BY <1>1, <1>4 DEF VerdictInv
  <1>7. \A i, k : /\ LastWrite(i, k)' <=> LastWrite(i, k)
                  /\ Live(i)' <=> Live(i)
                  /\ Written(k)' = Written(k)
    BY <1>1 DEF LastWrite, Writes, Live, Written
  <1> QED  BY <1>1, <1>5, <1>6, <1>7 DEF VerdictInv

\* An edit changes no row, and an indicator that is new has written none.
LEMMA ToldVerdict ==
    ASSUME TypeInv, ProgressInv, LifeInv, VerdictInv, NEW e, Told(e)
    PROVE  VerdictInv'
  <1>1. PICK n : n = Len(log) + 1  OBVIOUS
  <1>2. /\ \A k \in DOMAIN log : log'[k] = log[k]
        /\ \A i \in Indicators, k \in DOMAIN log : Mentions(i, k)' <=> Mentions(i, k)
    BY <1>1, ToldLog
  <1>3. UNCHANGED <<db, applied>>  BY AppendedLog DEF Told
  <1>4. \A k \in applied : k \in DOMAIN log  BY FirstOrReplay
  <1>5. ASSUME NEW i \in Indicators, NEW k \in applied, Live(i)', LastWrite(i, k)'
        PROVE  \A d \in log[k].object.domains : db.rows[d] = Written(k)
    <2>1. LastWrite(i, k)  BY <1>2, <1>3, <1>4, <1>5 DEF LastWrite, Writes
    <2>2. Mentions(i, k)  BY <2>1 DEF LastWrite, Mentions
    <2>3. Live(i)
      <3>1. CASE i = e.id \/ i \in e.from
        <4>1. \A m \in DOMAIN log : ~Gone(i, m)  BY <3>1 DEF Told
        <4> QED  BY <1>4, <2>2, <4>1 DEF LifeInv
      <3>2. CASE ~(i = e.id \/ i \in e.from)
        BY <1>5, <3>2 DEF Told, Live
      <3> QED  BY <3>1, <3>2
    <2> QED  BY <2>1, <2>3 DEF VerdictInv
  <1>6. \A k \in applied : Written(k)' = Written(k) /\ log'[k] = log[k]
    BY <1>2, <1>4 DEF Written
  <1> QED  BY <1>3, <1>5, <1>6 DEF VerdictInv

-----------------------------------------------------------------------------
(* Rows that nobody owns.                                                  *)

\* An indicator that event k mentions and leaves there is there, or goes later.
LEMMA OwnsAfter ==
    ASSUME TypeInv, LifeInv, NEW i \in Indicators, NEW k \in DOMAIN log,
           Mentions(i, k), ~Gone(i, k)
    PROVE  Owns(i, k + 1)
  <1>1. CASE Live(i)  BY <1>1 DEF Owns
  <1>2. CASE ~Live(i)
    <2>1. PICK m \in DOMAIN log : Gone(i, m)  BY <1>2 DEF LifeInv
    <2>2. k <= m /\ k # m /\ k \in Nat /\ m \in Nat  BY <2>1, LogType DEF LifeInv
    <2> QED  BY <2>1, <2>2 DEF Owns
  <1> QED  BY <1>1, <1>2

\* Past an event that leaves it there.
LEMMA OwnsNext ==
    ASSUME TypeInv, NEW i \in Indicators, NEW k \in DOMAIN log, Owns(i, k), ~Gone(i, k)
    PROVE  Owns(i, k + 1)
  <1>1. \A m \in DOMAIN log : m \in Nat  BY LogType
  <1> QED  BY <1>1 DEF Owns

\* The place falls back.
LEMMA OwnsBefore ==
    ASSUME TypeInv, NEW i \in Indicators, NEW k \in Int, NEW n \in Int,
           Owns(i, k), n <= k \/ n <= 1
    PROVE  Owns(i, n)
  <1>1. \A m \in DOMAIN log : m \in Nat /\ m >= 1  BY LogType
  <1> QED  BY <1>1 DEF Owns

\* The consumer handles the event of its place: OpenCTI and the stream stay.
LEMMA OwnsKept ==
    ASSUME UNCHANGED <<truth, log>>
    PROVE  \A i, k : Owns(i, k)' <=> Owns(i, k)
  BY DEF Owns, Gone, Live

LEMMA AheadIs ==
    /\ pc = "merged" => Ahead = pos + 1
    /\ pc \in {"listening", "checkpoint"} => Ahead = pos
    /\ pc \notin {"merged", "listening", "checkpoint"} => Ahead = Place
    /\ pc' = "merged" => Ahead' = pos' + 1
    /\ pc' \in {"listening", "checkpoint"} => Ahead' = pos'
    /\ pc' \notin {"merged", "listening", "checkpoint"} => Ahead' = Place'
  BY PlaceIs DEF Ahead, Connected

LEMMA UpsertActive ==
    ASSUME TypeInv, LifeInv, ActiveInv, pos \in DOMAIN log, UNCHANGED <<truth, log>>,
           db' = HandleUpsert(db, log[pos]), Ahead' = pos + 1,
           Ahead = pos + 1 \/ (Ahead = pos /\ log[pos].kind \in {"create", "update"}),
           log[pos].kind # "delete"
    PROVE  ActiveInv'
  <1> DEFINE e == log[pos]
  <1>1. e \in Event /\ db \in Database /\ e.id \in Indicators /\ e.id \notin e.from
        /\ (e.kind # "merge" => e.from = {})
    BY LogType, Unfolded
  <1>2. \A d \in Domains : db'.rows[d] \in {db.rows[d], RowOf(e)}
    BY <1>1, UpsertRows DEF HandleUpsert
  <1>3. Owns(e.id, pos + 1)
    BY <1>1, OwnsAfter DEF Mentions, Gone
  <1>4. ASSUME NEW d \in Domains, db.rows[d].active
        PROVE  db.rows[d].record \in Indicators /\ Owns(db.rows[d].record, pos + 1)
    <2>1. db.rows[d].record \in Indicators /\ Owns(db.rows[d].record, Ahead)
      BY <1>4 DEF ActiveInv
    <2>2. CASE Ahead = pos + 1  BY <2>1, <2>2
    <2>3. CASE Ahead = pos /\ log[pos].kind \in {"create", "update"}
      <3>1. ~Gone(db.rows[d].record, pos)  BY <1>1, <2>3 DEF Gone
      <3>2. Owns(db.rows[d].record, pos)  BY <2>1, <2>3
      <3> QED  BY <2>1, <3>1, <3>2, OwnsNext
    <2> QED  BY <2>2, <2>3
  <1>5. RowOf(e).record = e.id  BY DEF RowOf
  <1>6. ASSUME NEW d \in Domains, db'.rows[d].active
        PROVE  db'.rows[d].record \in Indicators /\ Owns(db'.rows[d].record, pos + 1)
    <2> HIDE DEF e
    <2>1. CASE db'.rows[d] = db.rows[d]  BY <1>4, <1>6, <2>1
    <2>2. CASE db'.rows[d] = RowOf(e)  BY <1>1, <1>3, <1>5, <2>2
    <2> QED  BY <1>2, <2>1, <2>2
  <1>7. \A i, k : Owns(i, k)' <=> Owns(i, k)  BY OwnsKept
  <1> QED  BY <1>6, <1>7 DEF ActiveInv

LEMMA DeleteActive ==
    ASSUME TypeInv, ActiveInv, pos \in DOMAIN log, log[pos].kind = "delete",
           UNCHANGED <<truth, log>>, db' = DeleteOpenCTI(db, log[pos].id),
           Ahead = pos, Ahead' = pos + 1
    PROVE  ActiveInv'
  <1> DEFINE j == log[pos].id
  <1>1. db \in Database /\ j \in Indicators /\ log[pos].from = {}  BY LogType, Unfolded
  <1> SUFFICES ASSUME NEW d \in Domains, db'.rows[d].active
               PROVE  db'.rows[d].record \in Indicators /\ Owns(db'.rows[d].record, pos + 1)
    BY OwnsKept DEF ActiveInv
  <1>2. db'.rows[d] = db.rows[d] /\ db.rows[d].record # j
    <2>1. db.rows[d] \in RowType  BY <1>1, RowsType
    <2>2. ~SwitchedOff(db.rows[d]).active  BY <1>1, <2>1, RowChanges
    <2>3. db'.rows[d] = IF db.rows[d].record = j THEN SwitchedOff(db.rows[d]) ELSE db.rows[d]
      BY <1>1, DeleteRows
    <2> QED  BY <2>2, <2>3
  <1>3. db.rows[d].record \in Indicators /\ Owns(db.rows[d].record, pos)
    BY <1>2 DEF ActiveInv
  <1>4. ~Gone(db.rows[d].record, pos)  BY <1>1, <1>2 DEF Gone
  <1> QED  BY <1>2, <1>3, <1>4, OwnsNext

\* The rows of an indicator that is merged away go to the survivor.
LEMMA MergeActive ==
    ASSUME TypeInv, LifeInv, ActiveInv, DeliverMerge
    PROVE  ActiveInv'
  <1> DEFINE from == log[pos].from
             j == log[pos].id
  <1>1. /\ pos \in DOMAIN log /\ db' = MergeOpenCTI(db, from, j) /\ log[pos].kind = "merge"
        /\ pc = "listening" /\ pc' = "merged" /\ UNCHANGED <<truth, log, pos>>
    BY DEF DeliverMerge, environment
  <1>2. db \in Database /\ j \in Indicators /\ from \in SUBSET Indicators /\ j \notin from
    BY <1>1, LogType, Unfolded
  <1>3. Ahead = pos /\ Ahead' = pos + 1  BY <1>1, AheadIs
  <1> SUFFICES ASSUME NEW d \in Domains, db'.rows[d].active
               PROVE  db'.rows[d].record \in Indicators /\ Owns(db'.rows[d].record, pos + 1)
    BY <1>1, <1>3, OwnsKept DEF ActiveInv
  <1>4. \A i : Gone(i, pos) <=> i \in from  BY <1>1 DEF Gone
  <1>5. db'.rows[d] = IF db.rows[d].record \in from THEN Renamed(db.rows[d], j) ELSE db.rows[d]
    <2> HIDE DEF from, j
    <2> QED  BY <1>1, <1>2, MergeRows
  <1>6. CASE db.rows[d].record \in from
    <2>1. db.rows[d] \in RowType  BY <1>2, RowsType
    <2>2. Renamed(db.rows[d], j).record = j  BY <1>2, <2>1, RowChanges
    <2>3. Owns(j, pos + 1)  BY <1>1, <1>2, <1>4, OwnsAfter DEF Mentions
    <2> QED  BY <1>2, <1>5, <1>6, <2>2, <2>3
  <1>7. CASE db.rows[d].record \notin from
    <2>1. db.rows[d].record \in Indicators /\ Owns(db.rows[d].record, pos)
      BY <1>3, <1>5, <1>7 DEF ActiveInv
    <2>2. Owns(db.rows[d].record, pos + 1)  BY <1>1, <1>4, <1>7, <2>1, OwnsNext
    <2> QED  BY <1>5, <1>7, <2>1, <2>2
  <1> QED  BY <1>6, <1>7

\* What an edit takes away goes with an event that is still to come.
LEMMA ToldActive ==
    ASSUME TypeInv, ProgressInv, ActiveInv, NEW e, Told(e)
    PROVE  ActiveInv'
  <1>1. PICK n : n = Len(log) + 1  OBVIOUS
  <1>2. /\ DOMAIN log' = DOMAIN log \cup {n} /\ n \in Nat
        /\ \A i \in Indicators, k \in DOMAIN log : Gone(i, k)' <=> Gone(i, k)
        /\ \A i \in Indicators :
              Gone(i, n)' <=> i \in e.from \/ (e.kind = "delete" /\ e.id = i)
    BY <1>1, ToldLog
  <1>3. UNCHANGED <<db, pc, pos, cfg, pending, checkpoint>>
    BY AppendedLog DEF Told
  <1>4. Ahead' = Ahead  BY <1>3 DEF Ahead, Place, RestartAt, PlannedAt, At
  <1>5. Ahead <= n
    <2>1. Place \in Int /\ 1..(Place - 1) \subseteq DOMAIN log /\ DOMAIN log = 1..Len(log)
          /\ Len(log) \in Nat
      BY PlacesType, LogType DEF ProgressInv
    <2>2. Place <= n
      <3>1. CASE Place - 1 >= 1
        <4>1. Place - 1 \in 1..(Place - 1)  BY <2>1, <3>1
        <4> QED  BY <1>1, <2>1, <4>1
      <3>2. CASE ~(Place - 1 >= 1)  BY <1>1, <2>1, <3>2
      <3> QED  BY <3>1, <3>2
    <2>3. pc = "merged" => Place = pos /\ pos \in DOMAIN log  BY PlaceIs, Unfolded DEF Connected
    <2> QED  BY <1>1, <2>1, <2>2, <2>3 DEF Ahead
  <1>6. ASSUME NEW i \in Indicators, NEW a, a = Ahead, Owns(i, a) PROVE Owns(i, a)'
    <2>1. CASE \E m \in DOMAIN log : Gone(i, m) /\ m >= a  BY <1>2, <2>1 DEF Owns
    <2>2. CASE Live(i)
      <3>1. CASE Gone(i, n)'  BY <1>2, <1>5, <1>6, <3>1 DEF Owns
      <3>2. CASE ~Gone(i, n)'
        <4>1. Live(i)'  BY <1>2, <2>2, <3>2 DEF Told, Live
        <4> QED  BY <4>1 DEF Owns
      <3> QED  BY <3>1, <3>2
    <2> QED  BY <1>6, <2>1, <2>2 DEF Owns
  <1> QED  BY <1>3, <1>4, <1>6 DEF ActiveInv

\* Elsewhere the place does not go forward: a start from the time of a checkpoint goes back,
\* and so does one that has lost what it had not saved.
LEMMA PlaceFalls ==
    ASSUME TypeInv, ProgressInv, Kept,
           Start \/ Connect \/ Checkpoint \/ Close \/ Disconnect \/ Kill
    PROVE  /\ Place' <= Place \/ Place' <= 1
           /\ Place' \in Int /\ Place \in Int /\ pc' # "merged"
  <1>0. TypeInv' /\ ProgressInv'
    BY StartType, ConnectType, OtherStepsType, CloseType, StartProgress, ConnectProgress,
       CheckpointProgress, CloseProgress, DisconnectProgress, KillProgress
  <1>1. RestartAt' \in Int /\ PlannedAt' \in Int /\ Place' \in Int
    <2>1. /\ checkpoint' \in [id : Ids, at : Ids, late : BOOLEAN]
          /\ cfg' \in [from : Ids, recover : Ids]
          /\ pending' \in [id : Ids, at : Ids, count : Nat] /\ pos' \in Nat
      BY <1>0, Constants DEF TypeInv, TypeOK
    <2>2. \A n \in Ids : n \in Int  BY DEF Ids, None
    <2> QED  BY <2>1, <2>2 DEF RestartAt, PlannedAt, Place, At
  <1>2. Place \in Int /\ pc' # "merged"
    BY PlacesType DEF Start, Connect, Checkpoint, Close, Reopen, Forget, Disconnect, Kill
  <1>3. CASE Start
    <2>1. PICK long \in BOOLEAN :
            /\ checkpoint.late => long
            /\ checkpoint' = [checkpoint EXCEPT !.late = long]
            /\ cfg' = IF long /\ checkpoint.at # None
                      THEN [from |-> None, recover |-> checkpoint.at]
                      ELSE [from |-> checkpoint.id, recover |-> None]
      BY <1>3 DEF Start
    <2>2. Place = RestartAt /\ Place' = PlannedAt'
      <3>1. pc = "stopped" /\ pc' = "connecting"  BY <1>3 DEF Start
      <3> QED  BY <3>1, PlaceIs
    <2>3. checkpoint.id \in Int /\ checkpoint.at \in Int /\ None = -1
          /\ checkpoint.id >= -1 /\ checkpoint.at >= -1 /\ checkpoint.at <= checkpoint.id
          /\ (checkpoint.at = None => checkpoint.id = None)
      BY Unfolded, Constants DEF ProgressInv
    <2>4. CASE long /\ checkpoint.at # None
      <3>1. cfg'.recover = checkpoint.at  BY <2>1, <2>4
      <3> QED  BY <1>1, <1>2, <2>2, <2>3, <2>4, <3>1 DEF RestartAt, PlannedAt, At
    <2>5. CASE ~(long /\ checkpoint.at # None)
      <3>1. cfg'.recover = None /\ cfg'.from = checkpoint.id  BY <2>1, <2>5
      <3> QED  BY <1>1, <1>2, <2>1, <2>2, <2>3, <2>5, <3>1 DEF RestartAt, PlannedAt, At
    <2> QED  BY <2>4, <2>5
  <1>4. CASE Connect
    <2>1. /\ pc = "connecting" /\ pc' = "listening" /\ pos' = PlannedAt
      BY <1>4, ResumesAsPlanned DEF Connect
    <2> QED  BY <1>1, <1>2, <2>1, PlaceIs DEF Connected
  <1>5. CASE Checkpoint
    <2>1. pc = "checkpoint" /\ pc' = "listening" /\ pos' = pos /\ pos \in Nat
      BY <1>5, Unfolded DEF Checkpoint
    <2> QED  BY <1>2, <2>1, PlaceIs DEF Connected
  <1>6. CASE Close
    <2>1. /\ pc = "closing" /\ Reopen /\ (stopping \/ Flushed)
          /\ IF pending.count > 0 THEN SaveCheckpoint ELSE UNCHANGED checkpoint
      BY <1>6 DEF Close
    <2>2. /\ pending.id \in Int
          /\ Place = IF pending.id # None THEN pending.id + 1 ELSE PlannedAt
      BY <2>1, PlaceIs, Unfolded
    <2>3. CASE stopping
      <3>1. pc' = "stopped"  BY <2>1, <2>3, ForgetType DEF Reopen
      <3>2. Place' = RestartAt'  BY <3>1, PlaceIs
      <3>3. CASE pending.count > 0
        <4>1. checkpoint'.id = pending.id /\ ~checkpoint'.late  BY <2>1, <3>3, SaveType
        <4>2. pending.id # None  BY <3>3 DEF ProgressInv, PendingInv
        <4>3. RestartAt' = Place  BY <2>2, <4>1, <4>2 DEF RestartAt
        <4> QED  BY <1>2, <2>2, <3>2, <4>3
      <3>4. CASE ~(pending.count > 0)
        <4>1. RestartAt' = RestartAt  BY <2>1, <3>4, SamePlaces
        <4> QED  BY <1>1, <1>2, <2>1, <2>2, <3>2, <4>1 DEF ProgressInv
      <3> QED  BY <3>3, <3>4
    <2>4. CASE ~stopping
      <3>1. /\ pc' = "connecting"
            /\ cfg' = IF pending.id # None THEN [from |-> pending.id, recover |-> None] ELSE cfg
        BY <2>1, <2>4 DEF Reopen
      <3>2. Place' = PlannedAt'  BY <3>1, PlaceIs
      <3>3. CASE pending.id # None
        <4>1. cfg'.from = pending.id /\ cfg'.recover = None  BY <3>1, <3>3
        <4>2. PlannedAt' = Place  BY <2>2, <3>3, <4>1 DEF PlannedAt
        <4> QED  BY <1>2, <2>2, <3>2, <4>2
      <3>4. CASE pending.id = None
        <4>1. PlannedAt' = PlannedAt  BY <3>1, <3>4, SamePlaces
        <4> QED  BY <1>2, <2>2, <3>2, <3>4, <4>1
      <3> QED  BY <3>3, <3>4
    <2> QED  BY <2>3, <2>4
  <1>7. CASE Disconnect
    <2>1. pc = "listening" /\ pc' = "closing" /\ UNCHANGED <<cfg, pending, pos>>
      BY <1>7 DEF Disconnect
    <2>2. Place = pos /\ PlannedAt' = PlannedAt /\ pos \in Nat
          /\ PlannedAt \in Int
      BY <2>1, PlaceIs, SamePlaces, Unfolded, PlacesType DEF Connected
    <2>3. Place' = IF pending.id # None THEN pending.id + 1 ELSE PlannedAt
      BY <2>1, <2>2, PlaceIs
    <2>4. IF pending.id # None THEN pos = pending.id + 1 ELSE PlannedAt <= pos
      BY <2>1 DEF ProgressInv, PendingInv, Connected
    <2>5. Place' <= pos  BY <2>2, <2>3, <2>4
    <2> QED  BY <1>1, <1>2, <2>2, <2>5
  <1>8. CASE Kill
    <2>1. pc # "stopped" /\ Forget /\ UNCHANGED checkpoint  BY <1>8 DEF Kill
    <2>2. pc' = "stopped"  BY <2>1, ForgetType
    <2>3. Place' = RestartAt /\ RestartAt <= Place /\ RestartAt \in Int
      BY <2>1, <2>2, PlaceIs, SamePlaces, PlacesType DEF ProgressInv
    <2> QED  BY <1>2, <2>3
  <1> QED  BY <1>3, <1>4, <1>5, <1>6, <1>7, <1>8

LEMMA FallsActive ==
    ASSUME TypeInv, ActiveInv, UNCHANGED <<truth, log, db>>, Place' <= Place \/ Place' <= 1,
           Place' \in Int, Place \in Int, pc' # "merged"
    PROVE  ActiveInv'
  <1>0. Ahead' = Place' /\ Ahead >= Place /\ Ahead \in Int  BY DEF Ahead
  <1>1. PICK n \in Int : n = Ahead'  BY <1>0
  <1>2. PICK k \in Int : k = Ahead  BY <1>0
  <1>3. \A d \in Domains :
           db.rows[d].active => db.rows[d].record \in Indicators /\ Owns(db.rows[d].record, n)
    BY <1>0, <1>1, <1>2, OwnsBefore DEF ActiveInv
  <1> QED  BY <1>1, <1>3, OwnsKept DEF ActiveInv

LEMMA NextMirror ==
    ASSUME HandlersSucceed, Separate, MirrorInv, Kept, [Next]_vars
    PROVE  VerdictInv' /\ ActiveInv'
  <1> USE DEF MirrorInv
  <1>0. ~FailStart /\ ~FailHandle /\ ~FailCheckpoint /\ ~FailClose /\ ~Stop
    BY DEF HandlersSucceed, FailStart, FailHandle, FailCheckpoint, FailClose, Stop, Fault
  <1>1. CASE Analyst
    <2>1. PICK e : Told(e)  BY <1>1, AnalystTells DEF Separate
    <2> QED  BY <2>1, ToldVerdict, ToldActive
  <1>2. CASE Start \/ Connect \/ Checkpoint \/ Close \/ Disconnect \/ Kill
    <2>1. UNCHANGED <<truth, log, db, applied>>
      BY <1>2 DEF Start, Connect, Checkpoint, Close, Disconnect, Kill, environment
    <2> QED  BY <1>2, <2>1, SameVerdicts, PlaceFalls, FallsActive
  <1>3. CASE Deliver
    <2>1. /\ pc = "listening" /\ pos \in DOMAIN log /\ log[pos].kind # "merge"
          /\ db' = Handle(db, log[pos]) /\ Handled
      BY <1>3 DEF Deliver
    <2>2. /\ pc' \in {"listening", "checkpoint"} /\ pos' = pos + 1
          /\ applied' = applied \cup {pos} /\ UNCHANGED <<truth, log>>
      BY <2>1 DEF Handled, Record, environment
    <2>3. Ahead = pos /\ Ahead' = pos + 1  BY <2>1, <2>2, AheadIs
    <2>4. CASE log[pos].kind = "delete"
      <3>1. db' = DeleteOpenCTI(db, log[pos].id)  BY <2>1, <2>4 DEF Handle
      <3> QED  BY <2>1, <2>2, <2>3, <2>4, <3>1, DeleteVerdict, DeleteActive
    <2>5. CASE log[pos].kind # "delete"
      <3>1. db' = HandleUpsert(db, log[pos]) /\ log[pos].kind \in {"create", "update"}
        BY <2>1, <2>5, LogType DEF Handle
      <3> QED  BY <2>1, <2>2, <2>3, <2>5, <3>1, UpsertVerdict, UpsertActive
    <2> QED  BY <2>4, <2>5
  <1>4. CASE DeliverMerge  BY <1>4, MergeVerdict, MergeActive
  <1>5. CASE FinishMerge
    <2>1. /\ pc = "merged" /\ pos \in DOMAIN log /\ log[pos].kind = "merge"
          /\ db' = HandleUpsert(db, log[pos]) /\ Handled
      BY <1>5, Unfolded DEF FinishMerge
    <2>2. /\ pc' \in {"listening", "checkpoint"} /\ pos' = pos + 1
          /\ applied' = applied \cup {pos} /\ UNCHANGED <<truth, log>>
      BY <2>1 DEF Handled, Record, environment
    <2>3. Ahead = pos + 1 /\ Ahead' = pos + 1  BY <2>1, <2>2, AheadIs
    <2> QED  BY <2>1, <2>2, <2>3, UpsertVerdict, UpsertActive
  <1>6. CASE Trim \/ UNCHANGED vars
    <2>1. UNCHANGED <<truth, log, db, applied, pc, cfg, pos, pending, checkpoint>>
      BY <1>6 DEF Trim, vars, environment, memory
    <2>2. Ahead' = Ahead  BY <2>1 DEF Ahead, Place, RestartAt, PlannedAt, At
    <2>3. ActiveInv'  BY <2>1, <2>2, OwnsKept DEF ActiveInv
    <2> QED  BY <2>1, <2>3, SameVerdicts
  <1> QED  BY <1>0, <1>1, <1>2, <1>3, <1>4, <1>5, <1>6 DEF Next, Consume

LEMMA InitMirror == ASSUME Init PROVE VerdictInv /\ ActiveInv
  <1>1. /\ \A d \in Domains : db.rows[d] = NoRow
        /\ \A i \in Indicators : ~Live(i)
    BY DEF Init, EmptyDatabase, Live
  <1>2. NoRow.modified = 0 /\ ~NoRow.active  BY DEF NoRow
  <1> QED  BY <1>1, <1>2 DEF VerdictInv, ActiveInv

LEMMA MirrorsWhenCaughtUp == ASSUME Separate, Detections \subseteq {TRUE}, MirrorInv
                             PROVE  MirrorsOpenCTI
  <1> USE DEF MirrorInv
  <1> SUFFICES ASSUME CaughtUp
               PROVE  /\ \A i \in Indicators : Live(i) /\ Writable(truth[i]) =>
                            \A d \in truth[i].domains :
                                /\ db.rows[d].active
                                /\ db.rows[d].revoked = truth[i].revoked
                                /\ db.rows[d].label = truth[i].label
                      /\ \A d \in Domains : db.rows[d].active =>
                            \E i \in Indicators :
                                db.rows[d].record = i /\ Live(i) /\ truth[i].detection
    BY DEF MirrorsOpenCTI
  <1>1. pc = "listening" /\ pos = Len(log) + 1 /\ applied = DOMAIN log /\ Len(log) \in Nat
    BY LogType DEF CaughtUp
  <1>2. ASSUME NEW i \in Indicators, Live(i), Writable(truth[i]), NEW d \in truth[i].domains
        PROVE  db.rows[d].active /\ db.rows[d].revoked = truth[i].revoked
               /\ db.rows[d].label = truth[i].label
    <2> DEFINE k == truth[i].modified
    <2>1. /\ k \in DOMAIN log /\ log[k].id = i /\ log[k].kind # "delete"
          /\ log[k].object = truth[i]
          /\ \A m \in DOMAIN log : Mentions(i, m) => m <= k
      BY <1>2 DEF TruthInv
    <2> HIDE DEF k
    <2>2. LastWrite(i, k)
      <3>1. \A m \in DOMAIN log : m > k => ~Mentions(i, m)  BY <2>1, LogType
      <3> QED  BY <1>1, <1>2, <2>1, <3>1 DEF LastWrite, Writes, Mentions
    <2>3. db.rows[d] = Written(k)  BY <1>1, <1>2, <2>1, <2>2 DEF VerdictInv
    <2> QED  BY <2>1, <2>3 DEF Written
  <1>3. ASSUME NEW d \in Domains, db.rows[d].active
        PROVE  db.rows[d].record \in Indicators /\ Live(db.rows[d].record)
               /\ truth[db.rows[d].record].detection
    <2>1. db.rows[d].record \in Indicators /\ Owns(db.rows[d].record, pos)
      BY <1>1, <1>3, AheadIs DEF ActiveInv
    <2>2. Live(db.rows[d].record)  BY <1>1, <2>1, LogType DEF Owns
    <2> QED  BY <2>1, <2>2 DEF TruthInv
  <1> QED  BY <1>2, <1>3

\* A consumer that has caught up has OpenCTI's verdicts, and no row of an indicator that is
\* gone, as long as no handler fails and the stream has the ids it is asked for.
THEOREM CaughtUpMirrors ==
    ASSUME HandlersSucceed, Separate, Detections \subseteq {TRUE}
    PROVE  Spec /\ []Kept => []MirrorsOpenCTI
  <1>1. MirrorInv /\ Kept /\ [Next]_vars => VerdictInv' /\ ActiveInv'  BY NextMirror
  <1>2. MirrorInv => MirrorsOpenCTI  BY MirrorsWhenCaughtUp
  <1>3. Init => VerdictInv /\ ActiveInv  BY InitMirror
  <1>4. Spec => [](TruthInv /\ LifeInv)  BY OpenCTI DEF Separate
  <1> QED  BY <1>1, <1>2, <1>3, <1>4, Progress, TypeInvariance, PTL DEF Spec, MirrorInv

\* Whatever is replayed after kills, lost connections or long stops, the rows come to be
\* OpenCTI's, for any number of indicators, edits and merges (Handle, SaveStreamState).
THEOREM CaughtUpMirrorsMildly ==
    ASSUME MildFaults, Separate, Detections \subseteq {TRUE} PROVE Spec => []MirrorsOpenCTI
  <1>1. HandlersSucceed  BY DEF HandlersSucceed, MildFaults
  <1> QED  BY <1>1, StreamHasTheId, CaughtUpMirrors, PTL

-----------------------------------------------------------------------------
(* Each event once, in order.                                              *)

\* What an event that is not stale makes of domain d's row.
RowAfter(row, ev, d) ==
    IF ev.kind = "delete"
    THEN IF row.record = ev.id THEN SwitchedOff(row) ELSE row
    ELSE IF Writable(ev.object) /\ d \in ev.object.domains THEN RowOf(ev)
    ELSE IF row.record \in ev.from THEN Renamed(row, ev.id) ELSE row

\* The domains and the evidence that an event brings.
Named(ev) ==
    IF ev.kind # "delete" /\ Writable(ev.object) THEN ev.object.domains ELSE {}
Lines(ev) == Named(ev) \X {ev.object.domains}

\* Event n of a stream L, whatever came before it.
NthEvent(L, n) ==
    /\ L[n] \in Event
    /\ L[n].kind # "delete" => L[n].object.modified = n
    /\ L[n].id \notin L[n].from
    /\ L[n].from # {} <=> L[n].kind = "merge"

\* An upsert that is not stale.
LEMMA UpsertInOrder ==
    ASSUME NEW D \in Database, NEW ev \in Event,
           \A d \in Domains : D.rows[d].modified < ev.object.modified
    PROVE  /\ HandleUpsert(D, ev) \in Database
           /\ \A d \in Domains :
                 HandleUpsert(D, ev).rows[d] =
                    IF Writable(ev.object) /\ d \in ev.object.domains THEN RowOf(ev)
                    ELSE D.rows[d]
           /\ Writable(ev.object) =>
                 /\ HandleUpsert(D, ev).domains = D.domains \cup ev.object.domains
                 /\ HandleUpsert(D, ev).evidence =
                       D.evidence \cup (ev.object.domains \X {ev.object.domains})
           /\ ~Writable(ev.object) => HandleUpsert(D, ev) = D
  <1>1. ~Stale(D, ev)
    <2>1. \A d \in Domains : D.rows[d].modified \in Nat  BY RowsType
    <2>2. ev.object.modified \in Nat  BY DEF Event, Object
    <2> QED  BY <2>1, <2>2 DEF Stale
  <1>2. Writable(ev.object) =>
          /\ UpsertOpenCTI(D, ev).domains = D.domains \cup ev.object.domains
          /\ UpsertOpenCTI(D, ev).evidence =
                D.evidence \cup (ev.object.domains \X {ev.object.domains})
    BY <1>1 DEF UpsertOpenCTI
  <1> QED  BY <1>1, <1>2, UpsertRows DEF HandleUpsert

LEMMA InOrder ==
    ASSUME NEW D \in Database, NEW L, NEW n \in Nat, NthEvent(L, n),
           \A d \in Domains : D.rows[d].modified < n
    PROVE  /\ Handle(D, L[n]) \in Database
           /\ \A d \in Domains : Handle(D, L[n]).rows[d] = RowAfter(D.rows[d], L[n], d)
           /\ Handle(D, L[n]).domains = D.domains \cup Named(L[n])
           /\ Handle(D, L[n]).evidence = D.evidence \cup Lines(L[n])
  <1>0. PICK ev \in Event : ev = L[n]  BY DEF NthEvent
  <1>1. /\ ev.id \in Indicators /\ ev.from \in SUBSET Indicators
        /\ ev.kind \in {"create", "update", "delete", "merge"}
        /\ ev.kind # "delete" => ev.object.modified = n
        /\ ev.id \notin ev.from /\ (ev.from # {} <=> ev.kind = "merge")
    BY <1>0 DEF NthEvent, Event
  <1>2. CASE ev.kind = "delete"
    <2>1. Handle(D, ev) = DeleteOpenCTI(D, ev.id)  BY <1>2 DEF Handle
    <2>2. Named(ev) = {} /\ Lines(ev) = {}  BY <1>2 DEF Named, Lines
    <2> QED  BY <1>0, <1>1, <1>2, <2>1, <2>2, DeleteRows DEF RowAfter
  <1>3. CASE ev.kind \in {"create", "update"}
    <2>1. Handle(D, ev) = HandleUpsert(D, ev) /\ ev.from = {}  BY <1>1, <1>3 DEF Handle
    <2>2. \A d \in Domains : RowAfter(D.rows[d], ev, d) =
             IF Writable(ev.object) /\ d \in ev.object.domains THEN RowOf(ev) ELSE D.rows[d]
      BY <1>3, <2>1 DEF RowAfter
    <2>3. CASE Writable(ev.object)
      <3>1. Named(ev) = ev.object.domains
            /\ Lines(ev) = ev.object.domains \X {ev.object.domains}
        BY <1>3, <2>3 DEF Named, Lines
      <3> QED  BY <1>0, <1>1, <1>3, <2>1, <2>2, <2>3, <3>1, UpsertInOrder
    <2>4. CASE ~Writable(ev.object)
      <3>1. Named(ev) = {} /\ Lines(ev) = {}  BY <2>4 DEF Named, Lines
      <3> QED  BY <1>0, <1>1, <1>3, <2>1, <2>2, <2>4, <3>1, UpsertInOrder
    <2> QED  BY <2>3, <2>4
  <1>4. CASE ev.kind = "merge"
    <2> DEFINE M == MergeOpenCTI(D, ev.from, ev.id)
    <2>1. /\ M \in Database /\ M.domains = D.domains /\ M.evidence = D.evidence
          /\ \A d \in Domains :
                M.rows[d] = IF D.rows[d].record \in ev.from THEN Renamed(D.rows[d], ev.id)
                            ELSE D.rows[d]
      BY <1>1, MergeRows
    <2>2. Handle(D, ev) = HandleUpsert(M, ev)  BY <1>4 DEF Handle
    <2> HIDE DEF M
    <2>3. \A d \in Domains : M.rows[d].modified < ev.object.modified
      <3>1. \A d \in Domains : D.rows[d] \in RowType  BY RowsType
      <3>2. \A d \in Domains : Renamed(D.rows[d], ev.id).modified = D.rows[d].modified
        BY <1>1, <3>1, RowChanges
      <3> QED  BY <1>1, <1>4, <2>1, <3>2
    <2>4. \A d \in Domains : RowAfter(D.rows[d], ev, d) =
             IF Writable(ev.object) /\ d \in ev.object.domains THEN RowOf(ev) ELSE M.rows[d]
      BY <1>4, <2>1 DEF RowAfter
    <2>5. CASE Writable(ev.object)
      <3>1. Named(ev) = ev.object.domains
            /\ Lines(ev) = ev.object.domains \X {ev.object.domains}
        BY <1>4, <2>5 DEF Named, Lines
      <3> QED  BY <1>0, <2>1, <2>2, <2>3, <2>4, <2>5, <3>1, UpsertInOrder
    <2>6. CASE ~Writable(ev.object)
      <3>1. Named(ev) = {} /\ Lines(ev) = {}  BY <2>6 DEF Named, Lines
      <3> QED  BY <1>0, <2>1, <2>2, <2>3, <2>4, <2>6, <3>1, UpsertInOrder
    <2> QED  BY <2>5, <2>6
  <1> QED  BY <1>1, <1>2, <1>3, <1>4

\* What holds of a row after k events of L, each applied once.
GoodRow(L, row, d, k) ==
    /\ row.modified <= k
    /\ \A m \in 1..k :
          /\ d \in Named(L[m]) => m <= row.modified
          /\ row.record \notin L[m].from
          /\ L[m].kind = "delete" /\ row.record = L[m].id => ~row.active /\ ~row.revoked
    /\ \A i \in Indicators :
          (\E p \in Patterns[i] : d \in p) /\ row.record \notin {i, NoIndicator} =>
              \E m \in 1..k : i \in L[m].from

Good(L, f, k) ==
    /\ f[k] \in Database
    /\ \A d \in Domains : GoodRow(L, f[k].rows[d], d, k)
    /\ f[k].domains = UNION {Named(L[m]) : m \in 1..k}
    /\ f[k].evidence = UNION {Lines(L[m]) : m \in 1..k}

\* One row, one event.
LEMMA RowInOrder ==
    ASSUME Separate, NEW L, NEW b \in Nat, NEW n \in Nat, n = b + 1, NthEvent(L, n),
           L[n].object.domains \in Patterns[L[n].id],
           \A m \in 1..b : L[n].id \notin L[m].from /\ (L[m].kind = "delete" => L[m].id # L[n].id),
           NEW row \in RowType, NEW d \in Domains, GoodRow(L, row, d, b)
    PROVE  GoodRow(L, RowAfter(row, L[n], d), d, n)
  <1>0. PICK ev \in Event : ev = L[n]  BY DEF NthEvent
  <1>1. /\ ev.id \in Indicators /\ ev.from \in SUBSET Indicators
        /\ ev.kind # "delete" => ev.object.modified = n
        /\ ev.id \notin ev.from /\ (ev.from # {} <=> ev.kind = "merge")
        /\ ev.id # NoIndicator
    BY <1>0, SyncAssumption DEF NthEvent, Event
  <1>2. 1..n = 1..b \cup {n}  OBVIOUS
  <1>3. row.modified \in Nat /\ row.modified <= b  BY DEF GoodRow, RowType
  <1>4. RowOf(ev).record = ev.id /\ RowOf(ev).modified = ev.object.modified  BY DEF RowOf
  <1>5. CASE ev.kind # "delete" /\ Writable(ev.object) /\ d \in ev.object.domains
    <2>1. RowAfter(row, ev, d) = RowOf(ev)  BY <1>5 DEF RowAfter
    <2>2. \A i \in Indicators : (\E p \in Patterns[i] : d \in p) => ev.id = i
      <3> SUFFICES ASSUME NEW i \in Indicators, NEW p \in Patterns[i], d \in p, ev.id # i
                   PROVE  FALSE
        OBVIOUS
      <3>1. ev.object.domains \cap p = {}  BY <1>0, <1>1 DEF Separate
      <3> QED  BY <1>5, <3>1
    <2>3. \A m \in 1..n : m <= n /\ ev.id \notin L[m].from
                          /\ (L[m].kind = "delete" => L[m].id # ev.id)
      BY <1>0, <1>1, <1>2, <1>5
    <2> QED  BY <1>0, <1>1, <1>4, <1>5, <2>1, <2>2, <2>3 DEF GoodRow
  <1>6. CASE ~(ev.kind # "delete" /\ Writable(ev.object) /\ d \in ev.object.domains)
    <2>1. d \notin Named(ev)  BY <1>6 DEF Named
    <2>2. CASE ev.kind = "delete" /\ row.record = ev.id
      <3>1. RowAfter(row, ev, d) = SwitchedOff(row)  BY <2>2 DEF RowAfter
      <3>2. /\ SwitchedOff(row).record = row.record /\ SwitchedOff(row).modified = row.modified
            /\ ~SwitchedOff(row).active /\ ~SwitchedOff(row).revoked
        BY <1>1, RowChanges
      <3> QED  BY <1>0, <1>1, <1>2, <1>3, <2>1, <2>2, <3>1, <3>2 DEF GoodRow
    <2>3. CASE row.record \in ev.from
      <3>1. RowAfter(row, ev, d) = Renamed(row, ev.id) /\ ev.kind = "merge"
        BY <1>1, <1>6, <2>3 DEF RowAfter
      <3>2. /\ Renamed(row, ev.id).record = ev.id /\ Renamed(row, ev.id).modified = row.modified
        BY <1>1, RowChanges
      <3>3. ASSUME NEW i \in Indicators, \E p \in Patterns[i] : d \in p, i # ev.id
            PROVE  \E m \in 1..n : i \in L[m].from
        <4>1. CASE row.record = i  BY <1>0, <1>2, <2>3, <4>1
        <4>2. CASE row.record # i
          <5>1. row.record # NoIndicator  BY <1>1, <2>3, SyncAssumption
          <5> QED  BY <1>2, <3>3, <4>2, <5>1 DEF GoodRow
        <4> QED  BY <4>1, <4>2
      <3> QED  BY <1>0, <1>1, <1>2, <1>3, <2>1, <3>1, <3>2, <3>3 DEF GoodRow
    <2>4. CASE ~(ev.kind = "delete" /\ row.record = ev.id) /\ row.record \notin ev.from
      <3>1. RowAfter(row, ev, d) = row  BY <1>6, <2>4 DEF RowAfter
      <3> QED  BY <1>0, <1>1, <1>2, <1>3, <2>1, <2>4, <3>1 DEF GoodRow
    <2> QED  BY <1>1, <2>2, <2>3, <2>4
  <1> QED  BY <1>5, <1>6

LEMMA GoodInOrder ==
    ASSUME Separate, NEW L, NEW f, NEW b \in Nat, NEW n \in Nat, n = b + 1, NthEvent(L, n),
           L[n].object.domains \in Patterns[L[n].id],
           \A m \in 1..b : L[n].id \notin L[m].from /\ (L[m].kind = "delete" => L[m].id # L[n].id),
           f[n] = Handle(f[b], L[n]), Good(L, f, b)
    PROVE  Good(L, f, n)
  <1>1. f[b] \in Database /\ \A d \in Domains : f[b].rows[d].modified < n
    <2>1. \A d \in Domains : f[b].rows[d].modified \in Nat  BY RowsType DEF Good
    <2> QED  BY <2>1 DEF Good, GoodRow
  <1>2. /\ f[n] \in Database
        /\ \A d \in Domains : f[n].rows[d] = RowAfter(f[b].rows[d], L[n], d)
        /\ f[n].domains = f[b].domains \cup Named(L[n])
        /\ f[n].evidence = f[b].evidence \cup Lines(L[n])
    <2>1. PICK D \in Database : D = f[b]  BY <1>1
    <2>2. f[n] = Handle(D, L[n]) /\ \A d \in Domains : D.rows[d].modified < n  BY <1>1, <2>1
    <2> HIDE DEF Good
    <2>3. /\ Handle(D, L[n]) \in Database
          /\ \A d \in Domains : Handle(D, L[n]).rows[d] = RowAfter(D.rows[d], L[n], d)
          /\ Handle(D, L[n]).domains = D.domains \cup Named(L[n])
          /\ Handle(D, L[n]).evidence = D.evidence \cup Lines(L[n])
      BY ONLY <2>2, n \in Nat, NthEvent(L, n), InOrder
    <2> QED  BY <2>1, <2>2, <2>3
  <1>3. \A d \in Domains : f[b].rows[d] \in RowType  BY <1>1, RowsType
  <1>4. ASSUME NEW d \in Domains PROVE GoodRow(L, f[n].rows[d], d, n)
    <2>1. GoodRow(L, f[b].rows[d], d, b)  BY DEF Good
    <2>2. GoodRow(L, RowAfter(f[b].rows[d], L[n], d), d, n)  BY <1>3, <2>1, RowInOrder
    <2> QED  BY <1>2, <2>2
  <1>5. 1..n = 1..b \cup {n}  OBVIOUS
  <1>6. f[n].domains = UNION {Named(L[m]) : m \in 1..n}  BY <1>2, <1>5 DEF Good
  <1>7. f[n].evidence = UNION {Lines(L[m]) : m \in 1..n}  BY <1>2, <1>5 DEF Good
  <1> QED  BY <1>2, <1>4, <1>6, <1>7 DEF Good

\* f says what the database is after each event of the stream, and it does exist.
IsOnce(f) ==
    /\ f[0] = EmptyDatabase
    /\ \A k \in DOMAIN log : f[k] = Handle(f[k - 1], log[k])

OnceInv ==
    /\ \E f : f = [n \in 0..Len(log) |-> IF n = 0 THEN EmptyDatabase ELSE Handle(f[n - 1], log[n])]
    /\ \A f : IsOnce(f) => \A k \in 0..Len(log) : Good(log, f, k)

LEMMA OnceIs == ASSUME TypeInv, OnceInv PROVE IsOnce(Once)
  <1>1. Once = [n \in 0..Len(log) |->
                  IF n = 0 THEN EmptyDatabase ELSE Handle(Once[n - 1], log[n])]
    BY DEF OnceInv, Once
  <1>2. 0 \in 0..Len(log) /\ \A k \in DOMAIN log : k \in 0..Len(log) /\ k # 0
    BY LogType
  <1>3. Once[0] = EmptyDatabase  BY <1>1, <1>2
  <1>4. \A k \in DOMAIN log : Once[k] = Handle(Once[k - 1], log[k])  BY <1>1, <1>2
  <1> QED  BY <1>3, <1>4 DEF IsOnce

LEMMA InitOnce == ASSUME Init PROVE OnceInv
  <1>1. log = <<>> /\ Len(log) = 0 /\ 0..Len(log) = {0}  BY DEF Init
  <1>2. \E f : f = [n \in 0..Len(log) |->
                      IF n = 0 THEN EmptyDatabase ELSE Handle(f[n - 1], log[n])]
    <2> DEFINE g == [n \in {0} |-> EmptyDatabase]
    <2>1. g = [n \in 0..Len(log) |->
                 IF n = 0 THEN EmptyDatabase ELSE Handle(g[n - 1], log[n])]
      <3> HIDE DEF Handle
      <3> QED  BY <1>1
    <2> QED  BY <2>1
  <1>3. ASSUME NEW f, IsOnce(f) PROVE Good(log, f, 0)
    <2>1. f[0] = EmptyDatabase  BY <1>3 DEF IsOnce
    <2>2. EmptyDatabase \in Database
      <3>1. NoRow \in RowType  BY DEF NoRow, RowType
      <3>2. [d \in Domains |-> NoRow] \in [Domains -> RowType]  BY <3>1
      <3> QED  BY <3>2, DatabaseMade DEF EmptyDatabase
    <2>3. 1..0 = {}  OBVIOUS
    <2>4. \A d \in Domains : GoodRow(log, EmptyDatabase.rows[d], d, 0)
      <3>1. \A d \in Domains : EmptyDatabase.rows[d] = NoRow  BY DEF EmptyDatabase
      <3>2. NoRow.modified = 0 /\ NoRow.record = NoIndicator  BY DEF NoRow
      <3> QED  BY <2>3, <3>1, <3>2 DEF GoodRow
    <2>5. EmptyDatabase.domains = {} /\ EmptyDatabase.evidence = {}  BY DEF EmptyDatabase
    <2> QED  BY <2>1, <2>2, <2>3, <2>4, <2>5 DEF Good
  <1> QED  BY <1>1, <1>2, <1>3 DEF OnceInv

LEMMA GoodSame ==
    ASSUME NEW L, NEW M, NEW f, NEW k, \A m \in 1..k : M[m] = L[m], Good(L, f, k)
    PROVE  Good(M, f, k)
  <1>1. \A d \in Domains : GoodRow(M, f[k].rows[d], d, k)  BY DEF Good, GoodRow
  <1>2. /\ {Named(M[m]) : m \in 1..k} = {Named(L[m]) : m \in 1..k}
        /\ {Lines(M[m]) : m \in 1..k} = {Lines(L[m]) : m \in 1..k}
    OBVIOUS
  <1> QED  BY <1>1, <1>2 DEF Good

LEMMA ToldOnce ==
    ASSUME Separate, TypeInv, OnceInv, NEW e, Told(e)
    PROVE  OnceInv'
  <1>1. PICK n : n = Len(log) + 1  OBVIOUS
  <1>2. PICK b : b = Len(log)  OBVIOUS
  <1>3. /\ DOMAIN log' = DOMAIN log \cup {n} /\ n \notin DOMAIN log
        /\ log'[n] = e /\ n \in Nat /\ b \in Nat /\ n = b + 1
        /\ \A k \in DOMAIN log : log'[k] = log[k] /\ k \in Nat /\ k < n
        /\ DOMAIN log = 1..b /\ Len(log') = n /\ 0..n = 0..b \cup {n}
    <2>1. /\ DOMAIN log' = DOMAIN log \cup {n} /\ n \notin DOMAIN log
          /\ log'[n] = e
          /\ \A k \in DOMAIN log : log'[k] = log[k] /\ k \in Nat /\ k < n
      BY <1>1, ToldLog
    <2>2. Len(log') = n  BY <1>1, AppendedLog DEF Told
    <2>3. DOMAIN log = 1..b /\ b \in Nat  BY <1>2, LogType
    <2>4. n = b + 1 /\ n \in Nat /\ 0..n = 0..b \cup {n}  BY <1>1, <1>2, <2>3
    <2> QED  BY <2>1, <2>2, <2>3, <2>4
  <1>4. \E f : f = [k \in 0..Len(log') |->
                      IF k = 0 THEN EmptyDatabase ELSE Handle(f[k - 1], log'[k])]
    <2>1. PICK f : f = [k \in 0..b |->
                          IF k = 0 THEN EmptyDatabase ELSE Handle(f[k - 1], log[k])]
      BY <1>2 DEF OnceInv
    <2> DEFINE g == [k \in 0..n |-> IF k = n THEN Handle(f[b], e) ELSE f[k]]
    <2>2. ASSUME NEW k \in 0..n
          PROVE  g[k] = IF k = 0 THEN EmptyDatabase ELSE Handle(g[k - 1], log'[k])
      <3>1. CASE k = n
        <4>1. k # 0 /\ k - 1 = b /\ b # n /\ b \in 0..n  BY <1>3, <3>1
        <4> QED  BY <1>3, <3>1, <4>1
      <3>2. CASE k # n
        <4>1. k \in 0..b /\ g[k] = f[k]  BY <1>3, <3>2
        <4>2. f[k] = IF k = 0 THEN EmptyDatabase ELSE Handle(f[k - 1], log[k])
          BY <2>1, <4>1
        <4>3. k # 0 => k \in DOMAIN log /\ g[k - 1] = f[k - 1]  BY <1>3, <4>1
        <4> HIDE DEF g
        <4> QED  BY <1>3, <4>1, <4>2, <4>3
      <3> QED  BY <3>1, <3>2
    <2>3. g = [k \in 0..n |-> g[k]]  OBVIOUS
    <2> HIDE DEF g
    <2>4. g = [k \in 0..n |-> IF k = 0 THEN EmptyDatabase ELSE Handle(g[k - 1], log'[k])]
      BY <2>2, <2>3
    <2> QED  BY <1>3, <2>4
  <1>5. ASSUME NEW f, IsOnce(f)', NEW k \in 0..n PROVE Good(log', f, k)
    <2>1. /\ f[0] = EmptyDatabase
          /\ \A m \in 1..n : f[m] = Handle(f[m - 1], log'[m])
      BY <1>3, <1>5 DEF IsOnce
    <2>2. IsOnce(f)  BY <1>3, <2>1 DEF IsOnce
    <2>3. ASSUME NEW m \in 0..b PROVE Good(log', f, m)
      <3>1. Good(log, f, m)  BY <1>2, <2>2 DEF OnceInv
      <3>2. \A x \in 1..m : log'[x] = log[x]  BY <1>3
      <3> QED  BY <3>1, <3>2, GoodSame
    <2>4. Good(log', f, n)
      <3>1. NthEvent(log', n) /\ e.object.domains \in Patterns[e.id]
        BY <1>1, <1>3 DEF Told, Appended, NextEvent, NthEvent
      <3>2. \A m \in 1..b : e.id \notin log'[m].from
                            /\ (log'[m].kind = "delete" => log'[m].id # e.id)
        <4>1. e.id \in Indicators  BY <3>1, <1>3 DEF NthEvent, Event
        <4>2. \A m \in DOMAIN log : ~Gone(e.id, m)  BY <4>1 DEF Told
        <4> QED  BY <1>3, <4>2 DEF Gone
      <3>3. f[n] = Handle(f[b], log'[n])  BY <1>3, <2>1
      <3>4. Good(log', f, b)  BY <1>3, <2>3
      <3> HIDE DEF Good, NthEvent
      <3> QED  BY <1>3, <3>1, <3>2, <3>3, <3>4, GoodInOrder
    <2> QED  BY <1>3, <2>3, <2>4
  <1> QED  BY <1>3, <1>4, <1>5 DEF OnceInv

LEMMA EachOnce == ASSUME Separate PROVE Spec => []OnceInv
  <1>1. TypeInv /\ TruthInv /\ LifeInv /\ OnceInv /\ [Next]_vars => OnceInv'
    <2> SUFFICES ASSUME TypeInv, TruthInv, LifeInv, OnceInv, [Next]_vars PROVE OnceInv'
      OBVIOUS
    <2>1. CASE Analyst
      <3>1. PICK e : Told(e)  BY <2>1, AnalystTells DEF Separate
      <3> QED  BY <3>1, ToldOnce
    <2>2. CASE UNCHANGED <<truth, log>>  BY <2>2 DEF OnceInv, IsOnce
    <2> QED  BY <2>1, <2>2, OpenCTIKept
  <1>2. Spec => [](TruthInv /\ LifeInv)  BY OpenCTI DEF Separate
  <1> QED  BY <1>1, <1>2, InitOnce, TypeInvariance, PTL DEF Spec

-----------------------------------------------------------------------------
(* Replays.  A row is at some version, that of the first q events each     *)
(* applied once; one that has been replayed is at the place or later.      *)

\* A row that is still to be written by the event in hand is one event behind.
Floor(d) ==
    IF pc = "merged" /\ d \notin Named(log[pos]) THEN pos ELSE Place - 1

VersionAt(f, d, a) == \E q \in 0..Len(log) : q >= a /\ db.rows[d] = f[q].rows[d]

VersionInv == \A f : IsOnce(f) => \A d \in Domains : VersionAt(f, d, Floor(d))

\* If an indicator has a row as late as one of its writes, that write is in all its rows.
CoherentInv ==
    \A c, d \in Domains, k \in DOMAIN log :
        /\ d \in Named(log[k])
        /\ db.rows[c].record = log[k].id /\ db.rows[c].modified >= k
        => db.rows[d].modified >= k

\* What is known is what has been applied.
KnownInv ==
    /\ db.domains = UNION {Named(log[k]) : k \in applied}
    /\ db.evidence = UNION {Lines(log[k]) : k \in applied}

ReplayInv == VersionInv /\ CoherentInv /\ KnownInv

\* Row d before and after event k, each event applied once.
LEMMA OnceRows ==
    ASSUME TypeInv, OnceInv, NEW f, IsOnce(f)
    PROVE  /\ \A k \in 0..Len(log) : f[k] \in Database /\ Good(log, f, k)
           /\ \A k \in DOMAIN log, d \in Domains :
                 f[k].rows[d] = RowAfter(f[k - 1].rows[d], log[k], d)
  <1>1. \A k \in 0..Len(log) : f[k] \in Database /\ Good(log, f, k)
    BY DEF OnceInv, Good
  <1>2. ASSUME NEW k \in DOMAIN log, NEW d \in Domains
        PROVE  f[k].rows[d] = RowAfter(f[k - 1].rows[d], log[k], d)
    <2>1. k \in Nat /\ k - 1 \in 0..Len(log)  BY LogType
    <2>2. PICK D \in Database : D = f[k - 1]  BY <1>1, <2>1
    <2>3. \A c \in Domains : D.rows[c].modified < k
      <3>1. \A c \in Domains : D.rows[c].modified <= k - 1 /\ D.rows[c].modified \in Nat
        BY <1>1, <2>1, <2>2, RowsType DEF Good, GoodRow
      <3> QED  BY <2>1, <3>1
    <2>4. NthEvent(log, k)  BY LogType DEF NthEvent
    <2>5. \A c \in Domains : Handle(D, log[k]).rows[c] = RowAfter(D.rows[c], log[k], c)
      BY ONLY <2>1, <2>2, <2>3, <2>4, InOrder
    <2>6. f[k] = Handle(D, log[k])  BY <2>2 DEF IsOnce
    <2> QED  BY <2>2, <2>5, <2>6
  <1> QED  BY <1>1, <1>2

\* What a version says of the writes.
LEMMA VersionFacts ==
    ASSUME TypeInv, OnceInv, NEW f, IsOnce(f), NEW d \in Domains, NEW q \in 0..Len(log),
           db.rows[d] = f[q].rows[d]
    PROVE  /\ db.rows[d] \in RowType /\ db.rows[d].modified \in Nat
           /\ db.rows[d].modified <= q
           /\ \A k \in DOMAIN log : k <= q =>
                 /\ d \in Named(log[k]) => db.rows[d].modified >= k
                 /\ db.rows[d].record \notin log[k].from
                 /\ log[k].kind = "delete" /\ db.rows[d].record = log[k].id =>
                       ~db.rows[d].active /\ ~db.rows[d].revoked
  <1>1. db.rows[d] \in RowType /\ db.rows[d].modified \in Nat  BY Unfolded, RowsType
  <1>2. GoodRow(log, db.rows[d], d, q)  BY OnceRows DEF Good
  <1>3. \A k \in DOMAIN log : k <= q => k \in 1..q  BY LogType
  <1>4. q \in Nat  OBVIOUS
  <1>5. \A k \in DOMAIN log : k \in Nat  BY LogType
  <1> QED  BY <1>1, <1>2, <1>3, <1>4, <1>5 DEF GoodRow

\* Event pos has not been seen since the last start, or (a merge) is half done.
LEMMA UpsertReplay ==
    ASSUME Separate, TypeInv, ProgressInv, VerdictInv, OnceInv, CoherentInv, NEW f, IsOnce(f),
           pos \in DOMAIN log, log[pos].kind # "delete", UNCHANGED log,
           db' = HandleUpsert(db, log[pos]),
           \A d \in Domains :
              /\ VersionAt(f, d, pos - 1)
              /\ d \notin Named(log[pos]) /\ log[pos].kind = "merge" => VersionAt(f, d, pos),
           NEW p, p = pos
    PROVE  CoherentInv' /\ \A d \in Domains : VersionAt(f, d, p)'
  <1> DEFINE e == log[pos]
  <1>1. /\ e \in Event /\ db \in Database /\ pos \in Nat /\ pos >= 1
        /\ e.id \in Indicators /\ e.object.modified = pos /\ e.object.domains \in SUBSET Domains
        /\ e.object.domains \in Patterns[e.id]
        /\ (e.kind # "merge" => e.from = {})
    BY LogType, Unfolded
  <1>2. PICK touched \in BOOLEAN : touched <=> Writable(e.object) /\ ~Stale(db, e)
    OBVIOUS
  <1>3. \A d \in Domains :
           db'.rows[d] = IF touched /\ d \in e.object.domains THEN RowOf(e) ELSE db.rows[d]
    <2>1. CASE Writable(e.object)
      <3>1. db' = UpsertOpenCTI(db, e)  BY <2>1 DEF HandleUpsert
      <3> QED  BY <1>1, <1>2, <2>1, <3>1, UpsertRows
    <2>2. CASE ~Writable(e.object)  BY <1>2, <2>2 DEF HandleUpsert
    <2> QED  BY <2>1, <2>2
  <1>4. RowOf(e).modified = pos /\ RowOf(e).record = e.id  BY <1>1 DEF RowOf
  <1>5. \A d : d \in Named(e) <=> Writable(e.object) /\ d \in e.object.domains
    BY DEF Named
  <1>6. Stale(db, e) /\ Writable(e.object) =>
           \A d \in e.object.domains : db.rows[d].modified >= pos
    <2> SUFFICES ASSUME Stale(db, e), Writable(e.object), NEW d \in e.object.domains
                 PROVE  db.rows[d].modified >= pos
      OBVIOUS
    <2>1. PICK c \in Domains : db.rows[c].record = e.id /\ db.rows[c].modified >= pos
      BY <1>1 DEF Stale
    <2>2. d \in Domains /\ d \in Named(e)  BY <1>1, <1>5
    <2> QED  BY <2>1, <2>2 DEF CoherentInv
  <1>7. ASSUME NEW d \in Domains PROVE VersionAt(f, d, p)'
    <2>1. PICK q \in 0..Len(log) : q >= pos - 1 /\ db.rows[d] = f[q].rows[d]
      BY DEF VersionAt
    <2>2. /\ db.rows[d].modified <= q /\ db.rows[d].modified \in Nat
      BY <2>1, VersionFacts
    <2>3. f[pos].rows[d] = RowAfter(f[pos - 1].rows[d], e, d)  BY OnceRows
    <2>4. pos \in 0..Len(log)  BY LogType
    <2>5. CASE touched /\ d \in e.object.domains
      <3>1. db'.rows[d] = RowOf(e) /\ f[pos].rows[d] = RowOf(e)
        BY <1>2, <1>3, <2>3, <2>5 DEF RowAfter
      <3> QED  BY <1>1, <2>4, <3>1 DEF VersionAt
    <2>6. CASE ~touched /\ d \in Named(e)
      <3>1. db.rows[d].modified >= pos  BY <1>2, <1>5, <1>6, <2>6
      <3>2. q >= pos /\ db'.rows[d] = db.rows[d]  BY <1>1, <1>3, <2>1, <2>2, <2>6, <3>1
      <3> QED  BY <2>1, <3>2 DEF VersionAt
    <2>7. CASE d \notin Named(e)
      <3>1. db'.rows[d] = db.rows[d]  BY <1>2, <1>3, <1>5, <2>7
      <3>2. CASE e.kind = "merge"
        <4>1. VersionAt(f, d, pos)  BY <2>7, <3>2
        <4> QED  BY <3>1, <4>1 DEF VersionAt
      <3>3. CASE e.kind # "merge" /\ q >= pos  BY <2>1, <3>1, <3>3 DEF VersionAt
      <3>4. CASE e.kind # "merge" /\ ~(q >= pos)
        <4>1. q = pos - 1  BY <1>1, <2>1, <3>4
        <4>2. f[pos].rows[d] = f[pos - 1].rows[d]
          BY <1>1, <1>5, <2>3, <2>7, <3>4 DEF RowAfter
        <4> QED  BY <1>1, <2>1, <2>4, <3>1, <4>1, <4>2 DEF VersionAt
      <3> QED  BY <3>2, <3>3, <3>4
    <2> QED  BY <1>2, <1>5, <2>5, <2>6, <2>7
  <1>8. ASSUME NEW c \in Domains, NEW d \in Domains, NEW k \in DOMAIN log, d \in Named(log[k]),
               db'.rows[c].record = log[k].id, db'.rows[c].modified >= k
        PROVE  db'.rows[d].modified >= k
    <2>0. k \in Nat /\ db.rows[d].modified \in Nat /\ db.rows[c].modified \in Nat
      BY <1>1, LogType, RowsType
    <2>1. CASE ~touched  BY <1>3, <1>8, <2>1 DEF CoherentInv
    <2>2. CASE touched /\ d \in e.object.domains /\ k <= pos
      BY <1>1, <1>3, <1>4, <2>0, <2>2
    <2>3. CASE touched /\ d \notin e.object.domains /\ k < pos
      <3>1. PICK q \in 0..Len(log) : q >= pos - 1 /\ db.rows[d] = f[q].rows[d]
        BY DEF VersionAt
      <3>2. k <= q  BY <1>1, <2>0, <2>3, <3>1
      <3>3. db.rows[d].modified >= k  BY <1>8, <3>1, <3>2, VersionFacts
      <3> QED  BY <1>3, <2>3, <3>3
    <2>4. CASE touched /\ k = pos /\ d \notin e.object.domains  BY <1>5, <1>8, <2>4
    <2>5. CASE touched /\ k > pos
      <3>1. db'.rows[c] = db.rows[c]  BY <1>1, <1>3, <1>4, <1>8, <2>0, <2>5
      <3>2. db.rows[c].record # e.id
        <4>1. ~(db.rows[c].record = e.id /\ db.rows[c].modified >= pos)
          BY <1>1, <1>2, <2>5 DEF Stale
        <4> QED  BY <1>1, <1>8, <2>0, <2>5, <3>1, <4>1
      <3>3. d \notin e.object.domains
        <4>1. d \in log[k].object.domains /\ log[k].object.domains \in Patterns[log[k].id]
              /\ log[k].id \in Indicators /\ log[k].id # e.id
          BY <1>8, <3>1, <3>2, LogType DEF Named
        <4>2. e.object.domains \cap log[k].object.domains = {}  BY <1>1, <4>1 DEF Separate
        <4> QED  BY <4>1, <4>2
      <3>4. db.rows[d].modified >= k  BY <1>8, <3>1 DEF CoherentInv
      <3> QED  BY <1>3, <3>3, <3>4
    <2> QED  BY <1>1, <2>0, <2>1, <2>2, <2>3, <2>4, <2>5
  <1> QED  BY <1>7, <1>8 DEF CoherentInv, Named

LEMMA UpsertKnown ==
    ASSUME TypeInv, ProgressInv, VerdictInv, KnownInv, pos \in DOMAIN log,
           log[pos].kind # "delete", UNCHANGED log, db' = HandleUpsert(db, log[pos]),
           applied' = applied \cup {pos}
    PROVE  KnownInv'
  <1> DEFINE e == log[pos]
  <1>1. \A k : Named(log'[k]) = Named(log[k]) /\ Lines(log'[k]) = Lines(log[k])  OBVIOUS
  <1>2. CASE Writable(e.object) /\ ~Stale(db, e)
    <2>1. Named(e) = e.object.domains /\ Lines(e) = e.object.domains \X {e.object.domains}
      BY <1>2 DEF Named, Lines
    <2>2. /\ db'.domains = db.domains \cup Named(e)
          /\ db'.evidence = db.evidence \cup Lines(e)
      BY <1>2, <2>1 DEF HandleUpsert, UpsertOpenCTI
    <2> HIDE DEF e
    <2> QED  BY <1>1, <2>2 DEF KnownInv, e
  <1>3. CASE ~Writable(e.object)
    <2>1. Named(e) = {} /\ Lines(e) = {} /\ db' = db
      BY <1>3 DEF Named, Lines, HandleUpsert
    <2> QED  BY <1>1, <2>1 DEF KnownInv
  <1>4. CASE Stale(db, e) /\ Writable(e.object)
    <2>1. pos \in applied  BY <1>4, StaleIsReplay
    <2>2. db' = db  BY <1>4 DEF HandleUpsert, UpsertOpenCTI
    <2>3. applied' = applied  BY <2>1
    <2> QED  BY <1>1, <2>2, <2>3 DEF KnownInv
  <1> QED  BY <1>2, <1>3, <1>4

\* A deletion that is replayed finds the rows switched off.
LEMMA DeleteReplay ==
    ASSUME TypeInv, OnceInv, CoherentInv, NEW f, IsOnce(f), pos \in DOMAIN log,
           log[pos].kind = "delete", UNCHANGED log, db' = DeleteOpenCTI(db, log[pos].id),
           \A d \in Domains : VersionAt(f, d, pos - 1), NEW p, p = pos
    PROVE  CoherentInv' /\ \A d \in Domains : VersionAt(f, d, p)'
  <1> DEFINE e == log[pos]
  <1>1. db \in Database /\ e.id \in Indicators /\ pos \in Nat /\ pos >= 1
        /\ pos \in 0..Len(log)
    BY LogType, Unfolded
  <1>2. \A d \in Domains : db.rows[d] \in RowType  BY <1>1, RowsType
  <1>3. \A d \in Domains :
           db'.rows[d] = IF db.rows[d].record = e.id THEN SwitchedOff(db.rows[d]) ELSE db.rows[d]
    BY <1>1, DeleteRows
  <1>4. \A d \in Domains : /\ db'.rows[d].record = db.rows[d].record
                           /\ db'.rows[d].modified = db.rows[d].modified
    BY <1>1, <1>2, <1>3, RowChanges
  <1>5. ASSUME NEW d \in Domains PROVE VersionAt(f, d, p)'
    <2>1. PICK q \in 0..Len(log) : q >= pos - 1 /\ db.rows[d] = f[q].rows[d]
      BY DEF VersionAt
    <2>2. f[pos].rows[d] = RowAfter(f[pos - 1].rows[d], e, d)  BY OnceRows
    <2>3. CASE q = pos - 1
      <3>1. db'.rows[d] = f[pos].rows[d]  BY <1>3, <2>1, <2>2, <2>3 DEF RowAfter
      <3> QED  BY <1>1, <3>1 DEF VersionAt
    <2>4. CASE q # pos - 1
      <3>1. q >= pos  BY <1>1, <2>1, <2>4
      <3>2. db.rows[d].record = e.id => ~db.rows[d].active /\ ~db.rows[d].revoked
        BY <2>1, <3>1, VersionFacts
      <3>3. db.rows[d].record = e.id => SwitchedOff(db.rows[d]) = db.rows[d]
        BY <1>2, <3>2 DEF SwitchedOff, RowType
      <3>4. db'.rows[d] = db.rows[d]  BY <1>3, <3>3
      <3> QED  BY <2>1, <3>1, <3>4 DEF VersionAt
    <2> QED  BY <2>3, <2>4
  <1>6. CoherentInv'  BY <1>4 DEF CoherentInv, Named
  <1> QED  BY <1>5, <1>6

\* A merge that is replayed finds no row of the indicators that were merged away, but those
\* that have been written again on the way.
LEMMA MergeReplay ==
    ASSUME TypeInv, LifeInv, OnceInv, CoherentInv, NEW f, IsOnce(f), DeliverMerge, Separate,
           \A d \in Domains : VersionAt(f, d, pos - 1), NEW p, p = pos
    PROVE  /\ CoherentInv'
           /\ \A d \in Domains : /\ VersionAt(f, d, p - 1)'
                                 /\ d \notin Named(log[p]) => VersionAt(f, d, p)'
  <1> DEFINE e == log[pos]
  <1>1. /\ pos \in DOMAIN log /\ db' = MergeOpenCTI(db, e.from, e.id) /\ e.kind = "merge"
        /\ UNCHANGED log
    BY DEF DeliverMerge, environment
  <1>2. /\ db \in Database /\ e.id \in Indicators /\ e.from \in SUBSET Indicators
        /\ e.id \notin e.from /\ pos \in Nat /\ pos >= 1 /\ pos \in 0..Len(log)
        /\ e.object.domains \in Patterns[e.id]
    BY <1>1, LogType, Unfolded
  <1>3. \A d \in Domains : db.rows[d] \in RowType  BY <1>2, RowsType
  <1>4. \A d \in Domains :
           db'.rows[d] = IF db.rows[d].record \in e.from THEN Renamed(db.rows[d], e.id)
                         ELSE db.rows[d]
    BY <1>1, <1>2, MergeRows
  <1>5. \A d \in Domains : /\ db'.rows[d].modified = db.rows[d].modified
                           /\ db.rows[d].record \notin e.from => db'.rows[d] = db.rows[d]
    BY <1>2, <1>3, <1>4, RowChanges
  <1>6. ASSUME NEW d \in Domains
        PROVE  VersionAt(f, d, p - 1)' /\ (d \notin Named(e) => VersionAt(f, d, p)')
    <2>1. PICK q \in 0..Len(log) : q >= pos - 1 /\ db.rows[d] = f[q].rows[d]
      BY DEF VersionAt
    <2>2. f[pos].rows[d] = RowAfter(f[pos - 1].rows[d], e, d)  BY <1>1, OnceRows
    <2>3. CASE q # pos - 1
      <3>1. q >= pos  BY <1>2, <2>1, <2>3
      <3>2. db.rows[d].record \notin e.from  BY <1>1, <2>1, <3>1, VersionFacts
      <3>3. db'.rows[d] = db.rows[d]  BY <1>5, <3>2
      <3> QED  BY <1>1, <2>1, <3>1, <3>3 DEF VersionAt
    <2>4. CASE q = pos - 1 /\ d \notin Named(e)
      <3>1. db'.rows[d] = f[pos].rows[d]
        BY <1>1, <1>4, <2>1, <2>2, <2>4 DEF RowAfter, Named
      <3>2. p >= p - 1 /\ p >= p  BY <1>2
      <3> QED  BY <1>1, <1>2, <3>1, <3>2 DEF VersionAt
    <2>5. CASE q = pos - 1 /\ d \in Named(e)
      <3>1. db.rows[d].record \notin e.from
        <4> SUFFICES ASSUME db.rows[d].record \in e.from PROVE FALSE  OBVIOUS
        <4>1. db.rows[d].record \notin {e.id, NoIndicator}  BY <1>2, SyncAssumption
        <4>2. d \in e.object.domains  BY <2>5 DEF Named
        <4>3. GoodRow(log, db.rows[d], d, q)  BY <2>1, OnceRows DEF Good
        <4>4. PICK m \in 1..q : e.id \in log[m].from  BY <1>2, <4>1, <4>2, <4>3 DEF GoodRow
        <4>5. m \in DOMAIN log /\ m < pos /\ m \in Nat  BY <1>2, <2>5, <4>4, LogType
        <4>6. Gone(e.id, m) /\ Mentions(e.id, pos)  BY <4>4 DEF Gone, Mentions
        <4>7. pos <= m  BY <1>1, <1>2, <4>5, <4>6 DEF LifeInv
        <4> QED  BY <1>2, <4>5, <4>7
      <3>2. db'.rows[d] = db.rows[d]  BY <1>5, <3>1
      <3> QED  BY <1>1, <2>1, <2>5, <3>2 DEF VersionAt
    <2> QED  BY <2>3, <2>4, <2>5
  <1>7. ASSUME NEW c \in Domains, NEW d \in Domains, NEW k \in DOMAIN log, d \in Named(log[k]),
               db'.rows[c].record = log[k].id, db'.rows[c].modified >= k
        PROVE  db'.rows[d].modified >= k
    <2>0. k \in Nat /\ db.rows[d].modified \in Nat /\ db.rows[c].modified \in Nat
      BY <1>2, LogType, RowsType
    <2>1. CASE db.rows[c].record \notin e.from
      BY <1>5, <1>7, <2>1 DEF CoherentInv
    <2>2. CASE db.rows[c].record \in e.from
      <3>1. PICK q \in 0..Len(log) : q >= pos - 1 /\ db.rows[c] = f[q].rows[c]
        BY DEF VersionAt
      <3>2. db.rows[c].modified <= q  BY <3>1, VersionFacts
      <3>3. ~(q >= pos)  BY <1>1, <2>2, <3>1, VersionFacts
      <3>4. k < pos  BY <1>2, <1>5, <1>7, <2>0, <3>2, <3>3
      <3>5. PICK r \in 0..Len(log) : r >= pos - 1 /\ db.rows[d] = f[r].rows[d]
        BY DEF VersionAt
      <3>6. k <= r  BY <1>2, <2>0, <3>4, <3>5
      <3>7. db.rows[d].modified >= k  BY <1>7, <3>5, <3>6, VersionFacts
      <3> QED  BY <1>5, <3>7
    <2> QED  BY <2>1, <2>2
  <1>8. CoherentInv'  BY <1>1, <1>7 DEF CoherentInv
  <1> QED  BY <1>6, <1>8

\* An edit leaves every version where it is.
LEMMA ToldReplay ==
    ASSUME TypeInv, ProgressInv, VerdictInv, ReplayInv, NEW e, Told(e)
    PROVE  ReplayInv'
  <1>1. PICK n : n = Len(log) + 1  OBVIOUS
  <1>2. /\ DOMAIN log' = DOMAIN log \cup {n} /\ n \in Nat
        /\ \A k \in DOMAIN log : log'[k] = log[k] /\ k \in Nat /\ k < n
    BY <1>1, ToldLog
  <1>3. UNCHANGED <<db, pc, pos, cfg, pending, checkpoint, applied>> /\ Len(log') = Len(log) + 1
    BY AppendedLog DEF Told
  <1>4. Place' = Place  BY <1>3 DEF Place, RestartAt, PlannedAt, At
  <1>5. \A k \in applied : k \in DOMAIN log /\ k \in Nat  BY FirstOrReplay
  <1>6. ASSUME NEW f, IsOnce(f)', NEW d \in Domains PROVE VersionAt(f, d, Floor(d))'
    <2>1. IsOnce(f)  BY <1>2, <1>6 DEF IsOnce
    <2>2. PICK q \in 0..Len(log) : q >= Floor(d) /\ db.rows[d] = f[q].rows[d]
      BY <2>1 DEF ReplayInv, VersionInv, VersionAt
    <2>3. q \in 0..Len(log')  BY <1>3, LogType
    <2>4. Floor(d)' = Floor(d)
      <3>1. pc = "merged" => pos \in DOMAIN log  BY Unfolded
      <3> QED  BY <1>2, <1>3, <1>4, <3>1 DEF Floor
    <2> QED  BY <1>3, <2>2, <2>3, <2>4 DEF VersionAt
  <1>7. CoherentInv'
    <2>1. \A d \in Domains : db.rows[d].modified \in Nat /\ db.rows[d].modified \in applied \cup {0}
      BY Unfolded, RowsType DEF VerdictInv
    <2>2. \A d \in Domains : ~(db.rows[d].modified >= n)
      BY <1>1, <1>2, <1>5, <2>1, LogType
    <2> QED  BY <1>2, <1>3, <2>2 DEF ReplayInv, CoherentInv
  <1>8. KnownInv'
    <2>1. \A k \in applied : Named(log'[k]) = Named(log[k]) /\ Lines(log'[k]) = Lines(log[k])
      BY <1>2, <1>5
    <2>2. /\ {Named(log'[k]) : k \in applied} = {Named(log[k]) : k \in applied}
          /\ {Lines(log'[k]) : k \in applied} = {Lines(log[k]) : k \in applied}
      BY <2>1
    <2> QED  BY <1>3, <2>2 DEF ReplayInv, KnownInv
  <1> QED  BY <1>6, <1>7, <1>8 DEF ReplayInv, VersionInv

\* The place falls back, or stays.
LEMMA FallsReplay ==
    ASSUME TypeInv, ReplayInv, UNCHANGED <<log, db, applied>>,
           \A d \in Domains : Floor(d)' \in Int /\ Floor(d) \in Int
                              /\ (Floor(d)' <= Floor(d) \/ Floor(d)' <= 0)
    PROVE  ReplayInv'
  <1>1. ASSUME NEW f, IsOnce(f)', NEW d \in Domains PROVE VersionAt(f, d, Floor(d))'
    <2>1. IsOnce(f)  BY <1>1 DEF IsOnce
    <2>2. PICK q \in 0..Len(log) : q >= Floor(d) /\ db.rows[d] = f[q].rows[d]
      BY <2>1 DEF ReplayInv, VersionInv, VersionAt
    <2>3. q >= Floor(d)'  BY <2>2
    <2> QED  BY <2>2, <2>3 DEF VersionAt
  <1>2. CoherentInv'  BY DEF ReplayInv, CoherentInv
  <1>3. KnownInv'  BY DEF ReplayInv, KnownInv
  <1> QED  BY <1>1, <1>2, <1>3 DEF ReplayInv, VersionInv

LEMMA NextReplay ==
    ASSUME HandlersSucceed, Separate, MirrorInv, OnceInv, ReplayInv, Kept, [Next]_vars
    PROVE  ReplayInv'
  <1> USE DEF MirrorInv
  <1>0. ~FailStart /\ ~FailHandle /\ ~FailCheckpoint /\ ~FailClose /\ ~Stop
    BY DEF HandlersSucceed, FailStart, FailHandle, FailCheckpoint, FailClose, Stop, Fault
  <1>p. PICK p : p = pos  OBVIOUS
  <1>f. /\ \E f : IsOnce(f)
        /\ UNCHANGED log => \A f : IsOnce(f)' <=> IsOnce(f)
    BY OnceIs DEF IsOnce
  <1>a. pc = "listening" => \A f, d : VersionAt(f, d, Floor(d)) => VersionAt(f, d, pos - 1)
    BY PlaceIs DEF Floor, Connected
  <1>1. CASE Analyst
    <2>1. PICK e : Told(e)  BY <1>1, AnalystTells DEF Separate
    <2> QED  BY <2>1, ToldReplay
  <1>2. CASE Start \/ Connect \/ Checkpoint \/ Close \/ Disconnect \/ Kill
    <2>1. UNCHANGED <<log, db, applied>>
      BY <1>2 DEF Start, Connect, Checkpoint, Close, Disconnect, Kill, environment
    <2>2. (Place' <= Place \/ Place' <= 1) /\ Place' \in Int /\ Place \in Int /\ pc' # "merged"
      BY <1>2, PlaceFalls
    <2>3. pc = "merged" => Place = pos /\ pos \in Nat  BY PlaceIs, Unfolded DEF Connected
    <2>4. \A d : /\ Floor(d)' = Place' - 1 /\ Floor(d) >= Place - 1
                 /\ Floor(d) \in Int
      BY <2>2, <2>3 DEF Floor
    <2>5. \A d : Floor(d)' \in Int /\ (Floor(d)' <= Floor(d) \/ Floor(d)' <= 0)
      BY <2>2, <2>4
    <2> QED  BY <2>1, <2>4, <2>5, FallsReplay
  <1>3. CASE Deliver
    <2>1. /\ pc = "listening" /\ pos \in DOMAIN log /\ log[pos].kind # "merge"
          /\ db' = Handle(db, log[pos]) /\ Handled
      BY <1>3 DEF Deliver
    <2>2. /\ pc' \in {"listening", "checkpoint"} /\ pos' = pos + 1 /\ pos \in Nat
          /\ applied' = applied \cup {pos} /\ UNCHANGED log
      BY <2>1, Unfolded DEF Handled, Record, environment
    <2>3. \A d : Floor(d)' = p
      <3>1. Place' = pos + 1  BY <2>2, PlaceIs DEF Connected
      <3> QED  BY <1>p, <2>2, <3>1 DEF Floor
    <2>4. \A f : IsOnce(f) => \A d \in Domains : VersionAt(f, d, pos - 1)
      BY <1>a, <2>1 DEF ReplayInv, VersionInv
    <2>5. CASE log[pos].kind = "delete"
      <3>1. db' = DeleteOpenCTI(db, log[pos].id)  BY <2>1, <2>5 DEF Handle
      <3>2. \A f : IsOnce(f) => CoherentInv' /\ \A d \in Domains : VersionAt(f, d, p)'
        BY <1>p, <2>1, <2>2, <2>4, <2>5, <3>1, DeleteReplay DEF ReplayInv
      <3>3. KnownInv'
        <4>1. db'.domains = db.domains /\ db'.evidence = db.evidence
          BY <2>1, <3>1, LogType, Unfolded, DeleteRows
        <4>2. Named(log[pos]) = {} /\ Lines(log[pos]) = {}  BY <2>5 DEF Named, Lines
        <4> QED  BY <2>2, <4>1, <4>2 DEF ReplayInv, KnownInv
      <3> QED  BY <1>f, <2>2, <2>3, <3>2, <3>3 DEF ReplayInv, VersionInv
    <2>6. CASE log[pos].kind # "delete"
      <3>1. db' = HandleUpsert(db, log[pos])  BY <2>1, <2>6, LogType DEF Handle
      <3>2. \A f : IsOnce(f) => CoherentInv' /\ \A d \in Domains : VersionAt(f, d, p)'
        BY <1>p, <2>1, <2>2, <2>4, <2>6, <3>1, UpsertReplay DEF ReplayInv
      <3>3. KnownInv'  BY <2>1, <2>2, <2>6, <3>1, UpsertKnown DEF ReplayInv
      <3> QED  BY <1>f, <2>2, <2>3, <3>2, <3>3 DEF ReplayInv, VersionInv
    <2> QED  BY <2>5, <2>6
  <1>4. CASE DeliverMerge
    <2>1. /\ pc = "listening" /\ pc' = "merged" /\ pos \in DOMAIN log /\ pos \in Nat
          /\ db' = MergeOpenCTI(db, log[pos].from, log[pos].id)
          /\ UNCHANGED <<log, pos, applied>>
      BY <1>4, Unfolded DEF DeliverMerge, environment
    <2>2. \A f : IsOnce(f) => \A d \in Domains : VersionAt(f, d, pos - 1)
      BY <1>a, <2>1 DEF ReplayInv, VersionInv
    <2>3. \A f : IsOnce(f) =>
             /\ CoherentInv'
             /\ \A d \in Domains : /\ VersionAt(f, d, p - 1)'
                                   /\ d \notin Named(log[p]) => VersionAt(f, d, p)'
      BY <1>p, <1>4, <2>2, MergeReplay DEF ReplayInv
    <2>4. \A d : Floor(d)' = IF d \notin Named(log[p]) THEN p ELSE p - 1
      <3>1. Place' = pos  BY <2>1, PlaceIs DEF Connected
      <3> QED  BY <1>p, <2>1, <3>1 DEF Floor
    <2>5. KnownInv'
      <3>1. db'.domains = db.domains /\ db'.evidence = db.evidence
        <4>1. /\ db \in Database /\ log[pos].from \in SUBSET Indicators
              /\ log[pos].id \in Indicators /\ log[pos].id \notin log[pos].from
          BY <2>1, LogType, Unfolded
        <4> QED  BY <2>1, <4>1, MergeKnown
      <3> QED  BY <2>1, <3>1 DEF ReplayInv, KnownInv
    <2>6. ASSUME NEW f, IsOnce(f)', NEW d \in Domains PROVE VersionAt(f, d, Floor(d))'
      <3>1. IsOnce(f)  BY <1>f, <2>1, <2>6
      <3>2. CASE d \notin Named(log[p])
        <4>1. Floor(d)' = p /\ VersionAt(f, d, p)'  BY <2>3, <2>4, <3>1, <3>2
        <4> QED  BY <4>1 DEF VersionAt
      <3>3. CASE d \in Named(log[p])
        <4>1. Floor(d)' = p - 1 /\ VersionAt(f, d, p - 1)'  BY <2>3, <2>4, <3>1, <3>3
        <4> QED  BY <4>1 DEF VersionAt
      <3> QED  BY <3>2, <3>3
    <2> QED  BY <1>f, <2>3, <2>5, <2>6 DEF ReplayInv, VersionInv
  <1>5. CASE FinishMerge
    <2>1. /\ pc = "merged" /\ pos \in DOMAIN log /\ log[pos].kind = "merge"
          /\ db' = HandleUpsert(db, log[pos]) /\ Handled
      BY <1>5, Unfolded DEF FinishMerge
    <2>2. /\ pc' \in {"listening", "checkpoint"} /\ pos' = pos + 1 /\ pos \in Nat
          /\ applied' = applied \cup {pos} /\ UNCHANGED log
      BY <2>1, Unfolded DEF Handled, Record, environment
    <2>3. \A d : Floor(d)' = p
      <3>1. Place' = pos + 1  BY <2>2, PlaceIs DEF Connected
      <3> QED  BY <1>p, <2>2, <3>1 DEF Floor
    <2>4. ASSUME NEW f, IsOnce(f), NEW d \in Domains
          PROVE  VersionAt(f, d, pos - 1) /\ (d \notin Named(log[pos]) => VersionAt(f, d, pos))
      <3>1. Place = pos  BY <2>1, PlaceIs DEF Connected
      <3>2. PICK q \in 0..Len(log) : q >= Floor(d) /\ db.rows[d] = f[q].rows[d]
        BY <2>4 DEF ReplayInv, VersionInv, VersionAt
      <3>3. q >= pos - 1 /\ (d \notin Named(log[pos]) => q >= pos)
        BY <2>1, <2>2, <3>1, <3>2 DEF Floor
      <3> QED  BY <3>2, <3>3 DEF VersionAt
    <2>5. \A f : IsOnce(f) => CoherentInv' /\ \A d \in Domains : VersionAt(f, d, p)'
      BY <1>p, <2>1, <2>2, <2>4, UpsertReplay DEF ReplayInv
    <2>6. KnownInv'  BY <2>1, <2>2, UpsertKnown DEF ReplayInv
    <2> QED  BY <1>f, <2>2, <2>3, <2>5, <2>6 DEF ReplayInv, VersionInv
  <1>6. CASE Trim \/ UNCHANGED vars
    <2>1. UNCHANGED <<log, db, applied, pc, cfg, pos, pending, checkpoint>>
      BY <1>6 DEF Trim, vars, environment, memory
    <2>2. Place' = Place /\ Place \in Int /\ pos \in Nat
      BY <2>1, PlacesType, Unfolded DEF Place, RestartAt, PlannedAt, At
    <2>3. \A d : Floor(d)' = Floor(d) /\ Floor(d) \in Int  BY <2>1, <2>2 DEF Floor
    <2> QED  BY <2>1, <2>3, FallsReplay
  <1> QED  BY <1>0, <1>1, <1>2, <1>3, <1>4, <1>5, <1>6 DEF Next, Consume

LEMMA InitReplay == ASSUME Init PROVE ReplayInv
  <1>1. log = <<>> /\ pc = "listening" /\ pos = 1 /\ db = EmptyDatabase /\ applied = {}
    BY DEF Init
  <1>2. Place = 1 /\ Len(log) = 0 /\ DOMAIN log = {}  BY <1>1 DEF Place
  <1>3. \A d : Floor(d) = 0  BY <1>1, <1>2 DEF Floor
  <1>4. VersionInv  BY <1>1, <1>2, <1>3 DEF VersionInv, VersionAt, IsOnce
  <1>5. KnownInv  BY <1>1 DEF KnownInv, EmptyDatabase
  <1> QED  BY <1>2, <1>4, <1>5 DEF ReplayInv, CoherentInv

LEMMA HarmlessWhenCaughtUp ==
    ASSUME TypeInv, OnceInv, ReplayInv PROVE ReplayIsHarmless
  <1> SUFFICES ASSUME CaughtUp PROVE db = Once[Len(log)]  BY DEF ReplayIsHarmless
  <1>1. PICK n \in Nat : n = Len(log)  BY LogType
  <1>2. pc = "listening" /\ pos = n + 1 /\ applied = 1..n  BY <1>1 DEF CaughtUp
  <1>3. IsOnce(Once)  BY OnceIs
  <1>4. PICK E \in Database : E = Once[n]  BY <1>1, <1>3, OnceRows
  <1>5. Good(log, Once, n)  BY <1>1, <1>3, OnceRows
  <1>6. ASSUME NEW d \in Domains PROVE db.rows[d] = E.rows[d]
    <2>1. Floor(d) = n  BY <1>2, PlaceIs DEF Floor, Connected
    <2>2. PICK q \in 0..Len(log) : q >= Floor(d) /\ db.rows[d] = Once[q].rows[d]
      BY <1>3 DEF ReplayInv, VersionInv, VersionAt
    <2>3. q = n  BY <1>1, <2>1, <2>2
    <2> QED  BY <1>4, <2>2, <2>3
  <1>7. db.rows = E.rows
    <2>1. db.rows \in [Domains -> RowType] /\ E.rows \in [Domains -> RowType]
      BY Unfolded, RowsType
    <2> QED  BY <1>6, <2>1
  <1>8. db.domains = E.domains /\ db.evidence = E.evidence
    BY <1>2, <1>4, <1>5 DEF Good, ReplayInv, KnownInv
  <1>9. db \in Database  BY Unfolded
  <1> QED  BY <1>1, <1>4, <1>7, <1>8, <1>9 DEF Database

\* What had to be replayed is harmless, as long as no handler fails and the stream has the
\* ids it is asked for.
THEOREM ReplaysAreHarmless ==
    ASSUME HandlersSucceed, Separate PROVE Spec /\ []Kept => []ReplayIsHarmless
  <1>1. MirrorInv /\ Kept /\ [Next]_vars => VerdictInv' /\ ActiveInv'  BY NextMirror
  <1>2. MirrorInv /\ OnceInv /\ ReplayInv /\ Kept /\ [Next]_vars => ReplayInv'  BY NextReplay
  <1>3. Init => VerdictInv /\ ActiveInv /\ ReplayInv  BY InitMirror, InitReplay
  <1>4. Spec => [](TruthInv /\ LifeInv)  BY OpenCTI DEF Separate
  <1>5. Spec => []OnceInv  BY EachOnce
  <1>6. TypeInv /\ OnceInv /\ ReplayInv => ReplayIsHarmless  BY HarmlessWhenCaughtUp
  <1> QED
    BY <1>1, <1>2, <1>3, <1>4, <1>5, <1>6, Progress, TypeInvariance, PTL DEF Spec, MirrorInv

\* Any number of kills and long stops, or of kills and lost connections, at any points, with
\* any edits and merges, comes to the database of events applied once, in order (Handle,
\* SaveStreamState: "đường ghi đã idempotent").
THEOREM ReplaysAreHarmlessMildly ==
    ASSUME MildFaults, Separate PROVE Spec => []ReplayIsHarmless
  <1>1. HandlersSucceed  BY DEF HandlersSucceed, MildFaults
  <1> QED  BY <1>1, StreamHasTheId, ReplaysAreHarmless, PTL
=============================================================================
