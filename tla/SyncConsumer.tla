----------------------------- MODULE SyncConsumer -----------------------------
(***************************************************************************)
(* sync-consumer: the events of an OpenCTI Live Stream are applied to the  *)
(* database one by one (internal/syncconsumer), while the connection       *)
(* breaks, the database fails and the process dies; a checkpoint in the    *)
(* database says where to resume.  A transaction is one step; a merge is   *)
(* two.  OpenCTI is the environment: analysts edit indicators, each edit   *)
(* is the next event of the stream, whose place is its id and its time.    *)
(***************************************************************************)
EXTENDS Integers, Sequences, OpenCTIStore

CONSTANTS
    Patterns,        \* Patterns[i]: the sets of domains indicator i may name
    Detections,      \* the values of x_opencti_detection analysts use
    Recreates,       \* a deleted indicator may be created again, same id
    Merges,          \* indicators may be merged
    MaxEvents,       \* bound on the edits
    CheckpointEvery, \* opencti.checkpoint_every
    Fresh,           \* the first connection is the first ever: no checkpoint
    Faults,          \* which of FaultKinds happen
    MaxFaults        \* bound on their number

\* A database error in a handler or a checkpoint; a lost connection; a kill; a
\* SIGTERM; the stream's window passing the next event while the process is
\* stopped, or while it waits to reconnect.
FaultKinds == {"dbError", "disconnect", "kill", "stop", "trimStopped", "trimWaiting"}

ASSUME SyncAssumption ==
    /\ NoIndicator \notin Indicators \cup Labels
    /\ Patterns \in [Indicators -> SUBSET SUBSET Domains]
    /\ Detections \subseteq BOOLEAN
    /\ Recreates \in BOOLEAN /\ Merges \in BOOLEAN /\ Fresh \in BOOLEAN
    /\ MaxEvents \in Nat /\ CheckpointEvery \in Nat \ {0}
    /\ Faults \subseteq FaultKinds /\ MaxFaults \in Nat

None == -1  \* no event id, no time
Absent == [domains |-> {}, revoked |-> FALSE, detection |-> FALSE,
           label |-> NoIndicator, modified |-> 0]

VARIABLES
    truth,      \* OpenCTI: the object of each indicator, or Absent
    log,        \* the events of the stream
    window,     \* ids below it are no longer kept by the stream
    pc,         \* the step of Consumer.Run
    stopping,   \* the context is cancelled
    cfg,        \* StartFrom and Recover of the next connection
    pos,        \* place of the next event of this connection
    pending,    \* pendingID, pendingAt and pendingCount
    checkpoint, \* the row of opencti_stream_state; late: at was over max_catch_up ago
                \* when a start last looked
    db,
    applied,    \* history: places of the events whose handler succeeded
    faults

environment == <<truth, log, window>>
memory == <<pc, stopping, cfg, pos, pending>>
vars == <<environment, memory, checkpoint, db, applied, faults>>

NoPending == [id |-> None, at |-> None, count |-> 0]

\* The model starts with the first connection up: before event 1 there is a
\* checkpoint of event 0, or none at all.
Init ==
    /\ truth = [i \in Indicators |-> Absent]
    /\ log = <<>>
    /\ window = 0
    /\ pc = "listening"
    /\ stopping = FALSE
    /\ LET place == IF Fresh THEN None ELSE 0
       IN  checkpoint = [id |-> place, at |-> place, late |-> FALSE]
    /\ cfg = [from |-> checkpoint.id, recover |-> None]
    /\ pos = 1
    /\ pending = NoPending
    /\ db = EmptyDatabase
    /\ applied = {}
    /\ faults = 0

-----------------------------------------------------------------------------
(* OpenCTI.                                                                *)

Live(i) == truth[i] # Absent

Emit(kind, i, from, object) ==
    /\ Len(log) < MaxEvents
    /\ log' = Append(log, [kind |-> kind, id |-> i, from |-> from, object |-> object])
    /\ UNCHANGED <<window, memory, checkpoint, db, applied, faults>>

\* The analyst's values; OpenCTI stamps the edit.
Edited(i) ==
    {[domains |-> domains, revoked |-> revoked, detection |-> detection,
      label |-> label, modified |-> Len(log) + 1] :
        domains \in Patterns[i], revoked \in BOOLEAN, detection \in Detections,
        label \in Labels}

Create(i) ==
    /\ ~Live(i)
    /\ Recreates \/ \A k \in DOMAIN log : i \notin {log[k].id} \cup log[k].from
    /\ \E object \in Edited(i) :
        /\ truth' = [truth EXCEPT ![i] = object]
        /\ Emit("create", i, {}, object)

Update(i) ==
    /\ Live(i)
    /\ \E object \in Edited(i) :
        /\ truth' = [truth EXCEPT ![i] = object]
        /\ Emit("update", i, {}, object)

\* A delete event carries the object as it was last modified.
Delete(i) ==
    /\ Live(i)
    /\ truth' = [truth EXCEPT ![i] = Absent]
    /\ Emit("delete", i, {}, truth[i])

Merge(i, j) ==
    /\ Merges
    /\ i # j /\ Live(i) /\ Live(j)
    /\ LET object == [truth[j] EXCEPT !.modified = Len(log) + 1]
       IN  /\ truth' = [truth EXCEPT ![i] = Absent, ![j] = object]
           /\ Emit("merge", j, {i}, object)

Analyst ==
    \/ \E i \in Indicators : Create(i) \/ Update(i) \/ Delete(i)
    \/ \E i, j \in Indicators : Merge(i, j)

-----------------------------------------------------------------------------
(* Consumer.Run and Consumer.Handle.                                       *)

Fault(kind) ==
    /\ kind \in Faults
    /\ faults < MaxFaults
    /\ faults' = faults + 1

\* Variant: the id is used however long the stop was.
StartFromId ==
    /\ pc = "stopped"
    /\ cfg' = [from |-> checkpoint.id, recover |-> None]
    /\ pc' = "connecting"
    /\ UNCHANGED <<environment, stopping, pos, pending, checkpoint, db, applied, faults>>

\* cmd/sync-consumer run: StreamState, and whether the stop was so long (over
\* max_catch_up, which is inside the stream's window) that the id is given up
\* for the time of the event.  Until the next checkpoint it can only get longer.
Start ==
    /\ pc = "stopped"
    /\ \E long \in BOOLEAN :
        /\ checkpoint.late \/ checkpoint.id < window => long
        /\ checkpoint' = [checkpoint EXCEPT !.late = long]
        /\ cfg' = IF long /\ checkpoint.at # None
                  THEN [from |-> None, recover |-> checkpoint.at]
                  ELSE [from |-> checkpoint.id, recover |-> None]
    /\ pc' = "connecting"
    /\ UNCHANGED <<environment, stopping, pos, pending, db, applied, faults>>

\* resolveLabels or StreamState fails: run returns and the goroutine is over, the error
\* only logged, while RunServers keeps the process up.
FailStart ==
    /\ pc = "stopped"
    /\ Fault("dbError")
    /\ pc' = "ended"
    /\ UNCHANGED <<environment, stopping, cfg, pos, pending, checkpoint, db, applied>>

\* Where the stream starts sending: from the time to recover from, after the id,
\* or from now when there is no id or it is no longer kept.
ResumeAt ==
    IF cfg.recover # None THEN IF cfg.recover = 0 THEN 1 ELSE cfg.recover
    ELSE IF cfg.from = None \/ cfg.from < window THEN Len(log) + 1
    ELSE cfg.from + 1

Connect ==
    /\ pc = "connecting"
    /\ pos' = ResumeAt
    /\ pc' = "listening"
    /\ UNCHANGED <<environment, stopping, cfg, pending, checkpoint, db, applied, faults>>

\* Handle records the event as the last one, whatever came of it.
Record ==
    /\ pending' = [id |-> pos, at |-> log[pos].object.modified, count |-> pending.count + 1]
    /\ pos' = pos + 1

\* The handler has succeeded: maybeFlush writes a checkpoint when enough events
\* are pending, or (the clock) enough time has passed.
Handled ==
    /\ Record
    /\ applied' = applied \cup {pos}
    /\ pc' \in {"checkpoint"} \cup
                 (IF pending.count + 1 < CheckpointEvery THEN {"listening"} ELSE {})
    /\ UNCHANGED <<environment, stopping, cfg, checkpoint, faults>>

Deliver ==
    /\ pc = "listening"
    /\ pos \in DOMAIN log
    /\ log[pos].kind # "merge"
    /\ db' = Handle(db, log[pos])
    /\ Handled

\* handleMerge: MergeOpenCTI is a transaction of its own ...
DeliverMerge ==
    /\ pc = "listening"
    /\ pos \in DOMAIN log
    /\ log[pos].kind = "merge"
    /\ db' = MergeOpenCTI(db, log[pos].from, log[pos].id)
    /\ pc' = "merged"
    /\ UNCHANGED <<environment, stopping, cfg, pos, pending, checkpoint, applied, faults>>

\* Variant: the survivor is not written.
FinishMergeOnly ==
    /\ pc = "merged"
    /\ UNCHANGED db
    /\ Handled

\* ... and the survivor is written in the next.
FinishMerge ==
    /\ pc = "merged"
    /\ db' = HandleUpsert(db, log[pos])
    /\ Handled

\* A handler has to go to the database.
Writing ==
    \/ /\ pc = "listening"
       /\ pos \in DOMAIN log
       /\ log[pos].kind \in {"delete", "merge"} \/ Writable(log[pos].object)
    \/ /\ pc = "merged"
       /\ Writable(log[pos].object)

\* The transaction fails, because the database does or because SIGTERM has
\* cancelled its context: Handle returns the error and Listen returns.
FailHandle ==
    /\ Writing
    /\ \/ Fault("dbError") /\ UNCHANGED stopping
       \/ Fault("stop") /\ stopping' = TRUE
    /\ Record
    /\ pc' = "closing"
    /\ UNCHANGED <<environment, cfg, checkpoint, db, applied>>

SaveCheckpoint == checkpoint' = [id |-> pending.id, at |-> pending.at, late |-> FALSE]
Flushed == pending' = [pending EXCEPT !.count = 0]

\* maybeFlush: Flush after an event, over the same connection.
Checkpoint ==
    /\ pc = "checkpoint"
    /\ SaveCheckpoint /\ Flushed
    /\ pc' = "listening"
    /\ UNCHANGED <<environment, stopping, cfg, pos, db, applied, faults>>

FailCheckpoint ==
    /\ pc = "checkpoint"
    /\ Fault("dbError")
    /\ pc' = "closing"
    /\ UNCHANGED <<environment, stopping, cfg, pos, pending, checkpoint, db, applied>>

Disconnect ==
    /\ pc = "listening"
    /\ Fault("disconnect")
    /\ pc' = "closing"
    /\ UNCHANGED <<environment, stopping, cfg, pos, pending, checkpoint, db, applied>>

\* What a process that ends leaves in memory: nothing.
Forget ==
    /\ pc' = "stopped"
    /\ stopping' = FALSE
    /\ pending' = NoPending
    /\ cfg' = [from |-> None, recover |-> None]
    /\ pos' = 1

\* SIGTERM between two events, before a checkpoint, or where Run is about to connect:
\* a Flush is still to come.  In the backoff Run returns at once, and where the goroutine
\* is over nothing is left to wait for.
Stop ==
    /\ Fault("stop")
    /\ \/ /\ pc \in {"listening", "checkpoint", "connecting"}
          /\ stopping' = TRUE
          /\ pc' = "closing"
          /\ UNCHANGED <<cfg, pos, pending>>
       \/ /\ pc \in {"connecting", "ended"}
          /\ Forget
    /\ UNCHANGED <<environment, checkpoint, db, applied>>

\* Variant: only a connection that brought events is opened again.
CloseAfterEvents ==
    /\ pc = "closing"
    /\ pending.count > 0
    /\ SaveCheckpoint
    /\ IF stopping THEN Forget
       ELSE /\ pc' = "connecting"
            /\ cfg' = [from |-> pending.id, recover |-> None]
            /\ Flushed
            /\ UNCHANGED <<stopping, pos>>
    /\ UNCHANGED <<environment, db, applied, faults>>

\* After Listen, however it ended: Flush, then either return or go back, from the
\* last id if an event has been handled in this process.
Reopen ==
    IF stopping THEN Forget
    ELSE /\ pc' = "connecting"
         /\ cfg' = IF pending.id # None THEN [from |-> pending.id, recover |-> None] ELSE cfg
         /\ UNCHANGED <<stopping, pos>>

Close ==
    /\ pc = "closing"
    /\ IF pending.count > 0 THEN SaveCheckpoint ELSE UNCHANGED checkpoint
    /\ Reopen
    /\ stopping \/ Flushed
    /\ UNCHANGED <<environment, db, applied, faults>>

\* That Flush fails: the error is logged, the count stays for the next one.
FailClose ==
    /\ pc = "closing"
    /\ pending.count > 0
    /\ Fault("dbError")
    /\ Reopen
    /\ stopping \/ UNCHANGED pending
    /\ UNCHANGED <<environment, checkpoint, db, applied>>

Kill ==
    /\ pc # "stopped"
    /\ Fault("kill")
    /\ Forget
    /\ UNCHANGED <<environment, checkpoint, db, applied>>

\* An outage so long that the stream drops what it had.
Trim ==
    /\ \/ pc = "stopped" /\ Fault("trimStopped")
       \/ pc = "connecting" /\ Fault("trimWaiting")
    /\ window' = Len(log) + 1
    /\ UNCHANGED <<truth, log, memory, checkpoint, db, applied>>

Consume == Start \/ Connect \/ Deliver \/ DeliverMerge \/ FinishMerge \/ Checkpoint \/ Close

Next ==
    \/ Analyst
    \/ Consume
    \/ FailStart \/ FailHandle \/ FailCheckpoint \/ FailClose
    \/ Disconnect \/ Stop \/ Kill \/ Trim

Spec == Init /\ [][Next]_vars

\* The consumer's goroutine runs while there is one, the container is restarted when the
\* process has exited, the stream answers.
FairSpec == Spec /\ WF_vars(Consume)

-----------------------------------------------------------------------------
(* Properties.                                                             *)

Ids == None..MaxEvents

TypeOK ==
    /\ truth \in [Indicators -> Object \cup {Absent}]
    /\ log \in Seq(Event) /\ Len(log) <= MaxEvents
    /\ window \in 0..(MaxEvents + 1)
    /\ pc \in {"listening", "merged", "checkpoint", "closing", "connecting", "stopped",
              "ended"}
    /\ stopping \in BOOLEAN
    /\ cfg \in [from : Ids, recover : Ids]
    /\ pos \in 1..(MaxEvents + 1)
    /\ pending \in [id : Ids, at : Ids, count : Nat]
    /\ checkpoint \in [id : Ids, at : Ids, late : BOOLEAN]
    /\ db \in Database
    /\ applied \subseteq 1..MaxEvents
    /\ faults \in 0..MaxFaults

\* No event is passed over: neither the checkpoint nor a connection gets past an
\* event whose handler has not succeeded ("ghi trước rồi chết giữa chừng sẽ bỏ
\* qua vĩnh viễn sự kiện đó", Flush; "một khoảng dữ liệu mất hẳn", Run).
NothingSkipped ==
    /\ 1..checkpoint.id \subseteq applied
    /\ pc = "listening" => 1..(pos - 1) \subseteq applied

CaughtUp ==
    pc = "listening" /\ pos = Len(log) + 1 /\ applied = 1..Len(log)

\* What the first n events make of the database, each applied once, in order.
Once[n \in 0..Len(log)] ==
    IF n = 0 THEN EmptyDatabase ELSE Handle(Once[n - 1], log[n])

\* Replaying events after a restart is harmless: once the consumer has caught up,
\* whatever it had to replay, the database is what the events make of it when
\* each is applied once, in order ("đường ghi đã idempotent", SaveStreamState).
ReplayIsHarmless == CaughtUp => db = Once[Len(log)]

\* When the consumer has caught up the rows are those of OpenCTI: an indicator
\* that is there has its domains, verdict and category, and no row is left to an
\* indicator that is gone, deleted or merged, to block its domain for ever.
MirrorsOpenCTI ==
    CaughtUp =>
        /\ \A i \in Indicators :
              Live(i) /\ Writable(truth[i]) =>
                  \A d \in truth[i].domains :
                      /\ db.rows[d].active
                      /\ db.rows[d].revoked = truth[i].revoked
                      /\ db.rows[d].label = truth[i].label
        /\ \A d \in Domains :
              db.rows[d].active =>
                  \E i \in Indicators : db.rows[d].record = i /\ Live(i) /\ truth[i].detection

\* The indicator of event k is merged into another by a later event.
MergedLater(k) == \E m \in DOMAIN log : m > k /\ log[k].id \in log[m].from

\* A revoked row that goes on blocking loses the veto only to an edit later than the row
\* (isStale), with one exception: the row of an indicator that has been merged carries the
\* survivor's id, so isStale does not find it, and the replay of an event from before the
\* merge does revive it.
RevocationSticks ==
    [][\A d \in Domains :
          LET row == db.rows[d] IN
          row.revoked /\ db'.rows[d].active /\ ~db'.rows[d].revoked =>
              \/ db'.rows[d].modified > row.modified
              \/ pos \in DOMAIN log /\ MergedLater(pos)]_vars

\* Every row can be explained from L0, and its domain is known, whichever event
\* wrote it and whatever its indicator was merged into.
RowsExplained ==
    \A d \in Domains :
        db.rows[d] # NoRow =>
            /\ d \in db.domains
            /\ \E line \in db.evidence : line[1] = d

\* When analysts and faults have come to an end, the consumer catches up; unless a start
\* met a database error, for nothing brings that process's consumer back.
CatchesUp ==
    \/ <>[](pc = "listening" /\ pos = Len(log) + 1)
    \/ <>[](pc = "ended")

\* The consumer catches up and nobody has to restart the container for it, which is why
\* awaitSource retries ("Thử lại thay vì đứng yên vĩnh viễn").
AlwaysCatchesUp == <>[](pc = "listening" /\ pos = Len(log) + 1)

\* "một indicator vừa được thu hồi sẽ sống dậy vì bản sao cũ ghi đè lên bản mới"
\* (UpsertOpenCTI): a revoked row is not revived by an old event, merged or not.
RevocationFinal ==
    [][\A d \in Domains :
          LET row == db.rows[d] IN
          row.revoked /\ db'.rows[d].active /\ ~db'.rows[d].revoked =>
              db'.rows[d].modified > row.modified]_vars

\* "Quyền phủ quyết của analyst": while an indicator that is revoked exists, its
\* domains carry the veto.
VetoHeld ==
    CaughtUp =>
        \A i \in Indicators :
            Live(i) /\ Writable(truth[i]) /\ truth[i].revoked =>
                \A d \in truth[i].domains : db.rows[d].revoked

\* "detection=false nghĩa là indicator chỉ để phân tích. Chặn theo nó là làm trái ý
\* analyst đã ghi rõ": no row blocks for an indicator that is for analysis only.
AnalysisOnlyNeverBlocks ==
    CaughtUp =>
        \A d \in Domains, i \in Indicators :
            db.rows[d].active /\ db.rows[d].record = i /\ Live(i) => truth[i].detection
=============================================================================
