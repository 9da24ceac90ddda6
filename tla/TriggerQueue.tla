----------------------------- MODULE TriggerQueue -----------------------------
(***************************************************************************)
(* The "run now" requests of the dashboard (internal/store/trigger.go) and *)
(* the loop of a service that serves them between its scheduled runs       *)
(* (internal/app/trigger.go).  One kind of request: sync, policy or build. *)
(* The table is the queue; every SQL statement is a step.  EnqueueTrigger  *)
(* is three statements outside a transaction, run by any number of HTTP    *)
(* handlers at once; ClaimTrigger locks the row it takes.  Each service    *)
(* instance runs its jobs in one goroutine.                                *)
(***************************************************************************)
EXTENDS Naturals, Sequences, FiniteSets

CONSTANTS
    Targets,    \* what a request is about: a source, or all of them (NULL)
    Handlers,   \* HTTP handlers of admin-api
    Instances,  \* processes of the service, each with its loop
    MaxRows,    \* bound on the requests ever inserted
    Faults,     \* which of FaultKinds happen
    MaxFaults   \* bound on their number

\* A claim or a FinishTrigger that fails, a process that ends during a job (a
\* crash, or a shutdown: main does not wait for the loop).
FaultKinds == {"claim", "finish", "exit"}

ASSUME TriggerAssumption ==
    /\ Targets # {} /\ IsFiniteSet(Handlers)
    /\ Faults \subseteq FaultKinds
    /\ MaxRows \in Nat /\ MaxFaults \in Nat

VARIABLES
    rows,       \* admin_triggers, by id; a deleted row stays with status "purged"
    handler,    \* handler[h]: the step of EnqueueTrigger and its request
    loop,       \* loop[s]: what the loop of instance s is doing
    due,        \* due[s]: nextScheduled has passed
    ran,        \* history: how often the job of each row has run to its end
    faults

vars == <<rows, handler, loop, due, ran, faults>>

Polling == [pc |-> "polling", row |-> 0, ok |-> FALSE]
NoCall == [pc |-> "idle", target |-> CHOOSE t \in Targets : TRUE, id |-> 0]

Init ==
    /\ rows = <<>>
    /\ handler = [h \in Handlers |-> NoCall]
    /\ loop = [s \in Instances |-> Polling]
    /\ due \in [Instances -> BOOLEAN]       \* schedule.run_at_start
    /\ ran = <<>>
    /\ faults = 0

Unfinished == {id \in DOMAIN rows : rows[id].status \in {"pending", "running"}}
ActiveOn(target) == {id \in Unfinished : rows[id].target = target}
Pending == {id \in DOMAIN rows : rows[id].status = "pending"}
Finished == {id \in DOMAIN rows : rows[id].status \in {"done", "failed"}}
Oldest(ids) == CHOOSE id \in ids : \A other \in ids : id <= other

SetStatus(id, status) == rows' = [rows EXCEPT ![id].status = status]

-----------------------------------------------------------------------------
(* EnqueueTrigger.                                                         *)

\* First statement: rows that ended more than seven days ago go.
Request(h, target) ==
    /\ handler[h].pc = "idle"
    /\ \E old \in SUBSET Finished :
         rows' = [id \in DOMAIN rows |->
                    IF id \in old THEN [rows[id] EXCEPT !.status = "purged"] ELSE rows[id]]
    /\ handler' = [handler EXCEPT ![h] = [pc |-> "check", target |-> target, id |-> 0]]
    /\ UNCHANGED <<loop, due, ran, faults>>

\* Variant: nobody looks.
InsertAlways(h) ==
    /\ handler[h].pc = "check"
    /\ handler' = [handler EXCEPT ![h].pc = "insert"]
    /\ UNCHANGED <<rows, loop, due, ran, faults>>

\* Second: is a request for the same target waiting or running?
Check(h) ==
    /\ handler[h].pc = "check"
    /\ LET found == ActiveOn(handler[h].target)
       IN  handler' = [handler EXCEPT
              ![h] = IF found = {} THEN [@ EXCEPT !.pc = "insert"]
                     ELSE [@ EXCEPT !.pc = "idle", !.id = Oldest(found)]]
    /\ UNCHANGED <<rows, loop, due, ran, faults>>

Insert(h) ==
    /\ handler[h].pc = "insert"
    /\ Len(rows) < MaxRows
    /\ rows' = Append(rows, [target |-> handler[h].target, status |-> "pending"])
    /\ ran' = Append(ran, 0)
    /\ handler' = [handler EXCEPT ![h].pc = "idle", ![h].id = Len(rows) + 1]
    /\ UNCHANGED <<loop, due, faults>>

-----------------------------------------------------------------------------
(* RunLoopWithTrigger.                                                     *)

Fault(kind) ==
    /\ kind \in Faults
    /\ faults < MaxFaults
    /\ faults' = faults + 1

\* Time passes: the next scheduled run is due.
Tick(s) ==
    /\ ~due[s]
    /\ due' = [due EXCEPT ![s] = TRUE]
    /\ UNCHANGED <<rows, handler, loop, ran, faults>>

Run(s, id) == loop' = [loop EXCEPT ![s] = [pc |-> "working", row |-> id, ok |-> FALSE]]

\* Variants: the row is read but not marked; the schedule goes first.
ClaimUnmarked(s) ==
    /\ loop[s].pc = "polling"
    /\ Pending # {}
    /\ Run(s, Oldest(Pending))
    /\ UNCHANGED <<rows, handler, due, ran, faults>>

ClaimLast(s) ==
    /\ loop[s].pc = "polling"
    /\ ~due[s]
    /\ Pending # {}
    /\ SetStatus(Oldest(Pending), "running")
    /\ Run(s, Oldest(Pending))
    /\ UNCHANGED <<handler, due, ran, faults>>

\* consumeTrigger, ClaimTrigger: the oldest pending row is this instance's.
Claim(s) ==
    /\ loop[s].pc = "polling"
    /\ Pending # {}
    /\ SetStatus(Oldest(Pending), "running")
    /\ Run(s, Oldest(Pending))
    /\ UNCHANGED <<handler, due, ran, faults>>

\* Variant: the schedule waits for every request to end.
ScheduledAfterAll(s) ==
    /\ loop[s].pc = "polling"
    /\ due[s]
    /\ Unfinished = {}
    /\ Run(s, 0)
    /\ UNCHANGED <<rows, handler, due, ran, faults>>

\* Nothing to claim, or the claim failed: the schedule has its turn.
Scheduled(s) ==
    /\ loop[s].pc = "polling"
    /\ due[s]
    /\ \/ Pending = {} /\ UNCHANGED faults
       \/ Fault("claim")
    /\ Run(s, 0)
    /\ UNCHANGED <<rows, handler, due, ran>>

\* The job returns.  A scheduled one sets nextScheduled an interval after its
\* start, which a long job has already passed.
JobReturns(s) ==
    /\ loop[s].pc = "working"
    /\ LET id == loop[s].row IN
       IF id = 0
       THEN /\ loop' = [loop EXCEPT ![s] = Polling]
            /\ \E late \in BOOLEAN : due' = [due EXCEPT ![s] = late]
            /\ UNCHANGED ran
       ELSE /\ \E ok \in BOOLEAN :
                  loop' = [loop EXCEPT ![s] = [@ EXCEPT !.pc = "finishing", !.ok = ok]]
            /\ ran' = [ran EXCEPT ![id] = @ + 1]
            /\ UNCHANGED due
    /\ UNCHANGED <<rows, handler, faults>>

\* Variant: only a success is recorded.
FinishSuccess(s) ==
    /\ loop[s].pc = "finishing"
    /\ IF loop[s].ok THEN SetStatus(loop[s].row, "done") ELSE UNCHANGED rows
    /\ loop' = [loop EXCEPT ![s] = Polling]
    /\ UNCHANGED <<handler, due, ran, faults>>

\* FinishTrigger, with what the job returned.
Finish(s) ==
    /\ loop[s].pc = "finishing"
    /\ SetStatus(loop[s].row, IF loop[s].ok THEN "done" ELSE "failed")
    /\ loop' = [loop EXCEPT ![s] = Polling]
    /\ UNCHANGED <<handler, due, ran, faults>>

\* FinishTrigger fails: the error is logged and the loop goes on.
FailFinish(s) ==
    /\ loop[s].pc = "finishing"
    /\ Fault("finish")
    /\ loop' = [loop EXCEPT ![s] = Polling]
    /\ UNCHANGED <<rows, handler, due, ran>>

\* The process ends and is started again.
Exit(s) ==
    /\ loop[s].pc # "polling"
    /\ Fault("exit")
    /\ loop' = [loop EXCEPT ![s] = Polling]
    /\ \E atStart \in BOOLEAN : due' = [due EXCEPT ![s] = atStart]
    /\ UNCHANGED <<rows, handler, ran>>

Poll(s) == Claim(s) \/ Scheduled(s)
Serve(s) == Poll(s) \/ JobReturns(s) \/ Finish(s)
Enqueue(h) == (\E target \in Targets : Request(h, target)) \/ Check(h) \/ Insert(h)

Next ==
    \/ \E h \in Handlers : Enqueue(h)
    \/ \E s \in Instances : Serve(s) \/ FailFinish(s) \/ Tick(s) \/ Exit(s)

Spec == Init /\ [][Next]_vars

\* The loop's ticker fires, jobs return; nobody has to press a button.
FairSpec == Spec /\ \A s \in Instances : WF_vars(Serve(s))

-----------------------------------------------------------------------------
(* Properties.                                                             *)

Statuses == {"pending", "running", "done", "failed", "purged"}

TypeOK ==
    /\ rows \in Seq([target : Targets, status : Statuses]) /\ Len(rows) <= MaxRows
    /\ handler \in [Handlers -> [pc : {"idle", "check", "insert"}, target : Targets,
                                 id : 0..MaxRows]]
    /\ loop \in [Instances -> [pc : {"polling", "working", "finishing"}, row : 0..MaxRows,
                               ok : BOOLEAN]]
    /\ due \in [Instances -> BOOLEAN]
    /\ ran \in Seq(Nat) /\ Len(ran) = Len(rows)
    /\ faults \in 0..MaxFaults

\* A request is run at most once, by one instance ("an toàn nếu có nhiều hơn một
\* instance", ClaimTrigger), and what is reported as done or failed has run.
RunsAtMostOnce ==
    /\ \A id \in DOMAIN rows :
          /\ ran[id] <= 1
          /\ rows[id].status \in {"done", "failed"} => ran[id] = 1
          /\ rows[id].status = "pending" => ran[id] = 0
    /\ \A s, t \in Instances : s # t /\ loop[s].row # 0 => loop[s].row # loop[t].row

\* However the handlers race between looking and inserting, a target never has
\* more unfinished requests than there are handlers.
DuplicatesBounded ==
    \A target \in Targets : Cardinality(ActiveOn(target)) <= Cardinality(Handlers)

\* A request that waits is taken up, whatever fails and restarts ("kể cả khi
\* service đang khởi động lại giữa lúc có yêu cầu chờ", migration 0008).
WaitingIsTaken ==
    \A id \in 1..MaxRows : id \in Pending ~> id \notin Pending

\* A run that is due takes place, requests or not: they only go first.
ScheduleKept == \A s \in Instances : []<>(due[s] => loop[s].pc = "working" /\ loop[s].row = 0)

\* What is asked for ends, done or failed.  The code promises no more than this: a
\* process that ends during a job, and a FinishTrigger that fails, leave the
\* request running for good (see AlwaysEnds).
EveryRequestEnds ==
    [](faults = 0) => \A id \in 1..MaxRows : id \in Unfinished ~> id \notin Unfinished

\* The same with faults ("kể cả khi service đang khởi động lại giữa lúc có yêu
\* cầu chờ", migration 0008): it does not hold.
AlwaysEnds ==
    \A id \in 1..MaxRows : id \in Unfinished ~> id \notin Unfinished

\* "Không tạo yêu cầu trùng" (EnqueueTrigger).
NoDuplicates == \A target \in Targets : Cardinality(ActiveOn(target)) <= 1
=============================================================================
