-------------------------- MODULE TriggerQueueProofs --------------------------
(***************************************************************************)
(* For any number of admins, service instances, targets and requests, and  *)
(* whatever fails: a request runs at most once, by one instance, and a     *)
(* target has at most as many unfinished requests as there are handlers.   *)
(***************************************************************************)
EXTENDS TriggerQueue, SequenceTheorems, FiniteSetTheorems, WellFoundedInduction, TLAPS

-----------------------------------------------------------------------------
(* The inductive invariants tie the rows to the loops that work on them.   *)

\* What a row's status says of its runs.
RowsInv ==
    \A id \in DOMAIN rows :
        /\ ran[id] <= 1
        /\ rows[id].status \in {"done", "failed"} => ran[id] = 1
        /\ rows[id].status = "pending" => ran[id] = 0

\* A loop works on a row that is marked as running, and is alone with it.
LoopInv ==
    \A s \in Instances :
        /\ loop[s].pc = "polling" => loop[s].row = 0
        /\ loop[s].row # 0 => /\ loop[s].row \in DOMAIN rows
                              /\ rows[loop[s].row].status = "running"
                              /\ \A t \in Instances \ {s} : loop[t].row # loop[s].row
        /\ loop[s].pc = "working" /\ loop[s].row # 0 => ran[loop[s].row] = 0
        /\ loop[s].pc = "finishing" => loop[s].row # 0 /\ ran[loop[s].row] = 1

\* The handlers that have found no request for target and have not inserted one.
Inserting(target) ==
    {h \in Handlers : handler[h].pc = "insert" /\ handler[h].target = target}

\* A handler gets to its insert only while there is no request, so those that are
\* there and the requests there are come from different handlers.
PlacesInv ==
    \A target \in Targets :
        Cardinality(ActiveOn(target)) + Cardinality(Inserting(target))
            <= Cardinality(Handlers)

IInv == TypeOK /\ RowsInv /\ LoopInv

-----------------------------------------------------------------------------
(* Lemmas about the table.                                                 *)

RowType == [target : Targets, status : Statuses]

\* The ids are the positions of a sequence.
LEMMA RowsType ==
    ASSUME TypeOK
    PROVE  /\ Len(rows) \in Nat /\ Len(ran) = Len(rows)
           /\ DOMAIN rows = 1..Len(rows)
           /\ DOMAIN ran = 1..Len(rows)
           /\ rows \in [1..Len(rows) -> RowType]
           /\ ran \in [1..Len(rows) -> Nat]
<1>1. rows \in Seq(RowType) /\ ran \in Seq(Nat) /\ Len(ran) = Len(rows)
  BY DEF TypeOK, RowType
<1>2. QED
  BY <1>1, LenProperties

\* A function on the ids is a table as long as the one there is.
LEMMA TableType ==
    ASSUME TypeOK, NEW S, NEW table \in [1..Len(rows) -> S]
    PROVE  table \in Seq(S) /\ Len(table) = Len(rows) /\ DOMAIN table = DOMAIN rows
<1>1. Len(rows) \in Nat
  BY RowsType
<1>2. table \in Seq(S)
  BY <1>1
<1>3. DOMAIN table = 1..Len(rows) /\ DOMAIN table = 1..Len(table) /\ Len(table) \in Nat
  BY <1>2, LenProperties
<1>4. Len(table) = Len(rows)
  BY <1>1, <1>3
<1>5. QED
  BY <1>2, <1>3, <1>4, RowsType

\* The oldest of some ids is one of them.
LEMMA OldestIsOne ==
    ASSUME NEW ids \in SUBSET Nat, ids # {}
    PROVE  Oldest(ids) \in ids
<1>1. PICK x \in ids : \A y \in ids : ~ (<<y, x>> \in OpToRel(<, Nat))
  BY NatLessThanWellFounded, WFMin
<1>2. \A y \in ids : ~ (y < x)
  BY <1>1 DEF OpToRel
<1>3. \A y \in ids : x <= y
  BY <1>2
<1>4. QED
  BY <1>3 DEF Oldest

\* Marking a row changes the status of that row alone.
LEMMA SetStatusType ==
    ASSUME TypeOK, NEW id \in DOMAIN rows, NEW status \in Statuses, SetStatus(id, status)
    PROVE  /\ rows' \in Seq(RowType) /\ Len(rows') = Len(rows) /\ DOMAIN rows' = DOMAIN rows
           /\ rows'[id].status = status /\ rows'[id].target = rows[id].target
           /\ \A other \in DOMAIN rows \ {id} : rows'[other] = rows[other]
<1>1. rows' \in [1..Len(rows) -> RowType]
  BY RowsType DEF SetStatus, RowType
<1>2. QED
  BY <1>1, TableType, RowsType DEF SetStatus, RowType

\* So is the row of a loop that works, and the claimed one.
LEMMA ClaimedRow ==
    ASSUME TypeOK, Pending # {}
    PROVE  Oldest(Pending) \in DOMAIN rows /\ rows[Oldest(Pending)].status = "pending"
<1>1. Pending \in SUBSET Nat
  BY RowsType DEF Pending
<1>2. Oldest(Pending) \in Pending
  BY <1>1, OldestIsOne
<1>3. QED
  BY <1>2 DEF Pending

\* The first statement of EnqueueTrigger only touches finished rows.
LEMMA PurgeType ==
    ASSUME TypeOK, NEW h \in Handlers, NEW target \in Targets, Request(h, target)
    PROVE  /\ rows' \in Seq(RowType) /\ Len(rows') = Len(rows) /\ DOMAIN rows' = DOMAIN rows
           /\ \A id \in DOMAIN rows :
                 \/ rows'[id] = rows[id]
                 \/ /\ rows[id].status \in {"done", "failed"}
                    /\ rows'[id].status = "purged" /\ rows'[id].target = rows[id].target
<1>1. PICK old \in SUBSET Finished :
        rows' = [id \in DOMAIN rows |->
                   IF id \in old THEN [rows[id] EXCEPT !.status = "purged"] ELSE rows[id]]
  BY DEF Request
<1>2. rows' \in [1..Len(rows) -> RowType]
  BY <1>1, RowsType DEF RowType, Statuses
<1>3. QED
  BY <1>1, <1>2, TableType, RowsType DEF RowType, Finished

-----------------------------------------------------------------------------
(* Every step preserves IInv.                                              *)

CallType == [pc : {"idle", "check", "insert"}, target : Targets, id : 0..MaxRows]
LoopType == [pc : {"polling", "working", "finishing"}, row : 0..MaxRows, ok : BOOLEAN]

LEMMA InitIInv == Init => IInv
<1> SUFFICES ASSUME Init
             PROVE  IInv
  OBVIOUS
<1>1. rows = <<>> /\ ran = <<>> /\ rows \in Seq(RowType) /\ ran \in Seq(Nat)
      /\ Len(rows) = 0 /\ DOMAIN rows = {}
  BY EmptySeq DEF Init
<1>2. NoCall \in CallType
  BY TriggerAssumption DEF NoCall, CallType
<1>3. Polling \in LoopType
  BY TriggerAssumption DEF Polling, LoopType
<1>4. TypeOK
  BY <1>1, <1>2, <1>3, TriggerAssumption DEF Init, TypeOK, RowType, CallType, LoopType
<1>5. RowsInv /\ LoopInv
  BY <1>1 DEF Init, RowsInv, LoopInv, Polling
<1>6. QED
  BY <1>4, <1>5 DEF IInv

LEMMA RequestIInv ==
    ASSUME IInv, NEW h \in Handlers, NEW target \in Targets, Request(h, target)
    PROVE  IInv'
<1> USE DEF IInv
<1>1. TypeOK'
  <2>1. handler' \in [Handlers -> CallType]
    BY TriggerAssumption DEF Request, TypeOK, CallType
  <2>2. QED
    BY <2>1, PurgeType DEF Request, TypeOK, RowType, CallType
<1>2. RowsInv'
  BY PurgeType DEF Request, RowsInv
<1>3. LoopInv'
  <2>1. \A id \in DOMAIN rows : rows[id].status = "running" => rows'[id] = rows[id]
    BY PurgeType
  <2>2. QED
    BY <2>1, PurgeType DEF Request, LoopInv
<1>4. QED
  BY <1>1, <1>2, <1>3

LEMMA CheckIInv ==
    ASSUME IInv, NEW h \in Handlers, Check(h)
    PROVE  IInv'
<1> USE DEF IInv
<1>1. handler' \in [Handlers -> CallType]
  <2> DEFINE found == ActiveOn(handler[h].target)
  <2>1. found \in SUBSET (1..Len(rows)) /\ 1..Len(rows) \subseteq 0..MaxRows
    BY RowsType, TriggerAssumption DEF ActiveOn, Unfinished, TypeOK
  <2>2. found # {} => Oldest(found) \in 0..MaxRows
    <3>1. found \in SUBSET Nat
      BY <2>1
    <3>2. found # {} => Oldest(found) \in found
      BY <3>1, OldestIsOne
    <3>3. QED
      BY <2>1, <3>2
  <2>3. handler[h] \in CallType
    BY DEF TypeOK, CallType
  <2>4. (IF found = {} THEN [handler[h] EXCEPT !.pc = "insert"]
         ELSE [handler[h] EXCEPT !.pc = "idle", !.id = Oldest(found)]) \in CallType
    BY <2>2, <2>3 DEF CallType
  <2>5. QED
    BY <2>4 DEF Check, TypeOK, CallType
<1>2. TypeOK'
  BY <1>1 DEF Check, TypeOK, CallType
<1>3. RowsInv' /\ LoopInv'
  BY DEF Check, RowsInv, LoopInv
<1>4. QED
  BY <1>2, <1>3

LEMMA InsertIInv ==
    ASSUME IInv, NEW h \in Handlers, Insert(h)
    PROVE  IInv'
<1> USE DEF IInv
<1> DEFINE row == [target |-> handler[h].target, status |-> "pending"]
<1>1. row \in RowType
  BY DEF TypeOK, RowType, Statuses
<1>2. /\ rows' \in Seq(RowType) /\ ran' \in Seq(Nat)
      /\ Len(rows') = Len(rows) + 1 /\ Len(ran') = Len(rows')
      /\ DOMAIN rows' = 1..(Len(rows) + 1)
      /\ rows'[Len(rows) + 1] = row /\ ran'[Len(rows) + 1] = 0
      /\ \A id \in DOMAIN rows : rows'[id] = rows[id] /\ ran'[id] = ran[id]
  BY <1>1, RowsType DEF Insert, TypeOK, RowType
<1>3. TypeOK'
  <2>1. Len(rows) + 1 \in 0..MaxRows
    BY RowsType, TriggerAssumption DEF Insert
  <2>2. handler' \in [Handlers -> CallType]
    <3>1. handler[h] \in CallType /\ handler \in [Handlers -> CallType]
      BY DEF TypeOK, CallType
    <3>2. [handler[h] EXCEPT !.pc = "idle", !.id = Len(rows) + 1] \in CallType
      BY <2>1, <3>1 DEF CallType
    <3>3. handler' = [handler EXCEPT ![h] = [handler[h] EXCEPT !.pc = "idle",
                                                               !.id = Len(rows) + 1]]
      BY <3>1 DEF Insert
    <3>4. QED
      BY <3>1, <3>2, <3>3
  <2>3. QED
    BY <1>2, <2>1, <2>2 DEF Insert, TypeOK, RowType, CallType
<1>4. \A id \in DOMAIN rows' : id \in DOMAIN rows \/ id = Len(rows) + 1
  BY <1>2, RowsType
<1>5. RowsInv'
  <2>1. ASSUME NEW id \in DOMAIN rows'
        PROVE  /\ ran'[id] <= 1
               /\ rows'[id].status \in {"done", "failed"} => ran'[id] = 1
               /\ rows'[id].status = "pending" => ran'[id] = 0
    <3>1. CASE id \in DOMAIN rows
      BY <1>2, <3>1 DEF RowsInv
    <3>2. CASE id = Len(rows) + 1
      BY <1>2, <3>2
    <3>3. QED
      BY <1>4, <3>1, <3>2
  <2>2. QED
    BY <2>1 DEF RowsInv
<1>6. LoopInv'
  <2>1. \A id \in DOMAIN rows : id \in DOMAIN rows'
    BY <1>2, RowsType
  <2>2. loop' = loop
    BY DEF Insert
  <2>3. \A s \in Instances : loop[s].row # 0 => loop[s].row \in DOMAIN rows
    BY DEF LoopInv
  <2>4. \A s \in Instances : loop[s].row # 0 =>
            rows'[loop[s].row] = rows[loop[s].row] /\ ran'[loop[s].row] = ran[loop[s].row]
    BY <1>2, <2>3
  <2>5. QED
    BY <2>1, <2>2, <2>4 DEF LoopInv
<1>7. QED
  BY <1>3, <1>5, <1>6

LEMMA TickIInv ==
    ASSUME IInv, NEW s \in Instances, Tick(s)
    PROVE  IInv'
BY DEF IInv, Tick, TypeOK, RowsInv, LoopInv

LEMMA ClaimIInv ==
    ASSUME IInv, NEW s \in Instances, Claim(s)
    PROVE  IInv'
<1> USE DEF IInv
<1> DEFINE id == Oldest(Pending)
<1>1. id \in DOMAIN rows /\ rows[id].status = "pending"
  BY ClaimedRow DEF Claim
<1>2. /\ rows' \in Seq(RowType) /\ Len(rows') = Len(rows) /\ DOMAIN rows' = DOMAIN rows
      /\ rows'[id].status = "running"
      /\ \A other \in DOMAIN rows \ {id} : rows'[other] = rows[other]
  BY <1>1, SetStatusType DEF Claim, Statuses
<1>3. id \in 1..Len(rows) /\ id # 0 /\ id \in 0..MaxRows
  BY <1>1, RowsType, TriggerAssumption DEF TypeOK
<1>4. /\ loop' \in [Instances -> LoopType]
      /\ loop'[s] = [pc |-> "working", row |-> id, ok |-> FALSE]
      /\ \A t \in Instances \ {s} : loop'[t] = loop[t]
  BY <1>3 DEF Claim, Run, TypeOK, LoopType
<1>5. TypeOK'
  BY <1>2, <1>4 DEF Claim, TypeOK, RowType, LoopType
<1>6. RowsInv'
  BY <1>1, <1>2 DEF Claim, RowsInv
<1>7. LoopInv'
  <2>1. \A t \in Instances : loop[t].row # id
    BY <1>1, <1>3 DEF LoopInv
  <2>2. ran' = ran /\ ran[id] = 0
    BY <1>1 DEF Claim, RowsInv
  <2>3. ASSUME NEW t \in Instances, t # s
        PROVE  /\ loop'[t].pc = "polling" => loop'[t].row = 0
               /\ loop'[t].row # 0 =>
                     /\ loop'[t].row \in DOMAIN rows'
                     /\ rows'[loop'[t].row].status = "running"
                     /\ \A u \in Instances \ {t} : loop'[u].row # loop'[t].row
               /\ loop'[t].pc = "working" /\ loop'[t].row # 0 => ran'[loop'[t].row] = 0
               /\ loop'[t].pc = "finishing" => loop'[t].row # 0 /\ ran'[loop'[t].row] = 1
    <3>1. loop'[t] = loop[t] /\ loop[t].row # id
      BY <1>4, <2>1, <2>3
    <3>2. \A u \in Instances : loop'[u].row = loop[u].row \/ loop'[u].row = id
      BY <1>4
    <3>3. QED
      BY <1>2, <2>2, <3>1, <3>2 DEF LoopInv
  <2>4. \A t \in Instances \ {s} : loop'[t].row # id
    BY <1>4, <2>1
  <2>5. QED
    BY <1>1, <1>2, <1>3, <1>4, <2>2, <2>3, <2>4 DEF LoopInv
<1>8. QED
  BY <1>5, <1>6, <1>7

\* Scheduled, FailFinish, Exit and the end of a scheduled job: a loop lets go of
\* whatever it had, and the table stays.
LEMMA LetGoIInv ==
    ASSUME IInv, NEW s \in Instances, NEW state \in LoopType,
           state.row = 0, state.pc # "finishing",
           loop' = [loop EXCEPT ![s] = state],
           due' \in [Instances -> BOOLEAN], faults' \in 0..MaxFaults,
           UNCHANGED <<rows, handler, ran>>
    PROVE  IInv'
<1> USE DEF IInv
<1>1. loop' \in [Instances -> LoopType]
  BY DEF TypeOK, LoopType
<1>2. TypeOK'
  BY <1>1 DEF TypeOK, LoopType
<1>3. RowsInv'
  BY DEF RowsInv
<1>4. loop'[s] = state /\ \A t \in Instances \ {s} : loop'[t] = loop[t]
  BY DEF TypeOK
<1>5. LoopInv'
  BY <1>4 DEF LoopInv
<1>6. QED
  BY <1>2, <1>3, <1>5

LEMMA FaultType ==
    ASSUME TypeOK, NEW kind, Fault(kind)
    PROVE  faults' \in 0..MaxFaults
BY TriggerAssumption DEF Fault, TypeOK

LEMMA IdleLoops ==
    /\ Polling \in LoopType /\ Polling.row = 0 /\ Polling.pc # "finishing"
    /\ [pc |-> "working", row |-> 0, ok |-> FALSE] \in LoopType
BY TriggerAssumption DEF Polling, LoopType

LEMMA ScheduledIInv ==
    ASSUME IInv, NEW s \in Instances, Scheduled(s)
    PROVE  IInv'
<1>1. faults' \in 0..MaxFaults
  BY FaultType DEF Scheduled, IInv, TypeOK
<1>2. due' \in [Instances -> BOOLEAN] /\ UNCHANGED <<rows, handler, ran>>
  BY DEF Scheduled, IInv, TypeOK
<1>3. loop' = [loop EXCEPT ![s] = [pc |-> "working", row |-> 0, ok |-> FALSE]]
  BY DEF Scheduled, Run
<1>4. QED
  BY <1>1, <1>2, <1>3, IdleLoops, LetGoIInv

LEMMA FailFinishIInv ==
    ASSUME IInv, NEW s \in Instances, FailFinish(s)
    PROVE  IInv'
<1>1. faults' \in 0..MaxFaults
  BY FaultType DEF FailFinish, IInv
<1>2. due' \in [Instances -> BOOLEAN] /\ UNCHANGED <<rows, handler, ran>>
  BY DEF FailFinish, IInv, TypeOK
<1>3. loop' = [loop EXCEPT ![s] = Polling]
  BY DEF FailFinish
<1>4. QED
  BY <1>1, <1>2, <1>3, IdleLoops, LetGoIInv

LEMMA ExitIInv ==
    ASSUME IInv, NEW s \in Instances, Exit(s)
    PROVE  IInv'
<1>1. faults' \in 0..MaxFaults
  BY FaultType DEF Exit, IInv
<1>2. due' \in [Instances -> BOOLEAN] /\ UNCHANGED <<rows, handler, ran>>
  BY DEF Exit, IInv, TypeOK
<1>3. loop' = [loop EXCEPT ![s] = Polling]
  BY DEF Exit
<1>4. QED
  BY <1>1, <1>2, <1>3, IdleLoops, LetGoIInv

LEMMA JobReturnsIInv ==
    ASSUME IInv, NEW s \in Instances, JobReturns(s)
    PROVE  IInv'
<1> USE DEF IInv
<1>1. CASE loop[s].row = 0
  <2>1. due' \in [Instances -> BOOLEAN] /\ UNCHANGED <<rows, handler, ran>>
    BY <1>1 DEF JobReturns, TypeOK
  <2>2. loop' = [loop EXCEPT ![s] = Polling] /\ faults' \in 0..MaxFaults
    BY <1>1 DEF JobReturns, TypeOK
  <2>3. QED
    BY <2>1, <2>2, IdleLoops, LetGoIInv
<1>2. CASE loop[s].row # 0
  <2> DEFINE id == loop[s].row
  <2>1. id \in DOMAIN rows /\ rows[id].status = "running" /\ ran[id] = 0
    BY <1>2 DEF JobReturns, LoopInv
  <2>2. PICK ok \in BOOLEAN :
          loop' = [loop EXCEPT ![s] = [loop[s] EXCEPT !.pc = "finishing", !.ok = ok]]
    BY <1>2 DEF JobReturns
  <2>3. /\ loop' \in [Instances -> LoopType]
        /\ loop'[s].pc = "finishing" /\ loop'[s].row = id
        /\ \A t \in Instances \ {s} : loop'[t] = loop[t]
    BY <2>2 DEF TypeOK, LoopType
  <2>4. ran' = [ran EXCEPT ![id] = ran[id] + 1] /\ UNCHANGED <<rows, handler, due, faults>>
    BY <1>2 DEF JobReturns
  <2>5. ran' \in [1..Len(rows) -> Nat]
    BY <2>1, <2>4, RowsType
  <2>6. ran' \in Seq(Nat) /\ Len(ran') = Len(rows)
    BY <2>5, TableType
  <2>7. ran'[id] = 1 /\ \A other \in DOMAIN rows \ {id} : ran'[other] = ran[other]
    BY <2>1, <2>4, RowsType
  <2>8. TypeOK'
    BY <2>3, <2>4, <2>6 DEF TypeOK, RowType, LoopType
  <2>9. RowsInv'
    BY <2>1, <2>4, <2>7 DEF RowsInv
  <2>10. LoopInv'
    <3>1. ASSUME NEW t \in Instances, t # s
          PROVE  /\ loop'[t].pc = "polling" => loop'[t].row = 0
                 /\ loop'[t].row # 0 =>
                       /\ loop'[t].row \in DOMAIN rows'
                       /\ rows'[loop'[t].row].status = "running"
                       /\ \A u \in Instances \ {t} : loop'[u].row # loop'[t].row
                 /\ loop'[t].pc = "working" /\ loop'[t].row # 0 => ran'[loop'[t].row] = 0
                 /\ loop'[t].pc = "finishing" => loop'[t].row # 0 /\ ran'[loop'[t].row] = 1
      <4>1. loop'[t] = loop[t] /\ \A u \in Instances : loop'[u].row = loop[u].row
        BY <2>3, <3>1
      <4>2. loop[t].row # id
        BY <1>2, <3>1 DEF LoopInv
      <4>3. loop[t].row # 0 => ran'[loop[t].row] = ran[loop[t].row]
        BY <2>7, <4>2 DEF LoopInv
      <4>4. QED
        BY <2>4, <4>1, <4>3 DEF LoopInv
    <3>2. \A u \in Instances \ {s} : loop'[u].row # id
      BY <1>2, <2>3 DEF LoopInv
    <3>3. QED
      BY <1>2, <2>1, <2>3, <2>4, <2>7, <3>1, <3>2 DEF LoopInv
  <2>11. QED
    BY <2>8, <2>9, <2>10
<1>3. QED
  BY <1>1, <1>2

LEMMA FinishIInv ==
    ASSUME IInv, NEW s \in Instances, Finish(s)
    PROVE  IInv'
<1> USE DEF IInv
<1> DEFINE id == loop[s].row
           status == IF loop[s].ok THEN "done" ELSE "failed"
<1>1. id # 0 /\ id \in DOMAIN rows /\ ran[id] = 1
  BY DEF Finish, LoopInv
<1>2. /\ rows' \in Seq(RowType) /\ Len(rows') = Len(rows) /\ DOMAIN rows' = DOMAIN rows
      /\ rows'[id].status = status
      /\ \A other \in DOMAIN rows \ {id} : rows'[other] = rows[other]
  BY <1>1, SetStatusType DEF Finish, Statuses
<1>3. /\ loop' \in [Instances -> LoopType] /\ loop'[s] = Polling
      /\ \A t \in Instances \ {s} : loop'[t] = loop[t]
  BY IdleLoops DEF Finish, TypeOK, LoopType
<1>4. UNCHANGED <<handler, due, ran, faults>>
  BY DEF Finish
<1>5. TypeOK'
  BY <1>2, <1>3, <1>4 DEF TypeOK, RowType, LoopType
<1>6. RowsInv'
  BY <1>1, <1>2, <1>4 DEF RowsInv
<1>7. LoopInv'
  <2>1. ASSUME NEW t \in Instances, t # s
        PROVE  /\ loop'[t].pc = "polling" => loop'[t].row = 0
               /\ loop'[t].row # 0 =>
                     /\ loop'[t].row \in DOMAIN rows'
                     /\ rows'[loop'[t].row].status = "running"
                     /\ \A u \in Instances \ {t} : loop'[u].row # loop'[t].row
               /\ loop'[t].pc = "working" /\ loop'[t].row # 0 => ran'[loop'[t].row] = 0
               /\ loop'[t].pc = "finishing" => loop'[t].row # 0 /\ ran'[loop'[t].row] = 1
    <3>1. loop'[t] = loop[t] /\ \A u \in Instances : loop'[u].row \in {loop[u].row, 0}
      BY <1>3, <2>1 DEF Polling
    <3>2. loop[t].row # id
      BY <1>1, <2>1 DEF LoopInv
    <3>3. QED
      BY <1>2, <1>4, <3>1, <3>2 DEF LoopInv
  <2>2. loop'[s].pc = "polling" /\ loop'[s].row = 0
    BY <1>3 DEF Polling
  <2>3. QED
    BY <2>1, <2>2 DEF LoopInv
<1>8. QED
  BY <1>5, <1>6, <1>7

LEMMA NextIInv == IInv /\ [Next]_vars => IInv'
<1> SUFFICES ASSUME IInv, [Next]_vars
             PROVE  IInv'
  OBVIOUS
<1>1. CASE \E h \in Handlers : Enqueue(h)
  BY <1>1, RequestIInv, CheckIInv, InsertIInv DEF Enqueue
<1>2. CASE \E s \in Instances : Serve(s)
  BY <1>2, ClaimIInv, ScheduledIInv, JobReturnsIInv, FinishIInv DEF Serve, Poll
<1>3. CASE \E s \in Instances : FailFinish(s) \/ Tick(s) \/ Exit(s)
  BY <1>3, FailFinishIInv, TickIInv, ExitIInv
<1>4. CASE UNCHANGED vars
  BY <1>4 DEF vars, IInv, TypeOK, RowsInv, LoopInv
<1>5. QED
  BY <1>1, <1>2, <1>3, <1>4 DEF Next

\* Every variable keeps its type: statuses are those of the table's enumeration,
\* loops and handlers only name rows that may exist.
THEOREM TypeCorrect == Spec => []TypeOK
<1>1. IInv => TypeOK
  BY DEF IInv
<1>2. QED
  BY <1>1, InitIInv, NextIInv, PTL DEF Spec

\* SKIP LOCKED, with the status set in the same statement, is enough for any
\* number of instances: no request is run twice or by two of them, none is
\* reported as done or failed without having run.
THEOREM RequestsRunAtMostOnce == Spec => []RunsAtMostOnce
<1>1. IInv => RunsAtMostOnce
  BY DEF IInv, RowsInv, LoopInv, RunsAtMostOnce
<1>2. QED
  BY <1>1, InitIInv, NextIInv, PTL DEF Spec

-----------------------------------------------------------------------------
(* The number of duplicates.                                               *)

LEMMA FinitePlaces ==
    ASSUME TypeOK, NEW target
    PROVE  /\ IsFiniteSet(ActiveOn(target)) /\ Cardinality(ActiveOn(target)) \in Nat
           /\ IsFiniteSet(Inserting(target)) /\ Cardinality(Inserting(target)) \in Nat
           /\ Cardinality(Inserting(target)) <= Cardinality(Handlers)
           /\ Cardinality(Handlers) \in Nat
<1>1. IsFiniteSet(1..Len(rows))
  BY RowsType, FS_Interval
<1>2. ActiveOn(target) \in SUBSET (1..Len(rows))
  BY RowsType DEF ActiveOn, Unfinished
<1>3. Inserting(target) \in SUBSET Handlers
  BY DEF Inserting
<1>4. IsFiniteSet(ActiveOn(target)) /\ IsFiniteSet(Inserting(target))
      /\ Cardinality(Inserting(target)) <= Cardinality(Handlers)
  BY <1>1, <1>2, <1>3, TriggerAssumption, FS_Subset
<1>5. QED
  BY <1>4, TriggerAssumption, FS_CardinalityType

\* Where nothing is added, the bound stays.
LEMMA NotMore ==
    ASSUME IInv, IInv', PlacesInv,
           \A target \in Targets : /\ ActiveOn(target)' \subseteq ActiveOn(target)
                                   /\ Inserting(target)' \subseteq Inserting(target)
    PROVE  PlacesInv'
<1> SUFFICES ASSUME NEW target \in Targets
             PROVE  Cardinality(ActiveOn(target)') + Cardinality(Inserting(target)')
                        <= Cardinality(Handlers)
  BY DEF PlacesInv
<1> DEFINE before == ActiveOn(target)
           after == ActiveOn(target)'
           waiting == Inserting(target)
           left == Inserting(target)'
<1>1. /\ IsFiniteSet(before) /\ IsFiniteSet(waiting)
      /\ Cardinality(before) \in Nat /\ Cardinality(waiting) \in Nat
      /\ Cardinality(Handlers) \in Nat
  BY FinitePlaces DEF IInv
<1>2. after \in SUBSET before /\ left \in SUBSET waiting
  OBVIOUS
<1>3. Cardinality(before) + Cardinality(waiting) <= Cardinality(Handlers)
  BY DEF PlacesInv
<1> HIDE DEF before, after, waiting, left
<1>4. /\ IsFiniteSet(after) /\ Cardinality(after) <= Cardinality(before)
      /\ IsFiniteSet(left) /\ Cardinality(left) <= Cardinality(waiting)
  BY <1>1, <1>2, FS_Subset
<1>5. Cardinality(after) \in Nat /\ Cardinality(left) \in Nat
  BY <1>4, FS_CardinalityType
<1>6. Cardinality(after) + Cardinality(left) <= Cardinality(Handlers)
  BY <1>1, <1>3, <1>4, <1>5
<1>7. QED
  BY <1>6 DEF after, left

LEMMA RequestPlaces ==
    ASSUME IInv, IInv', PlacesInv, NEW h \in Handlers, NEW t \in Targets, Request(h, t)
    PROVE  PlacesInv'
<1>1. \A id \in DOMAIN rows' : id \in DOMAIN rows
                               /\ (rows'[id].status \in {"pending", "running"} =>
                                     rows'[id] = rows[id])
  BY PurgeType DEF IInv
<1>2. \A target \in Targets : ActiveOn(target)' \subseteq ActiveOn(target)
  BY <1>1 DEF ActiveOn, Unfinished
<1>3. \A target \in Targets : Inserting(target)' \subseteq Inserting(target)
  BY DEF Request, Inserting, IInv, TypeOK
<1>4. QED
  BY <1>2, <1>3, NotMore

LEMMA CheckPlaces ==
    ASSUME IInv, IInv', PlacesInv, NEW h \in Handlers, Check(h)
    PROVE  PlacesInv'
<1> DEFINE t == handler[h].target
<1>1. \A target : ActiveOn(target)' = ActiveOn(target)
  BY DEF Check, ActiveOn, Unfinished
<1>2. /\ \A g \in Handlers \ {h} : handler'[g] = handler[g]
      /\ handler'[h].target = t
      /\ handler'[h].pc = "insert" => ActiveOn(t) = {}
  BY DEF Check, IInv, TypeOK
<1>3. CASE ActiveOn(t) # {}
  <2>1. \A target \in Targets : Inserting(target)' \subseteq Inserting(target)
    BY <1>2, <1>3 DEF Inserting
  <2>2. QED
    BY <1>1, <2>1, NotMore
<1>4. CASE ActiveOn(t) = {}
  <2>1. ASSUME NEW target \in Targets
        PROVE  Cardinality(ActiveOn(target)') + Cardinality(Inserting(target)')
                   <= Cardinality(Handlers)
    <3>1. CASE target = t
      <4>1. Cardinality(ActiveOn(target)') = 0
        BY <1>1, <1>4, <3>1, FS_EmptySet
      <4>2. Cardinality(Inserting(target)') <= Cardinality(Handlers)
        <5>1. Inserting(target)' \in SUBSET Handlers
          BY DEF Inserting
        <5>2. QED
          BY <5>1, TriggerAssumption, FS_Subset
      <4>3. Cardinality(Inserting(target)') \in Nat
        <5>1. Inserting(target)' \in SUBSET Handlers
          BY DEF Inserting
        <5>2. IsFiniteSet(Inserting(target)')
          BY <5>1, TriggerAssumption, FS_Subset
        <5>3. QED
          BY <5>2, FS_CardinalityType
      <4>4. QED
        BY <4>1, <4>2, <4>3
    <3>2. CASE target # t
      <4>1. Inserting(target)' = Inserting(target)
        BY <1>2, <3>2 DEF Inserting, Check
      <4>2. QED
        BY <1>1, <4>1 DEF PlacesInv
    <3>3. QED
      BY <3>1, <3>2
  <2>2. QED
    BY <2>1 DEF PlacesInv
<1>5. QED
  BY <1>3, <1>4

LEMMA InsertPlaces ==
    ASSUME IInv, IInv', PlacesInv, NEW h \in Handlers, Insert(h)
    PROVE  PlacesInv'
<1> DEFINE t == handler[h].target
           new == Len(rows) + 1
<1>1. /\ DOMAIN rows' = 1..new /\ DOMAIN rows = 1..Len(rows) /\ Len(rows) \in Nat
      /\ rows'[new].target = t /\ rows'[new].status = "pending"
      /\ \A id \in DOMAIN rows : rows'[id] = rows[id]
  BY RowsType DEF Insert, IInv, TypeOK
<1>2. /\ \A g \in Handlers \ {h} : handler'[g] = handler[g]
      /\ handler'[h].pc = "idle" /\ handler[h].pc = "insert"
  BY DEF Insert, IInv, TypeOK
<1>3. new \notin DOMAIN rows /\ DOMAIN rows' = DOMAIN rows \cup {new}
  BY <1>1
<1>4. ASSUME NEW target \in Targets
      PROVE  Cardinality(ActiveOn(target)') + Cardinality(Inserting(target)')
                 <= Cardinality(Handlers)
  <2>1. CASE target = t
    <3>1. ActiveOn(target)' = ActiveOn(target) \cup {new} /\ new \notin ActiveOn(target)
      BY <1>1, <1>3, <2>1 DEF ActiveOn, Unfinished
    <3>2. Inserting(target)' = Inserting(target) \ {h} /\ h \in Inserting(target)
      BY <1>2, <2>1 DEF Inserting
    <3>3. Cardinality(ActiveOn(target)') = Cardinality(ActiveOn(target)) + 1
      BY <3>1, FinitePlaces, FS_AddElement DEF IInv
    <3>4. Cardinality(Inserting(target)') = Cardinality(Inserting(target)) - 1
      BY <3>2, FinitePlaces, FS_RemoveElement DEF IInv
    <3>5. Cardinality(ActiveOn(target)) \in Nat /\ Cardinality(Inserting(target)) \in Nat
          /\ Cardinality(Handlers) \in Nat
      BY FinitePlaces DEF IInv
    <3>6. QED
      BY <3>3, <3>4, <3>5 DEF PlacesInv
  <2>2. CASE target # t
    <3>1. ActiveOn(target)' = ActiveOn(target)
      BY <1>1, <1>3, <2>2 DEF ActiveOn, Unfinished
    <3>2. Inserting(target)' = Inserting(target)
      BY <1>2, <2>2 DEF Inserting
    <3>3. QED
      BY <3>1, <3>2 DEF PlacesInv
  <2>3. QED
    BY <2>1, <2>2
<1>5. QED
  BY <1>4 DEF PlacesInv

\* What the loops do to the table: a claim leaves a request unfinished, an end
\* does not add one.
LEMMA LoopPlaces ==
    ASSUME IInv, IInv', PlacesInv, NEW s \in Instances,
           Serve(s) \/ FailFinish(s) \/ Tick(s) \/ Exit(s)
    PROVE  PlacesInv'
<1>1. \A target \in Targets : Inserting(target)' \subseteq Inserting(target)
  BY DEF Serve, Poll, Claim, Scheduled, JobReturns, Finish, FailFinish, Tick, Exit, Inserting
<1>2. CASE Claim(s)
  <2>1. DOMAIN rows' = DOMAIN rows
        /\ \A id \in DOMAIN rows : /\ rows'[id].target = rows[id].target
                                   /\ rows[id].status # rows'[id].status =>
                                         rows[id].status = "pending"
    BY <1>2, ClaimedRow, SetStatusType DEF Claim, IInv, Statuses
  <2>2. \A target \in Targets : ActiveOn(target)' \subseteq ActiveOn(target)
    BY <2>1 DEF ActiveOn, Unfinished
  <2>3. QED
    BY <1>1, <2>2, NotMore
<1>3. CASE Finish(s)
  <2> DEFINE id == loop[s].row
             status == IF loop[s].ok THEN "done" ELSE "failed"
  <2>1. id \in DOMAIN rows /\ status \in Statuses /\ SetStatus(id, status)
    BY <1>3 DEF Finish, IInv, LoopInv, Statuses
  <2>2. DOMAIN rows' = DOMAIN rows /\ rows'[id].status \in {"done", "failed"}
        /\ \A other \in DOMAIN rows \ {id} : rows'[other] = rows[other]
    BY <2>1, SetStatusType DEF IInv
  <2>3. \A target \in Targets : ActiveOn(target)' \subseteq ActiveOn(target)
    BY <2>2 DEF ActiveOn, Unfinished
  <2>4. QED
    BY <1>1, <2>3, NotMore
<1>4. CASE Scheduled(s) \/ JobReturns(s) \/ FailFinish(s) \/ Tick(s) \/ Exit(s)
  <2>1. \A target \in Targets : ActiveOn(target)' \subseteq ActiveOn(target)
    BY <1>4 DEF Scheduled, JobReturns, FailFinish, Tick, Exit, ActiveOn, Unfinished
  <2>2. QED
    BY <1>1, <2>1, NotMore
<1>5. QED
  BY <1>2, <1>3, <1>4 DEF Serve, Poll

LEMMA InitPlaces == Init => PlacesInv
<1> SUFFICES ASSUME Init, NEW target \in Targets
             PROVE  Cardinality(ActiveOn(target)) + Cardinality(Inserting(target))
                        <= Cardinality(Handlers)
  BY DEF PlacesInv
<1>1. ActiveOn(target) = {} /\ Inserting(target) = {}
  BY DEF Init, ActiveOn, Unfinished, Inserting, NoCall
<1>2. Cardinality(Handlers) \in Nat
  BY TriggerAssumption, FS_CardinalityType
<1>3. QED
  BY <1>1, <1>2, FS_EmptySet

LEMMA NextPlaces == IInv /\ IInv' /\ PlacesInv /\ [Next]_vars => PlacesInv'
<1> SUFFICES ASSUME IInv, IInv', PlacesInv, [Next]_vars
             PROVE  PlacesInv'
  OBVIOUS
<1>1. CASE \E h \in Handlers : Enqueue(h)
  BY <1>1, RequestPlaces, CheckPlaces, InsertPlaces DEF Enqueue
<1>2. CASE \E s \in Instances : Serve(s) \/ FailFinish(s) \/ Tick(s) \/ Exit(s)
  BY <1>2, LoopPlaces
<1>3. CASE UNCHANGED vars
  <2>1. \A target \in Targets : /\ ActiveOn(target)' \subseteq ActiveOn(target)
                                /\ Inserting(target)' \subseteq Inserting(target)
    BY <1>3 DEF vars, ActiveOn, Unfinished, Inserting
  <2>2. QED
    BY <2>1, NotMore
<1>4. QED
  BY <1>1, <1>2, <1>3 DEF Next

\* "Không tạo yêu cầu trùng" in the form that holds: racing handlers leave at most
\* one request each on a target, however many requests they make.
THEOREM DuplicatesAreBounded == Spec => []DuplicatesBounded
<1>1. Init => IInv /\ PlacesInv
  BY InitIInv, InitPlaces
<1>2. IInv /\ PlacesInv /\ [Next]_vars => IInv' /\ PlacesInv'
  BY NextIInv, NextPlaces
<1>3. IInv /\ PlacesInv => DuplicatesBounded
  <2> SUFFICES ASSUME IInv, PlacesInv, NEW target \in Targets
               PROVE  Cardinality(ActiveOn(target)) <= Cardinality(Handlers)
    BY DEF DuplicatesBounded
  <2>1. /\ Cardinality(ActiveOn(target)) \in Nat /\ Cardinality(Inserting(target)) \in Nat
        /\ Cardinality(Handlers) \in Nat
    BY FinitePlaces DEF IInv
  <2>2. QED
    BY <2>1 DEF PlacesInv
<1>4. QED
  BY <1>1, <1>2, <1>3, PTL DEF Spec
=============================================================================
