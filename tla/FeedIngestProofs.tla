--------------------------- MODULE FeedIngestProofs ---------------------------
(***************************************************************************)
(* What the imports of a source promise, for any domains, durations and    *)
(* faults.  The argument: a list that is about to be applied is whole, so  *)
(* it is the one that the server listed (WholeInv), and the switching off  *)
(* of orphans leaves active what some source lists.  With one instance and *)
(* no import that ends between its two transactions, the list an import    *)
(* compares with is also the one that was applied last (BaselineInv).      *)
(* The last part is about an import and sync-consumer at once (L1Merge).   *)
(***************************************************************************)
EXTENDS FeedIngest, L1Merge, FiniteSetTheorems, TLAPS

Import == [pc : {"idle", "fetch", "read", "apply", "applied"}, prev : Feed,
           attempt : 0..MaxAttempts, started : 0..Patience, got : Feed,
           whole : BOOLEAN, listed : SUBSET Domains]

WholeInv ==
    \A s \in Instances :
        /\ import[s].pc \in {"read", "apply", "applied"} /\ import[s].whole =>
              import[s].got.rules = import[s].listed
        /\ import[s].pc \in {"apply", "applied"} =>
              import[s].whole /\ Valid(import[s].got, import[s].prev)
        /\ import[s].pc = "fetch" => ~import[s].whole

Inv == TypeOK /\ WholeInv

-----------------------------------------------------------------------------
(* Types.                                                                  *)

LEMMA MinOfTwo ==
    ASSUME NEW m \in Nat, NEW n \in Nat
    PROVE  /\ Min({m, n}) \in {m, n}
           /\ Min({m, n}) <= m /\ Min({m, n}) <= n
  <1>1. \E x \in {m, n} : \A y \in {m, n} : x =< y
    <2>1. CASE m <= n  BY <2>1
    <2>2. CASE ~(m <= n)  BY <2>2
    <2> QED  BY <2>1, <2>2
  <1> DEFINE P(x) == x \in {m, n} /\ \A y \in {m, n} : x =< y
  <1>2. Min({m, n}) \in {m, n} /\ \A y \in {m, n} : Min({m, n}) =< y
    BY <1>1 DEF Min
  <1> QED  BY <1>2

LEMMA Bounds ==
    /\ Oldest \in Nat /\ Oldest > 0
    /\ Patience \in Nat /\ Grace \in Nat /\ Patience < Oldest
    /\ MaxAttempts \in Nat /\ MaxAttempts > 0 /\ MaxChanges \in Nat /\ MaxFaults \in Nat
    /\ Elsewhere \subseteq Domains
  BY IngestAssumption DEF Oldest

LEMMA OlderType ==
    ASSUME NEW t \in 0..Oldest
    PROVE  Older(t) \in 0..Oldest /\ Older(t) > 0
  <1>1. t + 1 \in Nat /\ Oldest \in Nat /\ Oldest > 0  BY Bounds
  <1>2. Min({t + 1, Oldest}) \in {t + 1, Oldest} /\ Min({t + 1, Oldest}) <= Oldest
    BY <1>1, MinOfTwo
  <1> QED  BY <1>1, <1>2 DEF Older

\* What a server may have, and what may be read of it.
LEMMA PublishedType == \A f \in Published : f \in Feed
  <1> SUFFICES ASSUME NEW rules \in SUBSET Domains,
                      NEW f \in [rules : {rules}, lines : Lines(rules), wording : 1..Wordings]
               PROVE  f \in Feed
    BY DEF Published
  <1>1. Cardinality(rules) \in Nat
    BY FS_Subset, FS_CardinalityType, IngestAssumption
  <1>2. Lines(rules) \subseteq Nat  BY <1>1, IngestAssumption DEF Lines
  <1>3. 1..Wordings \subseteq 0..Wordings  BY IngestAssumption
  <1> QED  BY <1>2, <1>3 DEF Feed

LEMMA PartType == ASSUME NEW f \in Feed, NEW part \in Part(f) PROVE part \in Feed
  <1>1. f.lines \in Nat /\ f.rules \subseteq Domains  BY DEF Feed
  <1>2. f.wording \in 0..Wordings  BY DEF Feed
  <1> QED  BY <1>1, <1>2 DEF Feed, Part

LEMMA NoFeedType == NoFeed \in Feed
  BY IngestAssumption DEF NoFeed, Feed

LEMMA NoImportType == NoImport \in Import
  BY Bounds, NoFeedType DEF NoImport, Import

\* What a step does to the import it belongs to.
LEMMA GotoType ==
    ASSUME TypeOK, NEW s \in Instances, NEW i \in Import, Goto(s, i)
    PROVE  /\ import' \in [Instances -> Import]
           /\ import'[s] = i
           /\ \A t \in Instances : t # s => import'[t] = import[t]
  BY DEF Goto, TypeOK, Import

LEMMA FoundType ==
    ASSUME TypeOK, NEW list, Found(list)
    PROVE  sinceListed' \in [Domains -> 0..Oldest]
  BY Bounds DEF Found, TypeOK

LEMMA FaultType ==
    ASSUME TypeOK, NEW kind, Fault(kind)
    PROVE  faults' \in 0..MaxFaults
  BY Bounds DEF Fault, TypeOK

\* applyMerge: what it makes of the rows.
LEMMA Merged ==
    ASSUME TypeOK, NEW i \in Import, Merge(i)
    PROVE  /\ rows' \in [Domains -> {None, "active", "inactive"}]
           /\ age' \in [Domains -> 0..Oldest]
           /\ active' \subseteq Domains /\ evidence' \subseteq Domains
           /\ \A d \in i.got.rules : rows'[d] = "active" /\ d \in evidence'
           /\ \A d \in Domains \ i.got.rules : rows'[d] = "active" => rows[d] = "active"
           /\ \A d \in Domains \ i.got.rules : rows'[d] # rows[d] => rows[d] = "active"
           /\ active' = {d \in active \cup i.got.rules : rows'[d] = "active" \/ d \in Elsewhere}
  <1> DEFINE seen == [d \in Domains |-> IF d \in i.got.rules THEN Min({age[d], i.started}) ELSE age[d]]
             kept == [d \in Domains |->
                        IF d \in i.got.rules THEN "active"
                        ELSE IF rows[d] = "active" /\ seen[d] > Grace + i.started THEN "inactive"
                        ELSE rows[d]]
  <1>1. /\ age' = seen /\ rows' = kept
        /\ active' = {d \in active \cup i.got.rules : kept[d] = "active" \/ d \in Elsewhere}
        /\ evidence' = evidence \cup i.got.rules
    BY DEF Merge
  <1>2. i.got.rules \subseteq Domains /\ i.started \in 0..Patience  BY DEF Import, Feed
  <1>3. seen \in [Domains -> 0..Oldest]
    <2>1. ASSUME NEW d \in Domains PROVE Min({age[d], i.started}) \in 0..Oldest
      <3>1. age[d] \in Nat /\ age[d] <= Oldest /\ i.started \in Nat
        BY <1>2, Bounds DEF TypeOK
      <3>2. Min({age[d], i.started}) \in {age[d], i.started} /\ Min({age[d], i.started}) <= age[d]
        BY <3>1, MinOfTwo
      <3> QED  BY <3>1, <3>2, Bounds
    <2>2. \A d \in Domains : age[d] \in 0..Oldest  BY DEF TypeOK
    <2> QED  BY <2>1, <2>2
  <1>4. kept \in [Domains -> {None, "active", "inactive"}]  BY DEF TypeOK
  <1>5. \A d \in i.got.rules : kept[d] = "active"  BY <1>2
  <1>6. \A d \in Domains \ i.got.rules :
            /\ kept[d] = "active" => rows[d] = "active"
            /\ kept[d] # rows[d] => rows[d] = "active"
    OBVIOUS
  <1> HIDE DEF seen, kept
  <1> QED  BY <1>1, <1>2, <1>3, <1>4, <1>5, <1>6 DEF TypeOK

-----------------------------------------------------------------------------
(* The steps.                                                              *)

\* The invariants of an import by itself.
Whole(i) ==
    /\ i.pc \in {"read", "apply", "applied"} /\ i.whole => i.got.rules = i.listed
    /\ i.pc \in {"apply", "applied"} => i.whole /\ Valid(i.got, i.prev)
    /\ i.pc = "fetch" => ~i.whole

\* An import goes on, and nothing else concerns the invariants.
LEMMA GoesOn ==
    ASSUME Inv, NEW s \in Instances, NEW i \in Import, Goto(s, i), Whole(i),
           feed' = feed, changes' = changes, faults' \in 0..MaxFaults,
           rows' \in [Domains -> {None, "active", "inactive"}],
           age' \in [Domains -> 0..Oldest],
           active' \subseteq Domains, evidence' \subseteq Domains, last' \in Feed,
           sinceListed' \in [Domains -> 0..Oldest]
    PROVE  Inv'
  <1>1. /\ import' \in [Instances -> Import] /\ import'[s] = i
        /\ \A t \in Instances : t # s => import'[t] = import[t]
    BY GotoType DEF Inv
  <1>2. TypeOK'  BY <1>1 DEF Inv, TypeOK, Import
  <1>3. WholeInv'
    <2> SUFFICES ASSUME NEW t \in Instances
                 PROVE  /\ import'[t].pc \in {"read", "apply", "applied"} /\ import'[t].whole =>
                              import'[t].got.rules = import'[t].listed
                        /\ import'[t].pc \in {"apply", "applied"} =>
                              import'[t].whole /\ Valid(import'[t].got, import'[t].prev)
                        /\ import'[t].pc = "fetch" => ~import'[t].whole
      BY DEF WholeInv, Valid, Distance
    <2>1. CASE t = s  BY <1>1, <2>1 DEF Whole
    <2>2. CASE t # s  BY <1>1, <2>2 DEF Inv, WholeInv
    <2> QED  BY <2>1, <2>2
  <1> QED  BY <1>2, <1>3 DEF Inv

LEMMA NoImportWhole == Whole(NoImport) /\ NoImport.pc = "idle"
  BY DEF Whole, NoImport

\* An import ends.
LEMMA Ends ==
    ASSUME Inv, NEW s \in Instances, End(s),
           feed' = feed, changes' = changes, faults' \in 0..MaxFaults,
           rows' \in [Domains -> {None, "active", "inactive"}],
           age' \in [Domains -> 0..Oldest],
           active' \subseteq Domains, evidence' \subseteq Domains, last' \in Feed,
           sinceListed' \in [Domains -> 0..Oldest]
    PROVE  Inv'
  BY GoesOn, NoImportType, NoImportWhole DEF End

LEMMA BeginInv == ASSUME Inv, NEW s \in Instances, Begin(s) PROVE Inv'
  <1>1. PICK started \in 0..Patience :
            Goto(s, [NoImport EXCEPT !.pc = "fetch", !.prev = last, !.attempt = 1,
                                     !.started = started])
    BY DEF Begin
  <1> DEFINE i == [NoImport EXCEPT !.pc = "fetch", !.prev = last, !.attempt = 1,
                                   !.started = started]
  <1>2. i \in Import
    <2>1. last \in Feed /\ 1 \in 0..MaxAttempts  BY Bounds DEF Inv, TypeOK
    <2> QED  BY <2>1, NoImportType DEF Import
  <1>3. Whole(i)  BY DEF Whole, NoImport
  <1> QED  BY <1>1, <1>2, <1>3, GoesOn DEF Begin, database, Inv, TypeOK

LEMMA NotModifiedInv == ASSUME Inv, NEW s \in Instances, NotModified(s) PROVE Inv'
  <1>1. sinceListed' \in [Domains -> 0..Oldest]  BY FoundType DEF NotModified, Inv
  <1> QED  BY <1>1, Ends DEF NotModified, database, Inv, TypeOK

LEMMA DownloadInv == ASSUME Inv, NEW s \in Instances, Download(s) PROVE Inv'
  <1>0. /\ import[s] \in Import /\ import[s].pc = "fetch"
        /\ feed \in Feed /\ feed.rules \subseteq Domains /\ faults \in 0..MaxFaults
        /\ UNCHANGED <<feed, database, sinceListed, changes>>
    BY DEF Download, Inv, TypeOK, Import, Feed
  <1>1. CASE /\ Goto(s, [import[s] EXCEPT !.pc = "read", !.got = feed, !.whole = TRUE,
                                          !.listed = feed.rules])
             /\ UNCHANGED faults
    <2> DEFINE i == [import[s] EXCEPT !.pc = "read", !.got = feed, !.whole = TRUE,
                                      !.listed = feed.rules]
    <2>1. i \in Import  BY <1>0 DEF Import
    <2>2. Whole(i)  BY <1>0 DEF Whole, Import
    <2> QED  BY <1>0, <1>1, <2>1, <2>2, GoesOn DEF database, Inv, TypeOK
  <1>2. CASE /\ Fault("break")
             /\ \E part \in Part(feed) :
                   Goto(s, [import[s] EXCEPT !.pc = "read", !.got = part, !.listed = feed.rules])
    <2>1. PICK part \in Part(feed) :
              Goto(s, [import[s] EXCEPT !.pc = "read", !.got = part, !.listed = feed.rules])
      BY <1>2
    <2> DEFINE i == [import[s] EXCEPT !.pc = "read", !.got = part, !.listed = feed.rules]
    <2>2. i \in Import  BY <1>0, PartType DEF Import
    <2>3. ~import[s].whole => Whole(i)  BY <1>0 DEF Whole, Import
    <2>4. ~import[s].whole  BY <1>0 DEF Inv, WholeInv
    <2> QED  BY <1>0, <1>2, <2>1, <2>2, <2>3, <2>4, GoesOn, FaultType DEF database, Inv, TypeOK
  <1>3. CASE Fault("garbage") /\ End(s)
    BY <1>0, <1>3, Ends, FaultType DEF database, Inv, TypeOK
  <1> QED  BY <1>1, <1>2, <1>3 DEF Download

LEMMA FailAttemptInv == ASSUME Inv, NEW s \in Instances, FailAttempt(s) PROVE Inv'
  <1>0. /\ import[s] \in Import /\ import[s].pc = "fetch"
        /\ UNCHANGED <<feed, database, sinceListed, changes>>
    BY DEF FailAttempt, Inv, TypeOK, Import
  <1>1. ASSUME import[s].attempt < MaxAttempts,
               Goto(s, [import[s] EXCEPT !.attempt = @ + 1]), Fault("retry")
        PROVE  Inv'
    <2> DEFINE i == [import[s] EXCEPT !.attempt = @ + 1]
    <2>1. i \in Import
      <3>1. import[s].attempt \in 0..MaxAttempts  BY <1>0 DEF Import
      <3>2. import[s].attempt + 1 \in 0..MaxAttempts  BY <1>1, <3>1, Bounds
      <3> QED  BY <1>0, <3>2 DEF Import
    <2>2. Whole(i)  BY <1>0 DEF Whole, Import, Inv, WholeInv
    <2> QED  BY <1>0, <1>1, <2>1, <2>2, GoesOn, FaultType DEF database, Inv, TypeOK
  <1>2. ASSUME NEW kind, Fault(kind), End(s) PROVE Inv'
    BY <1>0, <1>2, Ends, FaultType DEF database, Inv, TypeOK
  <1> QED  BY <1>1, <1>2 DEF FailAttempt

LEMMA JudgeInv == ASSUME Inv, NEW s \in Instances, Judge(s) PROVE Inv'
  <1>0. /\ import[s] \in Import /\ import[s].pc = "read"
        /\ UNCHANGED <<feed, database, changes, faults>>
        /\ sinceListed \in [Domains -> 0..Oldest] /\ faults \in 0..MaxFaults
    BY DEF Judge, Inv, TypeOK, Import
  <1>1. ASSUME End(s), UNCHANGED sinceListed PROVE Inv'
    BY <1>0, <1>1, Ends DEF database, Inv, TypeOK
  <1>2. ASSUME End(s), Found(import[s].listed) PROVE Inv'
    <2>1. sinceListed' \in [Domains -> 0..Oldest]  BY <1>2, FoundType DEF Inv
    <2> QED  BY <1>0, <1>2, <2>1, Ends DEF database, Inv, TypeOK
  <1>3. ASSUME import[s].whole, Valid(import[s].got, import[s].prev), UNCHANGED sinceListed,
               Goto(s, [import[s] EXCEPT !.pc = "apply"])
        PROVE  Inv'
    <2> DEFINE i == [import[s] EXCEPT !.pc = "apply"]
    <2>1. i \in Import  BY <1>0 DEF Import
    <2>2. i.got = import[s].got /\ i.prev = import[s].prev /\ i.whole = import[s].whole
          /\ i.listed = import[s].listed /\ i.pc = "apply"
      BY <1>0 DEF Import
    <2>3. import[s].got.rules = import[s].listed  BY <1>0, <1>3 DEF Inv, WholeInv
    <2>4. Whole(i)  BY <1>3, <2>2, <2>3 DEF Whole
    <2> QED  BY <1>0, <1>3, <2>1, <2>4, GoesOn DEF database, Inv, TypeOK
  <1> QED  BY <1>1, <1>2, <1>3 DEF Judge

LEMMA ApplyInv == ASSUME Inv, NEW s \in Instances, Apply(s) PROVE Inv'
  <1>0. /\ import[s] \in Import /\ import[s].pc = "apply"
        /\ Merge(import[s]) /\ Goto(s, [import[s] EXCEPT !.pc = "applied"])
        /\ UNCHANGED <<feed, last, sinceListed, changes, faults>>
    BY DEF Apply, Inv, TypeOK, Import
  <1> DEFINE i == [import[s] EXCEPT !.pc = "applied"]
  <1>1. i \in Import  BY <1>0 DEF Import
  <1>2. i.got = import[s].got /\ i.prev = import[s].prev /\ i.whole = import[s].whole
        /\ i.listed = import[s].listed /\ i.pc = "applied"
    BY <1>0 DEF Import
  <1>3. Whole(i)  BY <1>0, <1>2 DEF Whole, Inv, WholeInv
  <1>4. /\ rows' \in [Domains -> {None, "active", "inactive"}]
        /\ age' \in [Domains -> 0..Oldest]
        /\ active' \subseteq Domains /\ evidence' \subseteq Domains
    BY <1>0, Merged DEF Inv
  <1> HIDE DEF i
  <1> QED  BY <1>0, <1>1, <1>3, <1>4, GoesOn DEF i, Inv, TypeOK

LEMMA FailApplyInv == ASSUME Inv, NEW s \in Instances, FailApply(s) PROVE Inv'
  <1>0. /\ import[s] \in Import /\ End(s)
        /\ UNCHANGED <<feed, last, sinceListed, changes>>
    BY DEF FailApply, Inv, TypeOK, Import
  <1>1. ASSUME Fault("apply"), UNCHANGED <<rows, age, active, evidence>> PROVE Inv'
    BY <1>0, <1>1, Ends, FaultType DEF Inv, TypeOK
  <1>2. ASSUME Fault("commit"), Merge(import[s]) PROVE Inv'
    <2>1. /\ rows' \in [Domains -> {None, "active", "inactive"}]
          /\ age' \in [Domains -> 0..Oldest]
          /\ active' \subseteq Domains /\ evidence' \subseteq Domains
      BY <1>0, <1>2, Merged DEF Inv
    <2>2. faults' \in 0..MaxFaults  BY <1>2, FaultType DEF Inv
    <2> QED  BY <1>0, <2>1, <2>2, Ends DEF Inv, TypeOK
  <1> QED  BY <1>1, <1>2 DEF FailApply

LEMMA FinishInv == ASSUME Inv, NEW s \in Instances, Finish(s) PROVE Inv'
  <1>1. /\ End(s) /\ last' = import[s].got
        /\ UNCHANGED <<feed, rows, age, active, evidence, changes, faults>>
    BY DEF Finish
  <1>2. last' \in Feed  BY <1>1 DEF Inv, TypeOK
  <1>3. sinceListed' \in [Domains -> 0..Oldest]  BY FoundType DEF Finish, Inv
  <1> QED  BY <1>1, <1>2, <1>3, Ends DEF Inv, TypeOK

LEMMA FailFinishInv == ASSUME Inv, NEW s \in Instances, FailFinish(s) PROVE Inv'
  BY Ends, FaultType DEF FailFinish, database, Inv, TypeOK

LEMMA CrashInv == ASSUME Inv, NEW s \in Instances, Crash(s) PROVE Inv'
  BY Ends, FaultType DEF Crash, database, Inv, TypeOK

LEMMA ChangeInv == ASSUME Inv, Change PROVE Inv'
  <1>1. TypeOK'
    <2>1. feed' \in Feed /\ changes' \in 0..MaxChanges
      BY Bounds, PublishedType DEF Change, Inv, TypeOK
    <2> QED  BY <2>1 DEF Change, database, Inv, TypeOK
  <1>2. WholeInv'  BY DEF Change, Inv, WholeInv, Valid, Distance
  <1> QED  BY <1>1, <1>2 DEF Inv

LEMMA TickInv == ASSUME Inv, Tick PROVE Inv'
  <1>1. age' \in [Domains -> 0..Oldest] /\ sinceListed' \in [Domains -> 0..Oldest]
    BY OlderType DEF Tick, Inv, TypeOK
  <1>2. ASSUME NEW s \in Instances
        PROVE  import'[s] \in Import /\ Whole(import'[s])
    <2>0. import[s] \in Import /\ Whole(import[s])
      BY DEF Inv, TypeOK, Import, WholeInv, Whole
    <2>1. CASE import[s].pc = "idle"
      BY <2>1, NoImportType, NoImportWhole DEF Tick
    <2>2. CASE import[s].pc # "idle"
      <3>1. import'[s] = [import[s] EXCEPT !.started = @ + 1]  BY <2>2 DEF Tick
      <3>2. import[s].started + 1 \in 0..Patience
        <4>1. import[s].started < Patience  BY <2>2 DEF Tick
        <4>2. import[s].started \in 0..Patience  BY <2>0 DEF Import
        <4> QED  BY <4>1, <4>2, Bounds
      <3> QED  BY <2>0, <3>1, <3>2 DEF Import, Whole
    <2> QED  BY <2>1, <2>2
  <1>3. TypeOK'
    <2>1. import' \in [Instances -> Import]  BY <1>2 DEF Tick
    <2> QED  BY <1>1, <2>1 DEF Tick, Inv, TypeOK, Import
  <1>4. WholeInv'  BY <1>2 DEF WholeInv, Whole, Valid, Distance
  <1> QED  BY <1>3, <1>4 DEF Inv

LEMMA InitInv == Init => Inv
  <1> SUFFICES ASSUME Init PROVE Inv  OBVIOUS
  <1>1. TypeOK
    <2>1. import \in [Instances -> Import]  BY NoImportType DEF Init
    <2>2. feed \in Feed /\ last \in Feed  BY PublishedType, NoFeedType DEF Init
    <2> QED  BY <2>1, <2>2, Bounds DEF Init, TypeOK, Import
  <1>2. WholeInv  BY DEF Init, NoImport, WholeInv
  <1> QED  BY <1>1, <1>2 DEF Inv

LEMMA NextInv == Inv /\ [Next]_vars => Inv'
  <1> SUFFICES ASSUME Inv, [Next]_vars PROVE Inv'  OBVIOUS
  <1>1. CASE UNCHANGED vars
    BY <1>1 DEF vars, database, Inv, TypeOK, WholeInv, Valid, Distance
  <1>2. CASE Change  BY <1>2, ChangeInv
  <1>3. CASE Tick  BY <1>3, TickInv
  <1>4. ASSUME NEW s \in Instances, One(s) PROVE Inv'
    BY <1>4, BeginInv, NotModifiedInv, DownloadInv, JudgeInv, ApplyInv, FinishInv DEF One
  <1>5. ASSUME NEW s \in Instances, FailAttempt(s) \/ FailApply(s) \/ FailFinish(s) \/ Crash(s)
        PROVE  Inv'
    BY <1>5, FailAttemptInv, FailApplyInv, FailFinishInv, CrashInv
  <1> QED  BY <1>1, <1>2, <1>3, <1>4, <1>5 DEF Next

LEMMA Invariance == Spec => []Inv
  BY InitInv, NextInv, PTL DEF Spec

\* Every variable keeps its type (in particular ages, at the length of the grace period).
THEOREM TypeCorrect == Spec => []TypeOK
  BY Invariance, PTL DEF Inv

-----------------------------------------------------------------------------
(* Whole lists.                                                            *)

\* L0 and L1 change in applyMerge only, by a list that is ready to be applied.
LEMMA OnlyMerges ==
    ASSUME Inv, [Next]_vars
    PROVE  \/ UNCHANGED <<rows, active, evidence>>
           \/ \E s \in Instances : import[s].pc = "apply" /\ Merge(import[s])
  <1>1. ASSUME NEW s \in Instances, Apply(s) \/ FailApply(s)
        PROVE  \/ UNCHANGED <<rows, active, evidence>>
               \/ import[s].pc = "apply" /\ Merge(import[s])
    BY <1>1 DEF Apply, FailApply
  <1>2. ASSUME NEW s \in Instances, Begin(s) \/ NotModified(s) \/ Download(s) \/ Judge(s)
                   \/ Finish(s) \/ FailAttempt(s) \/ FailFinish(s) \/ Crash(s)
        PROVE  UNCHANGED <<rows, active, evidence>>
    BY <1>2 DEF Begin, NotModified, Download, Judge, Finish, FailAttempt, FailFinish, Crash,
                database
  <1>3. CASE Change \/ Tick \/ UNCHANGED vars
    BY <1>3 DEF Change, Tick, vars, database
  <1> QED  BY <1>1, <1>2, <1>3 DEF Next, One

\* L0 and L1 change by whole lists only, whatever fails and however many instances
\* import (Fetch, Validate, Apply).
THEOREM OnlyWholeLists == Spec => NothingByHalves
  <1> DEFINE Step ==
        rows' # rows \/ evidence' # evidence =>
          \E s \in Instances :
             /\ \A d \in import[s].listed : rows'[d] = "active" /\ d \in evidence'
             /\ \A d \in Domains : rows'[d] = "active" => d \in import[s].listed
                                                          \/ rows[d] = "active"
  <1>1. Inv /\ [Next]_vars => Step
    <2> SUFFICES ASSUME Inv, [Next]_vars, rows' # rows \/ evidence' # evidence PROVE Step
      OBVIOUS
    <2>1. PICK s \in Instances : import[s].pc = "apply" /\ Merge(import[s])
      BY OnlyMerges
    <2>2. import[s] \in Import /\ import[s].got.rules = import[s].listed
      BY <2>1 DEF Inv, TypeOK, Import, WholeInv
    <2>3. /\ \A d \in import[s].got.rules : rows'[d] = "active" /\ d \in evidence'
          /\ \A d \in Domains \ import[s].got.rules : rows'[d] = "active" => rows[d] = "active"
      BY <2>1, <2>2, Merged DEF Inv
    <2> QED  BY <2>2, <2>3
  <1>2. Inv /\ [Next]_vars => [Step]_vars  BY <1>1
  <1> QED  BY <1>2, Invariance, PTL DEF Spec, NothingByHalves

\* A domain is active exactly as long as a source has an active row on it (applyMerge).
THEOREM OrphansOnlyAreOff == Spec => []ActiveIffListed
  <1>1. Init => ActiveIffListed  BY DEF Init, ActiveIffListed, None
  <1>2. Inv /\ ActiveIffListed /\ [Next]_vars => ActiveIffListed'
    <2> SUFFICES ASSUME Inv, ActiveIffListed, [Next]_vars PROVE ActiveIffListed'  OBVIOUS
    <2>1. CASE UNCHANGED <<rows, active, evidence>>
      BY <2>1 DEF ActiveIffListed
    <2>2. ASSUME NEW s \in Instances, import[s].pc = "apply", Merge(import[s])
          PROVE  ActiveIffListed'
      <3>1. import[s] \in Import /\ import[s].got.rules \subseteq Domains
        BY DEF Inv, TypeOK, Import, Feed
      <3>2. /\ \A d \in import[s].got.rules : rows'[d] = "active"
            /\ \A d \in Domains \ import[s].got.rules : rows'[d] = "active" => rows[d] = "active"
            /\ active' = {d \in active \cup import[s].got.rules :
                            rows'[d] = "active" \/ d \in Elsewhere}
        BY <2>2, <3>1, Merged DEF Inv
      <3>3. active = {d \in Domains : rows[d] = "active"} \cup Elsewhere
        BY DEF ActiveIffListed
      <3>4. active' = {d \in Domains : rows'[d] = "active"} \cup Elsewhere
        BY <3>1, <3>2, <3>3, Bounds
      <3> QED  BY <3>4 DEF ActiveIffListed
    <2> QED  BY <2>1, <2>2, OnlyMerges
  <1> QED  BY <1>1, <1>2, Invariance, PTL DEF Spec

-----------------------------------------------------------------------------
(* One instance.                                                           *)

\* Nobody else completes an import while one is under way.
BaselineInv == \A s \in Instances : import[s].pc # "idle" => import[s].prev = last

LEMMA BaselineStep ==
    ASSUME NEW one, Instances = {one}, Inv, BaselineInv, [Next]_vars
    PROVE  BaselineInv'
  <1>0. import \in [Instances -> Import] /\ import[one] \in Import
    BY DEF Inv, TypeOK, Import
  <1>1. CASE Change \/ UNCHANGED vars
    BY <1>1 DEF Change, vars, database, BaselineInv
  <1>2. CASE Tick
    <2>1. last' = last /\ import'[one].pc # "idle" =>
             import[one].pc # "idle" /\ import'[one].prev = import[one].prev
      BY <1>0, <1>2, NoImportWhole DEF Tick, Import
    <2>2. last' = last  BY <1>2 DEF Tick
    <2> QED  BY <2>1, <2>2 DEF BaselineInv
  <1>3. ASSUME End(one) PROVE BaselineInv'
    <2>1. import'[one].pc = "idle"  BY <1>0, <1>3, NoImportWhole DEF End, Goto
    <2> QED  BY <2>1 DEF BaselineInv
  <1>4. ASSUME NEW i, Goto(one, i), i.prev = last, last' = last PROVE BaselineInv'
    BY <1>0, <1>4 DEF Goto, BaselineInv
  <1>5. CASE Begin(one)
    BY <1>0, <1>4, <1>5 DEF Begin, database, NoImport
  <1>6. CASE NotModified(one) \/ FailApply(one) \/ Finish(one) \/ FailFinish(one) \/ Crash(one)
    BY <1>3, <1>6 DEF NotModified, FailApply, Finish, FailFinish, Crash
  <1>7. ASSUME import[one].pc # "idle", last' = last, NEW i, Goto(one, i),
               i.prev = import[one].prev
        PROVE  BaselineInv'
    BY <1>4, <1>7 DEF BaselineInv
  <1>8. CASE Download(one)
    BY <1>0, <1>3, <1>7, <1>8 DEF Download, database, Import
  <1>9. CASE FailAttempt(one)
    BY <1>0, <1>3, <1>7, <1>9 DEF FailAttempt, database, Import
  <1>10. CASE Judge(one)
    BY <1>0, <1>3, <1>7, <1>10 DEF Judge, database, Import
  <1>11. CASE Apply(one)
    BY <1>0, <1>7, <1>11 DEF Apply, Import
  <1> QED
    BY <1>1, <1>2, <1>5, <1>6, <1>8, <1>9, <1>10, <1>11 DEF Next, One

LEMMA Baseline ==
    ASSUME NEW one, Instances = {one}
    PROVE  Spec => [](Inv /\ BaselineInv)
  <1>1. Init => BaselineInv  BY DEF Init, BaselineInv, NoImport
  <1>2. (Inv /\ BaselineInv) /\ [Next]_vars => BaselineInv'
    BY BaselineStep
  <1> QED  BY <1>1, <1>2, InitInv, NextInv, PTL DEF Spec

\* The baseline moves when an import is completed, to its list.
LEMMA OnlyFinishes ==
    ASSUME [Next]_vars
    PROVE  \/ last' = last
           \/ \E s \in Instances : import[s].pc = "applied" /\ last' = import[s].got
  BY DEF Next, vars, database, Change, Tick, One, Begin, NotModified, Download, Judge, Apply,
         Finish, FailAttempt, FailApply, FailFinish, Crash

LEMMA HalfMore ==
    ASSUME NEW m \in Nat, NEW n \in Nat, 2 * Distance(m, n) <= n
    PROVE  2 * m >= n /\ 2 * m <= 3 * n
  <1>1. CASE m < n  BY <1>1 DEF Distance
  <1>2. CASE ~(m < n)  BY <1>2 DEF Distance
  <1> QED  BY <1>1, <1>2

\* With one instance, no completed import is much shorter or much longer than the one
\* completed before it, once that is long enough (Validate).
THEOREM NoLargeChangeByOne ==
    ASSUME NEW one, Instances = {one}
    PROVE  Spec => NoLargeChange
  <1> DEFINE Step ==
        last' # last /\ last.lines >= MinSample =>
          /\ 2 * last'.lines >= last.lines
          /\ 2 * last'.lines <= 3 * last.lines
  <1>1. Inv /\ BaselineInv /\ [Next]_vars => Step
    <2> SUFFICES ASSUME Inv, BaselineInv, [Next]_vars, last' # last,
                        last.lines >= MinSample
                 PROVE  /\ 2 * last'.lines >= last.lines
                        /\ 2 * last'.lines <= 3 * last.lines
      OBVIOUS
    <2>1. import[one].pc = "applied" /\ last' = import[one].got
      BY OnlyFinishes
    <2>2. import[one].prev = last /\ Valid(last', last)
      BY <2>1 DEF BaselineInv, Inv, WholeInv
    <2>3. last.lines \in Nat /\ last'.lines \in Nat
      BY <2>1 DEF Inv, TypeOK, Feed
    <2>4. 2 * Distance(last'.lines, last.lines) <= last.lines
      BY <2>2 DEF Valid
    <2> QED  BY <2>3, <2>4, HalfMore
  <1>2. (Inv /\ BaselineInv) /\ [Next]_vars => [Step]_vars  BY <1>1
  <1> QED  BY <1>2, Baseline, PTL DEF Spec, NoLargeChange

-----------------------------------------------------------------------------
(* No import that ends between its transactions.                           *)

\* What the next import compares with is what the rows say.
AppliedInv ==
    \A s \in Instances :
        /\ import[s].pc # "applied" => \A d \in last.rules : rows[d] = "active"
        /\ import[s].pc = "applied" => \A d \in import[s].got.rules : rows[d] = "active"

LEMMA AppliedStep ==
    ASSUME NEW one, Instances = {one}, Faults \cap {"commit", "finish", "crash"} = {},
           Inv, AppliedInv, [Next]_vars
    PROVE  AppliedInv'
  <1>0. import \in [Instances -> Import] /\ import[one] \in Import
    BY DEF Inv, TypeOK, Import
  <1>1. CASE UNCHANGED <<rows, last>> /\ import'[one].pc # "applied" /\ import[one].pc # "applied"
    BY <1>1 DEF AppliedInv
  <1>2. CASE Change \/ UNCHANGED vars
    BY <1>2 DEF Change, vars, database, AppliedInv
  <1>3. CASE Tick
    <2>1. /\ import'[one].pc = import[one].pc
          /\ import[one].pc # "idle" => import'[one].got = import[one].got
      BY <1>0, <1>3, NoImportWhole DEF Tick, Import
    <2>2. UNCHANGED <<rows, last>>  BY <1>3 DEF Tick
    <2> QED  BY <2>1, <2>2 DEF AppliedInv
  <1>4. CASE Begin(one) \/ NotModified(one) \/ Download(one) \/ FailAttempt(one) \/ Judge(one)
    <2>1. \A i : Goto(one, i) => import'[one] = i
      BY <1>0 DEF Goto
    <2>2. UNCHANGED <<rows, last>> /\ import[one].pc \in {"idle", "fetch", "read"}
      BY <1>4 DEF Begin, NotModified, Download, FailAttempt, Judge, database
    <2>3. import'[one].pc # "applied"
      <3>1. End(one) => import'[one].pc # "applied"
        BY <2>1, NoImportWhole DEF End
      <3>2. CASE Begin(one)
        BY <2>1, <3>2 DEF Begin, NoImport
      <3>3. CASE NotModified(one)
        BY <3>1, <3>3 DEF NotModified
      <3>4. CASE Download(one)
        BY <1>0, <2>1, <3>1, <3>4 DEF Download, Import
      <3>5. CASE FailAttempt(one)
        BY <1>0, <2>1, <2>2, <3>1, <3>5 DEF FailAttempt, Import
      <3>6. CASE Judge(one)
        BY <1>0, <2>1, <3>1, <3>6 DEF Judge, Import
      <3> QED  BY <1>4, <3>2, <3>3, <3>4, <3>5, <3>6
    <2> QED  BY <1>1, <2>2, <2>3
  <1>5. CASE Apply(one)
    <2>1. import'[one].pc = "applied" /\ import'[one].got = import[one].got
      BY <1>0, <1>5 DEF Apply, Goto, Import
    <2>2. \A d \in import[one].got.rules : rows'[d] = "active"
      BY <1>0, <1>5, Merged DEF Apply, Inv
    <2> QED  BY <2>1, <2>2 DEF AppliedInv
  <1>6. CASE FailApply(one)
    <2>1. UNCHANGED <<rows, last>>  BY <1>6 DEF FailApply, Fault
    <2>2. import'[one].pc # "applied" /\ import[one].pc # "applied"
      BY <1>0, <1>6, NoImportWhole DEF FailApply, End, Goto
    <2> QED  BY <1>1, <2>1, <2>2
  <1>7. CASE Finish(one)
    <2>1. rows' = rows /\ last' = import[one].got /\ import[one].pc = "applied"
          /\ import'[one].pc = "idle"
      BY <1>0, <1>7, NoImportWhole DEF Finish, End, Goto
    <2> QED  BY <2>1 DEF AppliedInv
  <1>8. ~FailFinish(one) /\ ~Crash(one)  BY DEF FailFinish, Crash, Fault
  <1> QED  BY <1>2, <1>3, <1>4, <1>5, <1>6, <1>7, <1>8 DEF Next, One

\* With one instance that neither crashes nor loses the end of a transaction, an import that
\* ends well leaves active what the server listed: what is taken for unchanged is what has
\* been applied (One).
THEOREM ListedIsActiveAfterwards ==
    ASSUME NEW one, Instances = {one}, Faults \cap {"commit", "finish", "crash"} = {}
    PROVE  Spec => ListedIsActive
  <1> DEFINE Step ==
        \A d \in Domains : sinceListed'[d] = 0 /\ sinceListed[d] # 0 => rows'[d] = "active"
  <1>1. Inv /\ BaselineInv /\ AppliedInv /\ [Next]_vars => Step
    <2> SUFFICES ASSUME Inv, BaselineInv, AppliedInv, [Next]_vars, NEW d \in Domains,
                        sinceListed'[d] = 0, sinceListed[d] # 0
                 PROVE  rows'[d] = "active"
      OBVIOUS
    <2>0. import[one] \in Import  BY DEF Inv, TypeOK, Import
    <2>1. ~Tick
      <3>1. sinceListed[d] \in 0..Oldest  BY DEF Inv, TypeOK
      <3>2. Tick => sinceListed'[d] = Older(sinceListed[d])  BY DEF Tick
      <3> QED  BY <3>1, <3>2, OlderType
    <2>2. \A list : Found(list) => d \in list
      BY DEF Found
    <2>3. CASE NotModified(one)
      BY <2>2, <2>3 DEF NotModified, BaselineInv, AppliedInv, database
    <2>4. CASE Judge(one)
      <3>1. import[one].pc = "read" /\ rows' = rows /\ import[one].prev = last
        BY <2>4 DEF Judge, database, BaselineInv
      <3>2. import[one].whole /\ import[one].got = import[one].prev /\ Found(import[one].listed)
        BY <2>4 DEF Judge
      <3>3. d \in last.rules  BY <2>2, <3>1, <3>2 DEF Inv, WholeInv
      <3> QED  BY <3>1, <3>3 DEF AppliedInv
    <2>5. CASE Finish(one)
      <3>1. import[one].pc = "applied" /\ rows' = rows /\ Found(import[one].listed)
        BY <2>5 DEF Finish
      <3>2. d \in import[one].got.rules  BY <2>2, <3>1 DEF Inv, WholeInv
      <3> QED  BY <3>1, <3>2 DEF AppliedInv
    <2>6. CASE UNCHANGED sinceListed  BY <2>6
    <2>7. CASE Begin(one) \/ Download(one) \/ Apply(one) \/ FailAttempt(one) \/ FailApply(one)
               \/ FailFinish(one) \/ Crash(one) \/ Change \/ UNCHANGED vars
      BY <2>6, <2>7 DEF Begin, Download, Apply, FailAttempt, FailApply, FailFinish, Crash,
                        Change, vars
    <2> QED  BY <2>1, <2>3, <2>4, <2>5, <2>7 DEF Next, One
  <1>2. (Inv /\ BaselineInv) /\ AppliedInv /\ [Next]_vars => AppliedInv' /\ [Step]_vars
    BY <1>1, AppliedStep
  <1>3. Init => AppliedInv  BY DEF Init, AppliedInv, NoImport, NoFeed
  <1> QED  BY <1>2, <1>3, Baseline, PTL DEF Spec, ListedIsActive

-----------------------------------------------------------------------------
(* The two writers of L1 (L1Merge).  One import runs at a time; whatever   *)
(* sync-consumer commits in the meantime only adds active domains, and     *)
(* rows of its own source.  So the domains that an import writes as active *)
(* or finds active stay so (ImportRows), and a domain it takes for an       *)
(* orphan is listed by no feed until it commits (ImportOrphans).                *)

\* Each element of a set stands once in each of its sequences.
LEMMA OrderType ==
    ASSUME NEW S, IsFiniteSet(S), NEW order \in SetToSeqs(S)
    PROVE  /\ order \in Seq(S)
           /\ \A d \in S : \E k \in 1..Len(order) : order[k] = d
  <1> DEFINE n == Cardinality(S)
  <1>1. n \in Nat  BY FS_CardinalityType
  <1>2. order \in [1..n -> S] /\ \A i, j \in 1..n : i # j => order[i] # order[j]
    BY <1>1 DEF SetToSeqs
  <1>3. order \in Seq(S) /\ Len(order) = n  BY <1>1, <1>2
  <1>4. order \in Injection(1..n, S)  BY <1>2 DEF Injection, IsInjective
  <1>5. Cardinality(1..n) = n  BY <1>1, FS_Interval
  <1>6. order \in Surjection(1..n, S)  BY <1>4, <1>5, FS_Injection
  <1> QED  BY <1>3, <1>6 DEF Surjection

LEMMA MergeBounds ==
    /\ \A S \in SUBSET Names : IsFiniteSet(S)
           /\ MaxBegun \in Nat /\ MaxFailures \in Nat
           /\ OpenCTI \notin Feeds /\ Consumer \notin Ingestors
           /\ OpenCTI \in Sources /\ Feeds \subseteq Sources
           /\ Consumer \in Writers /\ Ingestors \subseteq Writers
  BY MergeAssumption, FS_Subset DEF Sources, Writers

MergeTx == [pc : {"idle", "merge", "merged", "drop", "upsert"}, source : Sources,
            list : SUBSET Names, todo : Seq(Names), on : SUBSET Names,
            off : SUBSET Names, rows : SUBSET Names]

LEMMA MergeTypes ==
    MergeTypeOK <=>
        /\ activeDomains \subseteq Names
        /\ listed \in [Sources -> SUBSET Names]
        /\ tx \in [Writers -> MergeTx]
        /\ begun \in 0..MaxBegun /\ failures \in 0..MaxFailures
  BY DEF MergeTypeOK, MergeTx

LEMMA NoTransactionType == NoTransaction \in MergeTx
  BY DEF NoTransaction, MergeTx, Sources

\* A writer takes a row after the other.
LEMMA TodoType ==
    ASSUME NEW todo \in Seq(Names), todo # <<>>
    PROVE  /\ Head(todo) \in Names /\ Head(todo) = todo[1] /\ 1 \in 1..Len(todo)
           /\ Tail(todo) \in Seq(Names) /\ Len(Tail(todo)) = Len(todo) - 1
           /\ \A k \in 1..Len(Tail(todo)) : k + 1 \in 1..Len(todo) /\ Tail(todo)[k] = todo[k + 1]
           /\ \A k \in 1..Len(todo) : k = 1 \/ (k - 1 \in 1..Len(Tail(todo)) /\ todo[k] = Tail(todo)[k - 1])
  OBVIOUS

LEMMA MergeTypeStep ==
    ASSUME MergeTypeOK, MergeNext
    PROVE  MergeTypeOK'
  <1> USE MergeBounds
  <1>1. /\ activeDomains \subseteq Names
        /\ listed \in [Sources -> SUBSET Names]
        /\ tx \in [Writers -> MergeTx]
        /\ begun \in 0..MaxBegun /\ failures \in 0..MaxFailures
    BY MergeTypes
  <1>2. ASSUME NEW w \in Writers, NEW t \in MergeTx, Set(w, t)
        PROVE  tx' \in [Writers -> MergeTx]
    BY <1>1, <1>2 DEF Set
  <1>3. /\ begun < MaxBegun /\ begun' = begun + 1 => begun' \in 0..MaxBegun
        /\ failures < MaxFailures /\ failures' = failures + 1 => failures' \in 0..MaxFailures
    <2>1. MaxBegun \in Nat /\ MaxFailures \in Nat  BY MergeAssumption
    <2>2. begun \in 0..MaxBegun /\ failures \in 0..MaxFailures  BY <1>1
    <2> QED  BY ONLY <2>1, <2>2
  <1> DEFINE Typed == /\ activeDomains' \subseteq Names
                      /\ listed' \in [Sources -> SUBSET Names]
                      /\ tx' \in [Writers -> MergeTx]
                      /\ begun' \in 0..MaxBegun /\ failures' \in 0..MaxFailures
  <1>4. SUFFICES Typed  BY DEF MergeTypeOK, MergeTx
  <1>5. ASSUME NEW w \in Ingestors, BeginApply(w)  PROVE Typed
    <2> PICK f \in Feeds, list \in SUBSET Names : \E order \in SetToSeqs(list) :
             Set(w, [NoTransaction EXCEPT !.pc = "merge", !.source = f, !.list = list,
                                                !.todo = order, !.rows = listed[f]])
      BY <1>5 DEF BeginApply
    <2>1. PICK order \in SetToSeqs(list) :
             Set(w, [NoTransaction EXCEPT !.pc = "merge", !.source = f, !.list = list,
                                                !.todo = order, !.rows = listed[f]])
      OBVIOUS
    <2>2. order \in Seq(Names)
      <3>1. order \in Seq(list)  BY OrderType
      <3> QED  BY <3>1
    <2>3. [NoTransaction EXCEPT !.pc = "merge", !.source = f, !.list = list,
                                   !.todo = order, !.rows = listed[f]] \in MergeTx
      BY <1>1, <2>2, NoTransactionType DEF MergeTx
    <2>4. tx' \in [Writers -> MergeTx]  BY <1>2, <2>1, <2>3
    <2> QED  BY <1>1, <1>3, <1>5, <2>4 DEF BeginApply
  <1>6. ASSUME NEW w \in Writers, MergeDomain(w)  PROVE Typed
    <2>1. tx[w] \in MergeTx  BY <1>1
    <2>2. Head(tx[w].todo) \in Names /\ Tail(tx[w].todo) \in Seq(Names)
      BY <1>6, <2>1, TodoType DEF MergeDomain, MergeTx
    <2>3. [tx[w] EXCEPT !.todo = Tail(@), !.on = @ \cup {Head(tx[w].todo)}] \in MergeTx
      BY <2>1, <2>2 DEF MergeTx
    <2>4. tx' \in [Writers -> MergeTx]  BY <1>2, <1>6, <2>3 DEF MergeDomain
    <2> QED  BY <1>1, <1>6, <2>4 DEF MergeDomain
  <1>7. ASSUME NEW w \in Writers, MergeSources(w)  PROVE Typed
    <2>1. tx[w] \in MergeTx  BY <1>1
    <2>2. PICK old \in SUBSET (tx[w].rows \ tx[w].list) :
             Set(w, [tx[w] EXCEPT !.pc = "merged", !.rows = (@ \cup tx[w].list) \ old])
      BY <1>7 DEF MergeSources
    <2>3. [tx[w] EXCEPT !.pc = "merged", !.rows = (@ \cup tx[w].list) \ old] \in MergeTx
      BY <2>1 DEF MergeTx
    <2>4. tx' \in [Writers -> MergeTx]  BY <1>2, <2>2, <2>3
    <2> QED  BY <1>1, <1>7, <2>4 DEF MergeSources
  <1>8. ASSUME NEW w \in Writers, FindOrphans(w)  PROVE Typed
    <2> DEFINE orphans == {d \in SeenActive(w) : \A s \in Sources : d \notin SeenListed(w, s)}
    <2>1. tx[w] \in MergeTx  BY <1>1
    <2>2. orphans \in SUBSET Names  BY <1>1, <2>1 DEF SeenActive, MergeTx
    <2>3. PICK order \in SetToSeqs(orphans) : Set(w, [tx[w] EXCEPT !.pc = "drop", !.todo = order])
      BY <1>8 DEF FindOrphans
    <2>4. order \in Seq(Names)
      <3>1. order \in Seq(orphans)  BY <2>2, OrderType
      <3> QED  BY <2>2, <3>1
    <2>5. [tx[w] EXCEPT !.pc = "drop", !.todo = order] \in MergeTx  BY <2>1, <2>4 DEF MergeTx
    <2>6. tx' \in [Writers -> MergeTx]  BY <1>2, <2>3, <2>5
    <2> QED  BY <1>1, <1>8, <2>6 DEF FindOrphans
  <1>9. ASSUME NEW w \in Writers, DropDomain(w)  PROVE Typed
    <2> DEFINE d == Head(tx[w].todo)
               t == IF d \in SeenActive(w)
                    THEN [tx[w] EXCEPT !.todo = Tail(@), !.on = @ \ {d}, !.off = @ \cup {d}]
                    ELSE [tx[w] EXCEPT !.todo = Tail(@)]
    <2>1. tx[w] \in MergeTx  BY <1>1
    <2>2. d \in Names /\ Tail(tx[w].todo) \in Seq(Names)
      BY <1>9, <2>1, TodoType DEF DropDomain, MergeTx
    <2>3. t \in MergeTx  BY <2>1, <2>2 DEF MergeTx
    <2>4. tx' \in [Writers -> MergeTx]  BY <1>2, <1>9, <2>3 DEF DropDomain
    <2> QED  BY <1>1, <1>9, <2>4 DEF DropDomain
  <1>10. ASSUME NEW w \in Writers, Commit(w)  PROVE Typed
    <2>1. tx[w] \in MergeTx  BY <1>1
    <2>2. tx' \in [Writers -> MergeTx]  BY <1>2, <1>10, NoTransactionType DEF Commit
    <2>3. SeenActive(w) \subseteq Names  BY <1>1, <2>1 DEF SeenActive, MergeTx
    <2> QED  BY <1>1, <1>10, <2>1, <2>2, <2>3 DEF Commit, MergeTx
  <1>11. CASE BeginUpsert
    <2> PICK list \in SUBSET Names : \E order \in SetToSeqs(list) :
             Set(Consumer, [NoTransaction EXCEPT !.pc = "upsert", !.list = list,
                                     !.todo = order, !.rows = listed[OpenCTI]])
      BY <1>11 DEF BeginUpsert
    <2>1. PICK order \in SetToSeqs(list) :
             Set(Consumer, [NoTransaction EXCEPT !.pc = "upsert", !.list = list,
                                     !.todo = order, !.rows = listed[OpenCTI]])
      OBVIOUS
    <2>2. order \in Seq(Names)
      <3>1. order \in Seq(list)  BY OrderType
      <3> QED  BY <3>1
    <2>3. [NoTransaction EXCEPT !.pc = "upsert", !.list = list,
                                   !.todo = order, !.rows = listed[OpenCTI]] \in MergeTx
      BY <1>1, <2>2, NoTransactionType DEF MergeTx
    <2>4. tx' \in [Writers -> MergeTx]  BY <1>2, <2>1, <2>3
    <2> QED  BY <1>1, <1>3, <1>11, <2>4 DEF BeginUpsert
  <1>12. CASE DeleteOpenCTI
    <2>1. PICK record \in SUBSET listed[OpenCTI] :
             listed' = [listed EXCEPT ![OpenCTI] = @ \ record]
      BY <1>12 DEF DeleteOpenCTI
    <2> QED  BY <1>1, <1>3, <1>12, <2>1 DEF DeleteOpenCTI
  <1>13. ASSUME NEW w \in Writers, UpsertDomain  PROVE Typed
    <2> DEFINE t == tx[Consumer]
    <2>1. t \in MergeTx  BY <1>1
    <2>2. Head(t.todo) \in Names /\ Tail(t.todo) \in Seq(Names)
      BY <1>13, <2>1, TodoType DEF UpsertDomain, MergeTx
    <2>3. [t EXCEPT !.todo = Tail(@), !.on = @ \cup {Head(t.todo)},
                    !.rows = @ \cup {Head(t.todo)}] \in MergeTx
      BY <2>1, <2>2 DEF MergeTx
    <2>4. tx' \in [Writers -> MergeTx]  BY <1>2, <1>13, <2>3 DEF UpsertDomain
    <2> QED  BY <1>1, <1>13, <2>4 DEF UpsertDomain
  <1>14. ASSUME NEW w \in Writers, Fail(w) \/ Deadlock(w)  PROVE Typed
    <2>1. tx' \in [Writers -> MergeTx]
      BY <1>2, <1>14, NoTransactionType DEF Fail, Deadlock
    <2> QED  BY <1>1, <1>3, <1>14, <2>1 DEF Fail, Deadlock
  <1> QED
    BY <1>5, <1>6, <1>7, <1>8, <1>9, <1>10, <1>11, <1>12, <1>13, <1>14 DEF MergeNext, Write

LEMMA MergeInitType == MergeInit => MergeTypeOK
  <1> SUFFICES ASSUME MergeInit PROVE MergeTypeOK  OBVIOUS
  <1>1. listed \in [Sources -> SUBSET Names] /\ activeDomains \subseteq Names  BY DEF MergeInit
  <1>2. tx \in [Writers -> MergeTx]  BY NoTransactionType DEF MergeInit
  <1>3. begun \in 0..MaxBegun /\ failures \in 0..MaxFailures
    <2>1. MaxBegun \in Nat /\ MaxFailures \in Nat  BY MergeAssumption
    <2>2. begun = 0 /\ failures = 0  BY DEF MergeInit
    <2> QED  BY ONLY <2>1, <2>2
  <1> QED  BY <1>1, <1>2, <1>3, MergeTypes

\* TypeOK of L1Merge, with any number of ingestors.
THEOREM MergeTypeCorrect ==
    MergeSpec => []MergeTypeOK
  <1>1. MergeInit => MergeTypeOK  BY MergeInitType
  <1>2. MergeTypeOK /\ [MergeNext]_mergeVars => MergeTypeOK'
    <2>1. MergeTypeOK /\ UNCHANGED mergeVars => MergeTypeOK'  BY DEF MergeTypeOK, mergeVars
    <2> QED  BY <2>1, MergeTypeStep
  <1> QED  BY <1>1, <1>2, PTL DEF MergeSpec

-----------------------------------------------------------------------------
(* An import and what the feeds list.                                      *)

ImportRows(w) ==
    LET t == tx[w] IN
    /\ t.pc # "upsert"
    /\ t.pc # "idle" => t.source \in Feeds
    /\ t.pc \in {"merge", "merged"} => t.off = {}
    /\ t.pc = "merge" =>
          /\ t.rows \subseteq activeDomains
          /\ \A d \in t.list : d \in t.on \/ \E k \in 1..Len(t.todo) : t.todo[k] = d
    /\ t.pc \in {"merged", "drop"} => t.rows \subseteq activeDomains \cup t.on

\* A domain that the import switches off, or is about to, is listed by no feed.
ImportOrphans(w) ==
    LET t == tx[w]
        Unlisted(d) == d \notin t.rows /\ \A g \in Feeds \ {t.source} : d \notin listed[g]
    IN
    t.pc = "drop" =>
        /\ \A d \in t.off : Unlisted(d)
        /\ \A k \in 1..Len(t.todo) : Unlisted(t.todo[k])

ConsumerRows ==
    /\ tx[Consumer].pc \in {"idle", "upsert"}
    /\ tx[Consumer].source = OpenCTI
    /\ tx[Consumer].off = {}

MergeInv ==
    /\ MergeTypeOK
    /\ FeedDomainsActive
    /\ \A w \in Ingestors : ImportRows(w) /\ ImportOrphans(w)
    /\ ConsumerRows

LEMMA MergeInitInv ==
    ASSUME MergeInit PROVE MergeInv
  <1>1. MergeTypeOK  BY MergeInitType
  <1>2. FeedDomainsActive  BY MergeBounds DEF MergeInit, FeedDomainsActive
  <1>3. \A w \in Writers : tx[w] = NoTransaction  BY DEF MergeInit
  <1> DEFINE Idle(t) == t.pc = "idle" /\ t.source = OpenCTI /\ t.off = {}
  <1>4. \A w \in Writers : Idle(tx[w])
    <2>1. Idle(NoTransaction)  BY DEF NoTransaction
    <2> HIDE DEF Idle
    <2> QED  BY <1>3, <2>1
  <1>5. ConsumerRows  BY <1>4 DEF ConsumerRows, Writers
  <1>6. \A w \in Ingestors : ImportRows(w) /\ ImportOrphans(w)
    BY <1>4 DEF ImportRows, ImportOrphans, Writers
  <1> QED  BY <1>1, <1>2, <1>5, <1>6 DEF MergeInv

\* The import is the only one that takes rows of L1 away, so what another step
\* leaves of the tables is enough for it.
LEMMA ImportStays ==
    ASSUME NEW w \in Ingestors, ImportRows(w), ImportOrphans(w), tx'[w] = tx[w],
           activeDomains \subseteq activeDomains', \A g \in Feeds : listed'[g] = listed[g]
    PROVE  ImportRows(w)' /\ ImportOrphans(w)'
  BY DEF ImportRows, ImportOrphans

\* A step of the only import that changes neither table.
LEMMA ImportMoves ==
    ASSUME MergeInv, NEW w \in Ingestors, \A v \in Ingestors : v = w,
           NEW t, Set(w, t), UNCHANGED <<activeDomains, listed>>,
           t.pc # "upsert", t.pc # "idle" => t.source \in Feeds,
           t.pc \in {"merge", "merged"} => t.off = {},
           t.pc = "merge" =>
               /\ t.rows \subseteq activeDomains
               /\ \A d \in t.list : d \in t.on \/ \E k \in 1..Len(t.todo) : t.todo[k] = d,
           t.pc \in {"merged", "drop"} => t.rows \subseteq activeDomains \cup t.on,
           t.pc = "drop" =>
               /\ \A d \in t.off : d \notin t.rows /\ \A g \in Feeds \ {t.source} : d \notin listed[g]
               /\ \A k \in 1..Len(t.todo) :
                     t.todo[k] \notin t.rows /\ \A g \in Feeds \ {t.source} : t.todo[k] \notin listed[g]
    PROVE  FeedDomainsActive' /\ ConsumerRows' /\ \A v \in Ingestors : ImportRows(v)' /\ ImportOrphans(v)'
  <1> USE MergeBounds
  <1>1. tx'[w] = t /\ \A v \in Writers : v # w => tx'[v] = tx[v]
    BY MergeTypes DEF MergeInv, Set
  <1>2. FeedDomainsActive'  BY DEF MergeInv, FeedDomainsActive
  <1>3. ConsumerRows'  BY <1>1 DEF MergeInv, ConsumerRows
  <1>4. ImportRows(w)'  BY <1>1 DEF ImportRows
  <1>5. ImportOrphans(w)'  BY <1>1 DEF ImportOrphans
  <1> QED  BY <1>2, <1>3, <1>4, <1>5

\* A step of sync-consumer: active domains are added, the feeds' rows stay.
LEMMA ConsumerMoves ==
    ASSUME MergeInv, \A v \in Ingestors : tx'[v] = tx[v], ConsumerRows',
           activeDomains \subseteq activeDomains', \A g \in Feeds : listed'[g] = listed[g]
    PROVE  FeedDomainsActive' /\ ConsumerRows' /\ \A v \in Ingestors : ImportRows(v)' /\ ImportOrphans(v)'
  <1>1. FeedDomainsActive'  BY DEF MergeInv, FeedDomainsActive
  <1> QED  BY <1>1, ImportStays DEF MergeInv

LEMMA MergeStep ==
    ASSUME \A v, w \in Ingestors : v = w, MergeInv, MergeNext
    PROVE  MergeInv'
  <1> USE MergeBounds
  <1> DEFINE Kept == /\ FeedDomainsActive' /\ ConsumerRows'
                     /\ \A v \in Ingestors : ImportRows(v)' /\ ImportOrphans(v)'
  <1>1. MergeTypeOK'  BY MergeTypeStep DEF MergeInv
  <1>2. /\ listed \in [Sources -> SUBSET Names]
        /\ \A w \in Writers : tx[w] \in MergeTx
    BY MergeTypes DEF MergeInv
  <1>3. SUFFICES Kept  BY <1>1 DEF MergeInv
  <1>4. \A w \in Ingestors : ImportRows(w) /\ ImportOrphans(w)  BY DEF MergeInv
  <1>5. ASSUME NEW w \in Ingestors, BeginApply(w)  PROVE Kept
    <2> PICK f \in Feeds, list \in SUBSET Names : \E order \in SetToSeqs(list) :
             Set(w, [NoTransaction EXCEPT !.pc = "merge", !.source = f, !.list = list,
                                                !.todo = order, !.rows = listed[f]])
      BY <1>5 DEF BeginApply
    <2>1. PICK order \in SetToSeqs(list) :
             Set(w, [NoTransaction EXCEPT !.pc = "merge", !.source = f, !.list = list,
                                                !.todo = order, !.rows = listed[f]])
      OBVIOUS
    <2> DEFINE t == [NoTransaction EXCEPT !.pc = "merge", !.source = f, !.list = list,
                                             !.todo = order, !.rows = listed[f]]
    <2>2. \A d \in list : \E k \in 1..Len(order) : order[k] = d  BY OrderType
    <2>3. /\ t.pc = "merge" /\ t.source = f /\ t.list = list
          /\ t.todo = order /\ t.rows = listed[f] /\ t.off = {}
      BY DEF NoTransaction
    <2>4. t.rows \subseteq activeDomains  BY <2>3 DEF MergeInv, FeedDomainsActive
    <2>5. Set(w, t) /\ UNCHANGED <<activeDomains, listed>>  BY <1>5, <2>1 DEF BeginApply
    <2> HIDE DEF t
    <2> QED  BY <2>2, <2>3, <2>4, <2>5, ImportMoves
  <1>6. ASSUME NEW w \in Ingestors, MergeDomain(w)  PROVE Kept
    <2> DEFINE t == [tx[w] EXCEPT !.todo = Tail(@), !.on = @ \cup {Head(tx[w].todo)}]
    <2>1. Set(w, t) /\ tx[w].todo # <<>> /\ tx[w].pc = "merge" /\ UNCHANGED <<activeDomains, listed>>
      BY <1>6 DEF MergeDomain
    <2>2. /\ t.pc = "merge" /\ t.source = tx[w].source /\ t.list = tx[w].list /\ t.rows = tx[w].rows
          /\ t.off = tx[w].off /\ t.todo = Tail(tx[w].todo) /\ t.on = tx[w].on \cup {Head(tx[w].todo)}
      BY <1>2, <2>1 DEF MergeTx
    <2> HIDE DEF t
    <2>3. \A d \in t.list : d \in t.on \/ \E k \in 1..Len(t.todo) : t.todo[k] = d
      <3>1. tx[w].todo \in Seq(Names)  BY <1>2 DEF MergeTx
      <3> SUFFICES ASSUME NEW d \in tx[w].list, d \notin t.on
                   PROVE  \E k \in 1..Len(t.todo) : t.todo[k] = d
        BY <2>2
      <3>2. PICK k \in 1..Len(tx[w].todo) : tx[w].todo[k] = d  BY <1>4, <2>1, <2>2 DEF ImportRows
      <3>3. k # 1  BY <2>1, <2>2, <3>1, <3>2, TodoType
      <3> DEFINE rest == Tail(tx[w].todo)
      <3>4. k - 1 \in 1..Len(rest) /\ rest[k - 1] = d  BY <2>1, <3>1, <3>2, <3>3, TodoType
      <3>5. t.todo = rest  BY <2>2
      <3> HIDE DEF rest
      <3> QED  BY <3>4, <3>5
    <2> QED  BY <1>4, <2>1, <2>2, <2>3, ImportMoves DEF ImportRows
  <1>7. ASSUME NEW w \in Ingestors, MergeSources(w)  PROVE Kept
    <2>1. PICK old \in SUBSET (tx[w].rows \ tx[w].list) :
             Set(w, [tx[w] EXCEPT !.pc = "merged", !.rows = (@ \cup tx[w].list) \ old])
      BY <1>7 DEF MergeSources
    <2> DEFINE t == [tx[w] EXCEPT !.pc = "merged", !.rows = (@ \cup tx[w].list) \ old]
    <2>2. tx[w].pc = "merge" /\ tx[w].todo = <<>> /\ UNCHANGED <<activeDomains, listed>>
      BY <1>7 DEF MergeSources
    <2>3. /\ t.pc = "merged" /\ t.source = tx[w].source /\ t.on = tx[w].on /\ t.off = tx[w].off
          /\ t.rows = (tx[w].rows \cup tx[w].list) \ old
      BY <1>2 DEF MergeTx
    <2>4. Set(w, t)  BY <2>1
    <2> HIDE DEF t
    <2>5. tx[w].list \subseteq tx[w].on
      <3>1. Len(tx[w].todo) = 0  BY <2>2
      <3> QED  BY <1>4, <2>2, <3>1 DEF ImportRows
    <2>6. t.rows \subseteq activeDomains \cup t.on  BY <1>4, <2>2, <2>3, <2>5 DEF ImportRows
    <2> QED  BY <1>4, <2>2, <2>3, <2>4, <2>6, ImportMoves DEF ImportRows
  <1>8. ASSUME NEW w \in Ingestors, FindOrphans(w)  PROVE Kept
    <2> DEFINE orphans == {d \in SeenActive(w) : \A s \in Sources : d \notin SeenListed(w, s)}
    <2>1. tx[w] \in MergeTx /\ activeDomains \subseteq Names  BY <1>2 DEF MergeInv, MergeTypeOK
    <2>2. orphans \in SUBSET Names  BY <2>1 DEF SeenActive, MergeTx
    <2>3. PICK order \in SetToSeqs(orphans) : Set(w, [tx[w] EXCEPT !.pc = "drop", !.todo = order])
      BY <1>8 DEF FindOrphans
    <2> DEFINE t == [tx[w] EXCEPT !.pc = "drop", !.todo = order]
    <2>4. tx[w].pc = "merged" /\ UNCHANGED <<activeDomains, listed>>  BY <1>8 DEF FindOrphans
    <2>5. /\ t.pc = "drop" /\ t.source = tx[w].source /\ t.on = tx[w].on /\ t.off = tx[w].off
          /\ t.rows = tx[w].rows /\ t.todo = order
      BY <2>1 DEF MergeTx
    <2>6. Set(w, t)  BY <2>3
    <2>7. \A k \in 1..Len(order) :
             order[k] \notin tx[w].rows /\ \A g \in Feeds \ {tx[w].source} : order[k] \notin listed[g]
      <3>1. order \in Seq(orphans)  BY <2>2, OrderType
      <3> SUFFICES ASSUME NEW k \in 1..Len(order)
                   PROVE  /\ order[k] \notin tx[w].rows
                          /\ \A g \in Feeds \ {tx[w].source} : order[k] \notin listed[g]
        OBVIOUS
      <3>2. order[k] \in orphans  BY <3>1
      <3>3. \A s \in Sources : order[k] \notin SeenListed(w, s)  BY <3>2
      <3>4. tx[w].source \in Sources  BY <2>1 DEF MergeTx
      <3> QED  BY <3>3, <3>4 DEF SeenListed
    <2> HIDE DEF t, orphans
    <2> QED  BY <1>4, <2>4, <2>5, <2>6, <2>7, ImportMoves DEF ImportRows
  <1>9. ASSUME NEW w \in Ingestors, DropDomain(w)  PROVE Kept
    <2> DEFINE d == Head(tx[w].todo)
               t == IF d \in SeenActive(w)
                    THEN [tx[w] EXCEPT !.todo = Tail(@), !.on = @ \ {d}, !.off = @ \cup {d}]
                    ELSE [tx[w] EXCEPT !.todo = Tail(@)]
    <2>1. tx[w].pc = "drop" /\ tx[w].todo # <<>> /\ Set(w, t) /\ UNCHANGED <<activeDomains, listed>>
      BY <1>9 DEF DropDomain
    <2>2. tx[w].todo \in Seq(Names)  BY <1>2 DEF MergeTx
    <2>3. /\ t.pc = "drop" /\ t.source = tx[w].source /\ t.rows = tx[w].rows /\ t.todo = Tail(tx[w].todo)
          /\ tx[w].on \ {d} \subseteq t.on /\ t.off \subseteq tx[w].off \cup {d}
      BY <1>2, <2>1 DEF MergeTx
    <2> HIDE DEF t
    <2>4. d \notin tx[w].rows /\ \A g \in Feeds \ {tx[w].source} : d \notin listed[g]
      BY <1>4, <2>1, <2>2, TodoType DEF ImportOrphans
    <2>5. t.rows \subseteq activeDomains \cup t.on  BY <1>4, <2>1, <2>3, <2>4 DEF ImportRows
    <2>6. \A e \in t.off : e \notin t.rows /\ \A g \in Feeds \ {t.source} : e \notin listed[g]
      BY <1>4, <2>1, <2>3, <2>4 DEF ImportOrphans
    <2>7. \A k \in 1..Len(t.todo) :
             t.todo[k] \notin t.rows /\ \A g \in Feeds \ {t.source} : t.todo[k] \notin listed[g]
      BY <1>4, <2>1, <2>2, <2>3, TodoType DEF ImportOrphans
    <2> QED  BY <1>4, <2>1, <2>3, <2>5, <2>6, <2>7, ImportMoves DEF ImportRows
  <1>10. ASSUME NEW w \in Ingestors, Commit(w)  PROVE Kept
    <2>1. /\ tx[w].pc = "drop"
          /\ activeDomains' = SeenActive(w)
          /\ listed' = [listed EXCEPT ![tx[w].source] = tx[w].rows]
          /\ Set(w, NoTransaction)
      BY <1>4, <1>10 DEF Commit, ImportRows
    <2>2. tx[w].source \in Feeds /\ tx[w].rows \subseteq activeDomains \cup tx[w].on  BY <1>4, <2>1 DEF ImportRows
    <2>3. tx'[w] = NoTransaction /\ \A v \in Writers : v # w => tx'[v] = tx[v]
      BY <2>1, MergeTypes DEF MergeInv, Set
    <2>4. FeedDomainsActive'
      <3> SUFFICES ASSUME NEW g \in Feeds, NEW d \in listed'[g]  PROVE d \in activeDomains'
        BY DEF FeedDomainsActive
      <3>1. CASE g = tx[w].source
        <4>1. d \in tx[w].rows  BY <1>2, <2>1, <3>1
        <4>2. d \notin tx[w].off  BY <1>4, <2>1, <4>1 DEF ImportOrphans
        <4> QED  BY <2>1, <2>2, <4>1, <4>2 DEF SeenActive
      <3>2. CASE g # tx[w].source
        <4>1. d \in listed[g]  BY <1>2, <2>1, <3>2
        <4>2. d \notin tx[w].off  BY <1>4, <2>1, <3>2, <4>1 DEF ImportOrphans
        <4>3. d \in activeDomains  BY <4>1 DEF MergeInv, FeedDomainsActive
        <4> QED  BY <2>1, <4>2, <4>3 DEF SeenActive
      <3> QED  BY <3>1, <3>2
    <2>5. ConsumerRows'  BY <2>3 DEF MergeInv, ConsumerRows
    <2>6. ImportRows(w)' /\ ImportOrphans(w)'
      BY <2>3 DEF ImportRows, ImportOrphans, NoTransaction
    <2> QED  BY <2>4, <2>5, <2>6
  <1>11. ASSUME NEW w \in Ingestors, Fail(w) \/ Deadlock(w)  PROVE Kept
    <2>1. Set(w, NoTransaction) /\ UNCHANGED <<activeDomains, listed>>
      BY <1>11 DEF Fail, Deadlock
    <2>2. NoTransaction.pc = "idle"  BY DEF NoTransaction
    <2> QED  BY <2>1, <2>2, ImportMoves
  <1> DEFINE c == Consumer
  <1>12. ASSUME NEW t, Set(c, t)
         PROVE  tx'[c] = t /\ \A v \in Ingestors : tx'[v] = tx[v]
    BY <1>12, MergeTypes DEF MergeInv, Set
  <1>13. CASE BeginUpsert
    <2> PICK list \in SUBSET Names : \E order \in SetToSeqs(list) :
             Set(c, [NoTransaction EXCEPT !.pc = "upsert", !.list = list,
                                     !.todo = order, !.rows = listed[OpenCTI]])
      BY <1>13 DEF BeginUpsert
    <2>1. PICK order \in SetToSeqs(list) :
             Set(c, [NoTransaction EXCEPT !.pc = "upsert", !.list = list,
                                     !.todo = order, !.rows = listed[OpenCTI]])
      OBVIOUS
    <2> DEFINE t == [NoTransaction EXCEPT !.pc = "upsert", !.list = list,
                                             !.todo = order, !.rows = listed[OpenCTI]]
    <2>2. t.pc = "upsert" /\ t.source = OpenCTI /\ t.off = {}  BY DEF NoTransaction
    <2>3. Set(c, t)  BY <2>1
    <2> HIDE DEF t
    <2>4. ConsumerRows'  BY <1>12, <2>2, <2>3 DEF ConsumerRows
    <2>5. \A v \in Ingestors : tx'[v] = tx[v]  BY <1>12, <2>3
    <2> QED  BY <1>13, <2>4, <2>5, ConsumerMoves DEF BeginUpsert
  <1>14. CASE DeleteOpenCTI
    <2>1. UNCHANGED <<activeDomains, tx>> /\ \A g \in Feeds : listed'[g] = listed[g]
      BY <1>2, <1>14 DEF DeleteOpenCTI
    <2>2. ConsumerRows'  BY <2>1 DEF MergeInv, ConsumerRows
    <2> QED  BY <2>1, <2>2, ConsumerMoves
  <1>15. CASE UpsertDomain
    <2> DEFINE t == [tx[c] EXCEPT !.todo = Tail(@), !.on = @ \cup {Head(tx[c].todo)},
                                  !.rows = @ \cup {Head(tx[c].todo)}]
    <2>1. Set(c, t) /\ UNCHANGED <<activeDomains, listed>>  BY <1>15 DEF UpsertDomain
    <2>2. t.pc = tx[c].pc /\ t.source = tx[c].source /\ t.off = tx[c].off  BY <1>2 DEF MergeTx
    <2> HIDE DEF t
    <2>3. ConsumerRows'  BY <1>12, <2>1, <2>2 DEF MergeInv, ConsumerRows
    <2> QED  BY <1>12, <2>1, <2>3, ConsumerMoves
  <1>16. CASE Commit(c)
    <2>1. /\ activeDomains' = SeenActive(c)
          /\ listed' = [listed EXCEPT ![tx[c].source] = tx[c].rows]
          /\ Set(c, NoTransaction)
      BY <1>16 DEF Commit
    <2>2. tx[c].source = OpenCTI /\ tx[c].off = {}  BY DEF MergeInv, ConsumerRows
    <2>3. activeDomains \subseteq activeDomains'  BY <2>1, <2>2 DEF SeenActive
    <2>4. \A g \in Feeds : listed'[g] = listed[g]  BY <1>2, <2>1, <2>2
    <2>5. ConsumerRows'  BY <1>12, <2>1 DEF ConsumerRows, NoTransaction
    <2> QED  BY <1>12, <2>1, <2>3, <2>4, <2>5, ConsumerMoves
  <1>17. CASE Fail(c) \/ Deadlock(c)
    <2>1. Set(c, NoTransaction) /\ UNCHANGED <<activeDomains, listed>>
      BY <1>17 DEF Fail, Deadlock
    <2>2. tx'[c] = NoTransaction /\ \A v \in Ingestors : tx'[v] = tx[v]  BY <1>12, <2>1
    <2>3. ConsumerRows'  BY <2>2 DEF ConsumerRows, NoTransaction
    <2> QED  BY <2>1, <2>2, <2>3, ConsumerMoves
  <1>18. Writers = Ingestors \cup {c}  BY DEF Writers
  <1>19. ASSUME NEW w \in Writers, Write(w) \/ Fail(w) \/ Deadlock(w)  PROVE Kept
    <2>1. CASE w \in Ingestors
      <3>1. w # c  BY <2>1
      <3> QED  BY <1>6, <1>7, <1>8, <1>9, <1>10, <1>11, <1>19, <2>1, <3>1 DEF Write
    <2>2. CASE w = c
      <3>1. w \notin Ingestors  BY <2>2
      <3> QED  BY <1>15, <1>16, <1>17, <1>19, <2>2, <3>1 DEF Write
    <2> QED  BY <1>18, <2>1, <2>2
  <1> QED  BY <1>5, <1>13, <1>14, <1>19 DEF MergeNext

\* What a feed lists is active, whatever sync-consumer writes, commits or switches
\* off between the statements of the import (store.go, applyMerge; opencti.go), as
\* long as imports do not overlap: with two of them the theorem is false, since the
\* second one's orphans are found before the first one commits.
THEOREM FeedRowsAreActive ==
    ASSUME \A v, w \in Ingestors : v = w
    PROVE  MergeSpec => []FeedDomainsActive
  <1>1. MergeInit => MergeInv  BY MergeInitInv
  <1>2. MergeInv /\ [MergeNext]_mergeVars => MergeInv'
    <2>1. MergeInv /\ UNCHANGED mergeVars => MergeInv'
      BY DEF MergeInv, MergeTypeOK, FeedDomainsActive, ImportRows, ImportOrphans, ConsumerRows, mergeVars
    <2> QED  BY <2>1, MergeStep
  <1>3. MergeInv => FeedDomainsActive  BY DEF MergeInv
  <1> QED  BY <1>1, <1>2, <1>3, PTL DEF MergeSpec
=============================================================================
