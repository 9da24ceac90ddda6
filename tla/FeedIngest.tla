------------------------------ MODULE FeedIngest ------------------------------
(***************************************************************************)
(* feed-ingestor: one direct source and its imports (internal/ingest,      *)
(* internal/feed, Apply in internal/store/store.go).  The feed's server is *)
(* the environment: its list changes, answers fail or break off.  A        *)
(* service instance runs one import at a time; the request, the reading of *)
(* the body and every transaction are steps.  Times are kept as ages,      *)
(* which grow with Tick and stop to count where no comparison can tell.    *)
(***************************************************************************)
EXTENDS Naturals, FiniteSets, FiniteSetsExt

CONSTANTS
    Domains,        \* normalized rules
    Repeats,        \* bound on the lines of a feed that repeat a rule
    Wordings,       \* feeds with the same rules, and as many lines, that differ
                    \* in order or comments
    Elsewhere,      \* domains that another source has active rows on
    Instances,      \* processes of feed-ingestor
    Grace,          \* the source's grace period, in ticks
    Patience,       \* ticks an import takes at most, from the start of its job
    MinSample,      \* MinSampleForRatios
    MaxAttempts,    \* of one Fetch
    MaxChanges,     \* bound on the changes of the feed
    Faults,         \* which of FaultKinds happen
    MaxFaults       \* bound on their number

\* An attempt that may be retried; one that may not; a body that breaks off; a
\* feed that is rejected for what else it holds (a bare TLD, binary data, too many
\* bad lines or public suffixes); an Apply that fails; one that commits and is not
\* told so; a FinishImport that fails; a crash.
FaultKinds == {"retry", "refuse", "break", "garbage", "apply", "commit", "finish", "crash"}

ASSUME IngestAssumption ==
    /\ IsFiniteSet(Domains) /\ Elsewhere \subseteq Domains
    /\ Repeats \in Nat /\ Wordings \in Nat \ {0}
    /\ Grace \in Nat /\ Patience \in Nat /\ MinSample \in Nat
    /\ MaxAttempts \in Nat \ {0} /\ MaxChanges \in Nat /\ MaxFaults \in Nat
    /\ Faults \subseteq FaultKinds

VARIABLES
    feed,       \* what the server has: rules, the lines that give them, wording
    rows,       \* domain_sources of this source: None, "active" or "inactive"
    age,        \* time since last_seen of each row
    active,     \* domains whose domains.active is set
    evidence,   \* domains with a line of domain_evidence by this source
    last,       \* the feed of the latest completed import, or NoFeed
    import,     \* import[s]: the import instance s is running
    sinceListed,\* history: time since an import found the domain listed
    changes, faults

database == <<rows, age, active, evidence, last>>
vars == <<feed, database, import, sinceListed, changes, faults>>

None == "no row"
Oldest == Grace + Patience + 1  \* ages from here on are alike
Feed == [rules : SUBSET Domains, lines : Nat, wording : 0..Wordings]
NoFeed == [rules |-> {}, lines |-> 0, wording |-> 0]
NoImport == [pc |-> "idle", prev |-> NoFeed, attempt |-> 0, started |-> 0,
             got |-> NoFeed, whole |-> FALSE, listed |-> {}]

\* What a server may have.  Two of these are equal if they are the same bytes (feed_hash).
Lines(rules) ==
    IF rules = {} THEN {0} ELSE Cardinality(rules)..(Cardinality(rules) + Repeats)
Published ==
    UNION {[rules : {rules}, lines : Lines(rules), wording : 1..Wordings] :
             rules \in SUBSET Domains}

Init ==
    /\ feed \in Published /\ feed.rules # {}
    /\ rows = [d \in Domains |-> None]
    /\ age = [d \in Domains |-> Oldest]
    /\ active = Elsewhere
    /\ evidence = {}
    /\ last = NoFeed
    /\ import = [s \in Instances |-> NoImport]
    /\ sinceListed = [d \in Domains |-> Oldest]
    /\ changes = 0
    /\ faults = 0

-----------------------------------------------------------------------------
(* The feed and the clock.                                                 *)

Change ==
    /\ changes < MaxChanges
    /\ changes' = changes + 1
    /\ feed' \in Published \ {feed}
    /\ UNCHANGED <<database, import, sinceListed, faults>>

Older(t) == Min({t + 1, Oldest})

Tick ==
    /\ \A s \in Instances : import[s].pc # "idle" => import[s].started < Patience
    /\ age' = [d \in Domains |-> Older(age[d])]
    /\ sinceListed' = [d \in Domains |-> Older(sinceListed[d])]
    /\ import' = [s \in Instances |->
                    IF import[s].pc = "idle" THEN NoImport
                    ELSE [import[s] EXCEPT !.started = @ + 1]]
    /\ UNCHANGED <<feed, rows, active, evidence, last, changes, faults>>

-----------------------------------------------------------------------------
(* Ingestor.One.                                                           *)

Fault(kind) ==
    /\ kind \in Faults
    /\ faults < MaxFaults
    /\ faults' = faults + 1

Goto(s, import2) == import' = [import EXCEPT ![s] = import2]
End(s) == Goto(s, NoImport)

\* LastSuccessfulImport and BeginImport.  The job has started some time ago: the
\* sources before this one had their turn.
Begin(s) ==
    /\ import[s].pc = "idle"
    /\ \E started \in 0..Patience :
        Goto(s, [NoImport EXCEPT !.pc = "fetch", !.prev = last, !.attempt = 1,
                                 !.started = started])
    /\ UNCHANGED <<feed, database, sinceListed, changes, faults>>

\* An import that ends as completed or unchanged has found this list.
Found(list) == sinceListed' = [d \in Domains |-> IF d \in list THEN 0 ELSE sinceListed[d]]

\* 304: the feed is the one of the latest completed import.
NotModified(s) ==
    /\ import[s].pc = "fetch"
    /\ import[s].prev # NoFeed
    /\ feed = import[s].prev
    /\ End(s)
    /\ Found(feed.rules)
    /\ UNCHANGED <<feed, database, changes, faults>>

\* What can be read of a body that breaks off.
Part(f) == [rules : SUBSET f.rules, lines : 0..f.lines, wording : {f.wording}]

\* 200, with the whole body, or with one that breaks off, or with garbage.
Download(s) ==
    /\ import[s].pc = "fetch"
    /\ \/ Goto(s, [import[s] EXCEPT !.pc = "read", !.got = feed, !.whole = TRUE,
                                    !.listed = feed.rules])
          /\ UNCHANGED faults
       \/ /\ Fault("break")
          /\ \E part \in Part(feed) :
                Goto(s, [import[s] EXCEPT !.pc = "read", !.got = part, !.listed = feed.rules])
       \/ /\ Fault("garbage")
          /\ End(s)
    /\ UNCHANGED <<feed, database, sinceListed, changes>>

\* A network error, 429 or 5xx: again after a backoff, MaxAttempts in all; any
\* other status ends the import.
FailAttempt(s) ==
    /\ import[s].pc = "fetch"
    /\ \/ /\ Fault("retry")
          /\ IF import[s].attempt < MaxAttempts
             THEN Goto(s, [import[s] EXCEPT !.attempt = @ + 1])
             ELSE End(s)
       \/ Fault("refuse") /\ End(s)
    /\ UNCHANGED <<feed, database, sinceListed, changes>>

Distance(m, n) == IF m < n THEN n - m ELSE m - n

\* Variant: a large change is only noticed when the list grows.
ValidGrowth(list, prev) ==
    /\ list.lines > 0
    /\ prev.lines >= MinSample =>
          list.lines < prev.lines \/ 2 * Distance(list.lines, prev.lines) <= prev.lines

\* Validate: not empty, and not too far from the list before (MaxChangeRatio is
\* a half), where a rule counts each time it is listed (stats.Accepted); a first
\* list, or one after a short one, may be of any length.
Valid(list, prev) ==
    /\ list.lines > 0
    /\ prev.lines >= MinSample => 2 * Distance(list.lines, prev.lines) <= prev.lines

\* Variant: a body that broke off is judged by what there is of it.
JudgePart(s) ==
    /\ import[s].pc = "read"
    /\ LET i == import[s] IN
       IF ~Valid(i.got, i.prev)
       THEN End(s) /\ UNCHANGED sinceListed
       ELSE IF i.got = i.prev
       THEN End(s) /\ Found(i.listed)
       ELSE Goto(s, [i EXCEPT !.pc = "apply"]) /\ UNCHANGED sinceListed
    /\ UNCHANGED <<feed, database, changes, faults>>

\* Variant: lists of the same length are taken for the same.
JudgeLength(s) ==
    /\ import[s].pc = "read"
    /\ LET i == import[s] IN
       IF ~i.whole \/ ~Valid(i.got, i.prev)
       THEN End(s) /\ UNCHANGED sinceListed
       ELSE IF i.got.lines = i.prev.lines
       THEN End(s) /\ Found(i.listed)
       ELSE Goto(s, [i EXCEPT !.pc = "apply"]) /\ UNCHANGED sinceListed
    /\ UNCHANGED <<feed, database, changes, faults>>

\* After the body: rejected, unchanged (the same hash), or to be applied.
Judge(s) ==
    /\ import[s].pc = "read"
    /\ LET i == import[s] IN
       IF ~i.whole \/ ~Valid(i.got, i.prev)
       THEN End(s) /\ UNCHANGED sinceListed
       ELSE IF i.got = i.prev
       THEN End(s) /\ Found(i.listed)
       ELSE Goto(s, [i EXCEPT !.pc = "apply"]) /\ UNCHANGED sinceListed
    /\ UNCHANGED <<feed, database, changes, faults>>

\* Variant: a domain is judged by the rows of this source alone.
MergeAlone(i) ==
    LET seen == [d \in Domains |-> IF d \in i.got.rules THEN Min({age[d], i.started}) ELSE age[d]]
        kept == [d \in Domains |->
                   IF d \in i.got.rules THEN "active"
                   ELSE IF rows[d] = "active" /\ seen[d] > Grace + i.started THEN "inactive"
                   ELSE rows[d]]
    IN  /\ age' = seen
        /\ rows' = kept
        /\ active' = {d \in active \cup i.got.rules : kept[d] # "inactive"}
        /\ evidence' = evidence \cup i.got.rules

\* applyMerge: what is listed is active and seen at the start of the job, or
\* later; what has not been seen for the grace period is not; a domain without
\* an active row of any source is inactive too.
Merge(i) ==
    LET seen == [d \in Domains |-> IF d \in i.got.rules THEN Min({age[d], i.started}) ELSE age[d]]
        kept == [d \in Domains |->
                   IF d \in i.got.rules THEN "active"
                   ELSE IF rows[d] = "active" /\ seen[d] > Grace + i.started THEN "inactive"
                   ELSE rows[d]]
    IN  /\ age' = seen
        /\ rows' = kept
        /\ active' = {d \in active \cup i.got.rules : kept[d] = "active" \/ d \in Elsewhere}
        /\ evidence' = evidence \cup i.got.rules

Apply(s) ==
    /\ import[s].pc = "apply"
    /\ Merge(import[s])
    /\ Goto(s, [import[s] EXCEPT !.pc = "applied"])
    /\ UNCHANGED <<feed, last, sinceListed, changes, faults>>

\* The transaction is rolled back, or committed behind a broken connection: in
\* both cases the import is marked failed.
FailApply(s) ==
    /\ import[s].pc = "apply"
    /\ \/ Fault("apply") /\ UNCHANGED <<rows, age, active, evidence>>
       \/ Fault("commit") /\ Merge(import[s])
    /\ End(s)
    /\ UNCHANGED <<feed, last, sinceListed, changes>>

\* FinishImport "completed": this list is what the next import compares with.
Finish(s) ==
    /\ import[s].pc = "applied"
    /\ last' = import[s].got
    /\ Found(import[s].listed)
    /\ End(s)
    /\ UNCHANGED <<feed, rows, age, active, evidence, changes, faults>>

\* It fails: the import stays 'running'.
FailFinish(s) ==
    /\ import[s].pc = "applied"
    /\ Fault("finish")
    /\ End(s)
    /\ UNCHANGED <<feed, database, sinceListed, changes>>

Crash(s) ==
    /\ import[s].pc # "idle"
    /\ Fault("crash")
    /\ End(s)
    /\ UNCHANGED <<feed, database, sinceListed, changes>>

One(s) ==
    Begin(s) \/ NotModified(s) \/ Download(s) \/ Judge(s) \/ Apply(s) \/ Finish(s)

Next ==
    \/ Change \/ Tick
    \/ \E s \in Instances :
        One(s) \/ FailAttempt(s) \/ FailApply(s) \/ FailFinish(s) \/ Crash(s)

Spec == Init /\ [][Next]_vars

\* The loop runs its jobs on a schedule, and time passes.
FairSpec == Spec /\ WF_vars(Tick) /\ \A s \in Instances : WF_vars(One(s))

-----------------------------------------------------------------------------
(* Properties.                                                             *)

TypeOK ==
    /\ feed \in Feed /\ last \in Feed
    /\ rows \in [Domains -> {None, "active", "inactive"}]
    /\ age \in [Domains -> 0..Oldest]
    /\ active \subseteq Domains /\ evidence \subseteq Domains
    /\ import \in [Instances ->
          [pc : {"idle", "fetch", "read", "apply", "applied"}, prev : Feed,
           attempt : 0..MaxAttempts, started : 0..Patience, got : Feed,
           whole : BOOLEAN, listed : SUBSET Domains]]
    /\ sinceListed \in [Domains -> 0..Oldest]
    /\ changes \in 0..MaxChanges /\ faults \in 0..MaxFaults

\* L0 and L1 only change by whole lists: all that the server listed becomes
\* active, and nothing it did not list ("không bao giờ có trạng thái import một
\* nửa", package ingest).
NothingByHalves ==
    [][rows' # rows \/ evidence' # evidence =>
         \E s \in Instances :
            /\ \A d \in import[s].listed : rows'[d] = "active" /\ d \in evidence'
            /\ \A d \in Domains : rows'[d] = "active" => d \in import[s].listed
                                                         \/ rows[d] = "active"]_vars

\* The lists of two completed imports in a row differ in lines by at most half of
\* the first, once that is long enough: neither a feed that has lost most of
\* its content nor one that has exploded gets through (Validate).
NoLargeChange ==
    [][last' # last /\ last.lines >= MinSample =>
         2 * last'.lines >= last.lines /\ 2 * last'.lines <= 3 * last.lines]_vars

\* A domain is active exactly as long as some source has an active row on it: what
\* this feed drops stays active for the others (A4, A5).
ActiveIffListed == active = {d \in Domains : rows[d] = "active"} \cup Elsewhere

\* An import that ends well, completed or unchanged, leaves every domain that the
\* server listed active ("Nội dung y hệt lần trước: không cần ghi lại gì cả", One).
ListedIsActive ==
    [][\A d \in Domains : sinceListed'[d] = 0 /\ sinceListed[d] # 0 => rows'[d] = "active"]_vars

\* A domain is not dropped before the grace period has passed since an import
\* last found it listed ("domain biến mất rồi quay lại giữa hai lần refresh không
\* được rời khỏi blocklist", applyMerge).
GraceKept ==
    [][\A d \in Domains :
         rows[d] = "active" /\ rows'[d] = "inactive" => sinceListed[d] + Patience > Grace]_vars

\* An import that does not end as completed has written nothing ("mọi đường thoát
\* lỗi đều KHÔNG ghi gì vào L0/L1", package ingest).
FailureWritesNothing ==
    [][\A s \in Instances :
         import[s].pc # "idle" /\ import'[s].pc = "idle" /\ last' # import[s].got =>
            import[s].pc # "applied" /\ UNCHANGED <<rows, active, evidence>>]_vars

\* A domain the feed has dropped for good leaves, sooner or later.
DroppedLeaves ==
    \A d \in Domains : <>[](d \notin feed.rules) => <>[](rows[d] # "active")

\* What the feed lists for good becomes active and stays so, as long as its list
\* is not one that the service takes for damaged: only a person who looks into the
\* rejected imports can end that, for the baseline moves with completed imports.
ListedArrives ==
    \A d \in Domains : <>[](d \in feed.rules /\ Valid(feed, last)) => <>[](rows[d] = "active")
=============================================================================
