---------------------------- MODULE PolicyPipeline ----------------------------
(***************************************************************************)
(* From evidence to published lists: policy-engine (cmd/policy-engine,     *)
(* internal/store/policyrun.go) turns L1 into the decision table, and      *)
(* blocklist-generator (internal/builder) turns that table into one set of *)
(* list files per tenant.  They are two processes that meet in PostgreSQL  *)
(* only; every query or transaction is a step.  Publication is the atomic  *)
(* one of AtomicPublish, which SnapshotStore implements.                   *)
(*                                                                         *)
(* L1 is the environment: verdict[p] is what Evaluate's ladder, below the  *)
(* protected allowlist, makes of the active evidence of p.                 *)
(***************************************************************************)
EXTENDS Naturals, FiniteSets

CONSTANTS
    Domains, Categories,
    Position,   \* Categories -> Nat, the order of "ORDER BY name"
    Tenants,
    Subscribed, \* Subscribed[t]: the categories of tenant t
    Allowed,    \* Allowed[t]: domains the tenant's allowlist matches
    Denied,     \* Denied[t][c]: domains t adds to category c, or to AnyCategory
    Shielded,   \* domains whose protected allowlist entry is never removed
    Anchor,     \* pairs whose evidence is never withdrawn
    MaxEdits,   \* bound on the changes to L1 and to the allowlist
    Faults,     \* which of FaultKinds happen
    MaxFaults   \* bound on their number

AnyCategory == "any category"   \* the category of a denylist row without one
All == "all"                    \* all.txt
None == "none"                  \* no row

\* A policy run that fails before it commits; one that commits and is not told
\* so, or cannot record its end; a crash of the engine; a build that fails; a
\* crash of the generator.
FaultKinds == {"run", "commit", "finish", "engine", "build", "generator"}

Pairs == Domains \X Categories

ASSUME PipelineAssumption ==
    /\ Position \in [Categories -> Nat]
    /\ \A b, c \in Categories : Position[b] = Position[c] => b = c
    /\ Subscribed \in [Tenants -> SUBSET Categories]
    /\ Allowed \in [Tenants -> SUBSET Domains]
    /\ Denied \in [Tenants -> [Categories \cup {AnyCategory} -> SUBSET Domains]]
    /\ Shielded \subseteq Domains
    /\ Anchor \subseteq Pairs
    /\ AnyCategory \notin Categories /\ All \notin Categories
    /\ MaxEdits \in Nat /\ MaxFaults \in Nat

VARIABLES
    verdict,    \* L1, per domain and category: None, "MONITOR" or "BLOCK"
    active,     \* domains whose domains.active is set
    protected,  \* domains the protected allowlist matches
    engine,     \* the policy run of the engine
    decisions,  \* domain_decisions: the action of each row, or None
    recorded,   \* decision_changes: new_action of the latest row, or None
    committed,  \* the run that wrote decisions is marked completed
    completed,  \* some run is marked completed (CurrentPolicyRun # 0)
    build,      \* the build of the generator
    offered, published, \* the publication, as in AtomicPublish
    edits, faults,
    wasBlocked, \* history: pairs whose verdict has been "BLOCK"
    reading     \* history: what the build has met while it read the table

environment == <<verdict, active, protected, edits, wasBlocked>>
table == <<decisions, recorded, committed, completed>>
generator == <<build, offered, published, reading>>
vars == <<environment, engine, table, generator, faults>>

Actions == {"ALLOW", "MONITOR", "BLOCK"}
NoDecisions == [p \in Pairs |-> None]
NoRules == [c \in Categories |-> {}]
NoRun == [pc |-> "idle", lists |-> {}, pending |-> NoDecisions, wrote |-> FALSE]
NoBuild == [pc |-> "idle", todo |-> {}, base |-> NoRules]
NoContent == [k \in {} |-> {}]
NothingRead == [torn |-> FALSE, unfinished |-> FALSE]

Keys == {k \in Tenants \X (Categories \cup {All}) : k[2] \in Subscribed[k[1]] \cup {All}}

AP == INSTANCE AtomicPublish WITH Contents <- [Keys -> SUBSET Domains]

Init ==
    /\ verdict \in [Pairs -> {None, "BLOCK"}]
    /\ \A p \in Pairs : verdict[p] = "BLOCK" <=> p \in Anchor
    /\ active = {p[1] : p \in Anchor}
    /\ protected = Shielded
    /\ engine = NoRun
    /\ decisions = NoDecisions
    /\ recorded = NoDecisions
    /\ committed = TRUE
    /\ completed = FALSE
    /\ build = NoBuild
    /\ AP!Init
    /\ edits = 0
    /\ faults = 0
    /\ wasBlocked = Anchor
    /\ reading = NothingRead

-----------------------------------------------------------------------------
(* L1 and the allowlist, as the other services leave them.                 *)

Edit ==
    /\ edits < MaxEdits
    /\ edits' = edits + 1
    /\ UNCHANGED <<engine, table, generator, faults>>

\* Apply or UpsertOpenCTI: the evidence of a pair now amounts to this verdict,
\* and its domain is active.
Report(p, v) ==
    /\ Edit
    /\ verdict[p] # v
    /\ verdict' = [verdict EXCEPT ![p] = v]
    /\ active' = active \cup {p[1]}
    /\ wasBlocked' = IF v = "BLOCK" THEN wasBlocked \cup {p} ELSE wasBlocked
    /\ UNCHANGED protected

\* The last active source row of a pair goes.  Apply then also deactivates a
\* domain without any; DeleteOpenCTI does not.
Withdraw(p) ==
    /\ Edit
    /\ verdict[p] # None
    /\ p \notin Anchor
    /\ verdict' = [verdict EXCEPT ![p] = None]
    /\ \/ UNCHANGED active
       \/ /\ \A c \in Categories : verdict'[<<p[1], c>>] = None
          /\ active' = active \ {p[1]}
    /\ UNCHANGED <<protected, wasBlocked>>

\* An admin adds or removes a protected entry, or one ends.
EditProtected(d) ==
    /\ Edit
    /\ d \notin Shielded
    /\ protected' = IF d \in protected THEN protected \ {d} ELSE protected \cup {d}
    /\ UNCHANGED <<verdict, active, wasBlocked>>

-----------------------------------------------------------------------------
(* policy-engine: runOnce.                                                 *)

Fault(kind) ==
    /\ kind \in Faults
    /\ faults < MaxFaults
    /\ faults' = faults + 1

BeginPolicyRun ==
    /\ engine.pc = "idle"
    /\ engine' = [NoRun EXCEPT !.pc = "begun"]
    /\ UNCHANGED <<environment, table, generator, faults>>

LoadLists ==
    /\ engine.pc = "begun"
    /\ engine' = [NoRun EXCEPT !.pc = "listed", !.lists = protected]
    /\ UNCHANGED <<environment, table, generator, faults>>

\* Variant: the protected allowlist loses to the score.
EvaluateScoreFirst(p, lists) ==
    IF verdict[p] = None \/ p[1] \notin active THEN None
    ELSE IF verdict[p] = "BLOCK" THEN "BLOCK"
    ELSE IF p[1] \in lists THEN "ALLOW"
    ELSE verdict[p]

\* One row of evidenceQuery's groups: nothing without active evidence, else the
\* ladder, the protected allowlist first.
Evaluate(p, lists) ==
    IF verdict[p] = None \/ p[1] \notin active THEN None
    ELSE IF p[1] \in lists THEN "ALLOW"
    ELSE verdict[p]

\* EvaluateAll, its query.
EvaluateAll ==
    /\ engine.pc = "listed"
    /\ engine' = [engine EXCEPT !.pc = "evaluated",
                                !.pending = [p \in Pairs |-> Evaluate(p, engine.lists)]]
    /\ UNCHANGED <<environment, table, generator, faults>>

\* Variants: decisions without evidence stay; a new row is not recorded.
MergeDecisions ==
    /\ decisions' = [p \in Pairs |-> IF engine.pending[p] = None THEN decisions[p]
                                     ELSE engine.pending[p]]
    /\ recorded' = [p \in Pairs |->
                      IF engine.pending[p] \in {None, decisions[p]} THEN recorded[p]
                      ELSE engine.pending[p]]

ReplaceUnrecorded ==
    /\ decisions' = engine.pending
    /\ recorded' = [p \in Pairs |->
                      IF engine.pending[p] \in {None, decisions[p]} \/ decisions[p] = None
                      THEN recorded[p]
                      ELSE engine.pending[p]]

\* The transaction: changed actions are recorded, rows upserted, and the rows of
\* pairs without a decision deleted.
ReplaceDecisions ==
    /\ decisions' = engine.pending
    /\ recorded' = [p \in Pairs |->
                      IF engine.pending[p] \in {None, decisions[p]} THEN recorded[p]
                      ELSE engine.pending[p]]

\* The table changes under a build that has read some categories and not others.
NoteChange ==
    reading' = [reading EXCEPT !.torn =
                  @ \/ /\ build.pc = "reading" /\ build.todo # Categories
                       /\ decisions' # decisions]

\* writeDecisions: without decisions it returns before the transaction.
WriteDecisions ==
    /\ engine.pc = "evaluated"
    /\ IF engine.pending = NoDecisions
       THEN UNCHANGED table /\ engine' = [engine EXCEPT !.pc = "written"]
       ELSE /\ ReplaceDecisions
            /\ committed' = FALSE
            /\ engine' = [engine EXCEPT !.pc = "written", !.wrote = TRUE]
            /\ UNCHANGED completed
    /\ NoteChange
    /\ UNCHANGED <<environment, build, offered, published, faults>>

\* FinishPolicyRun "completed".
FinishPolicyRun ==
    /\ engine.pc = "written"
    /\ committed' = (committed \/ engine.wrote)
    /\ completed' = TRUE
    /\ engine' = NoRun
    /\ UNCHANGED <<environment, decisions, recorded, generator, faults>>

\* A query fails, or the transaction rolls back: the run is marked failed.
FailRun ==
    /\ engine.pc \in {"begun", "listed", "evaluated"}
    /\ Fault("run")
    /\ engine' = NoRun
    /\ UNCHANGED <<environment, table, generator>>

\* The connection is lost during COMMIT: it took effect, the run is marked failed.
LoseCommit ==
    /\ engine.pc = "evaluated"
    /\ engine.pending # NoDecisions
    /\ Fault("commit")
    /\ ReplaceDecisions
    /\ committed' = FALSE
    /\ engine' = NoRun
    /\ NoteChange
    /\ UNCHANGED <<environment, completed, build, offered, published>>

\* FinishPolicyRun fails: the run stays 'running'.
FailFinish ==
    /\ engine.pc = "written"
    /\ Fault("finish")
    /\ engine' = NoRun
    /\ UNCHANGED <<environment, table, generator>>

CrashEngine ==
    /\ engine.pc # "idle"
    /\ Fault("engine")
    /\ engine' = NoRun
    /\ UNCHANGED <<environment, table, generator>>

RunPolicy == BeginPolicyRun \/ LoadLists \/ EvaluateAll \/ WriteDecisions \/ FinishPolicyRun

-----------------------------------------------------------------------------
(* blocklist-generator: Builder.Build.                                     *)

\* Variant: the category is forgotten.
RulesOfAnyCategory(c) == {d \in active : \E b \in Categories : decisions[<<d, b>>] = "BLOCK"}

BlockedRules(c) == {d \in active : decisions[<<d, c>>] = "BLOCK"}

\* applyOverrides: the tenant's allowlist, then its denylist.
ApplyOverrides(rules, t, c) == (rules \ Allowed[t]) \cup Denied[t][AnyCategory] \cup Denied[t][c]

\* buildTenant, for every tenant; all.txt is the union of the tenant's categories.
Content(base) ==
    [k \in Keys |->
        LET t == k[1] IN
        IF k[2] = All THEN UNION {ApplyOverrides(base[c], t, c) : c \in Subscribed[t]}
        ELSE ApplyOverrides(base[k[2]], t, k[2])]

\* CurrentPolicyRun and Categories; without a completed run there is no build.
StartBuild ==
    /\ build.pc = "idle"
    /\ completed
    /\ build' = [NoBuild EXCEPT !.pc = "reading", !.todo = Categories]
    /\ reading' = NothingRead
    /\ UNCHANGED <<environment, engine, table, offered, published, faults>>

\* BlockedRules, one query for each category.
ReadCategory ==
    /\ build.pc = "reading"
    /\ \E c \in build.todo :
        /\ \A b \in build.todo : Position[c] <= Position[b]
        /\ build' = [build EXCEPT !.base[c] = BlockedRules(c), !.todo = @ \ {c}]
    /\ reading' = [reading EXCEPT !.unfinished = @ \/ ~committed]
    /\ UNCHANGED <<environment, engine, table, offered, published, faults>>

\* unchanged: the set would be the published one.
SkipBuild ==
    /\ build.pc = "reading"
    /\ build.todo = {}
    /\ Content(build.base) = published
    /\ build' = NoBuild
    /\ UNCHANGED <<environment, engine, table, offered, published, reading, faults>>

Offer ==
    /\ build.pc = "reading"
    /\ build.todo = {}
    /\ Content(build.base) # published
    /\ AP!Offer(Content(build.base))
    /\ build' = [build EXCEPT !.pc = "publishing"]
    /\ UNCHANGED <<environment, engine, table, reading, faults>>

\* publish: the pointer moves.
Publish ==
    /\ build.pc = "publishing"
    /\ AP!Publish
    /\ build' = [build EXCEPT !.pc = "published"]
    /\ UNCHANGED <<environment, engine, table, reading, faults>>

FinishBuild ==
    /\ build.pc = "published"
    /\ AP!Withdraw
    /\ build' = NoBuild
    /\ UNCHANGED <<environment, engine, table, reading, faults>>

\* A query, a write or the process fails: what was on offer is dropped.
FailBuild ==
    /\ build.pc # "idle"
    /\ Fault("build") \/ Fault("generator")
    /\ AP!Withdraw
    /\ build' = NoBuild
    /\ UNCHANGED <<environment, engine, table, reading>>

RunBuild == StartBuild \/ ReadCategory \/ SkipBuild \/ Offer \/ Publish \/ FinishBuild

-----------------------------------------------------------------------------
Next ==
    \/ \E p \in Pairs, v \in {"MONITOR", "BLOCK"} : Report(p, v)
    \/ \E p \in Pairs : Withdraw(p)
    \/ \E d \in Domains : EditProtected(d)
    \/ RunPolicy \/ FailRun \/ LoseCommit \/ FailFinish \/ CrashEngine
    \/ RunBuild \/ FailBuild

Spec == Init /\ [][Next]_vars

\* Both loops run on a schedule and are restarted when they crash.
FairSpec == Spec /\ WF_vars(RunPolicy) /\ WF_vars(RunBuild)

-----------------------------------------------------------------------------
(* Properties.                                                             *)

Contents == [Keys -> SUBSET Domains]

TypeOK ==
    /\ verdict \in [Pairs -> {None, "MONITOR", "BLOCK"}]
    /\ active \subseteq Domains /\ protected \subseteq Domains
    /\ engine \in [pc : {"idle", "begun", "listed", "evaluated", "written"},
                   lists : SUBSET Domains, pending : [Pairs -> Actions \cup {None}],
                   wrote : BOOLEAN]
    /\ decisions \in [Pairs -> Actions \cup {None}]
    /\ recorded \in [Pairs -> Actions \cup {None}]
    /\ committed \in BOOLEAN /\ completed \in BOOLEAN
    /\ build \in [pc : {"idle", "reading", "publishing", "published"},
                  todo : SUBSET Categories, base : [Categories -> SUBSET Domains]]
    /\ offered \in Contents \cup {NoContent} /\ published \in Contents \cup {NoContent}
    /\ edits \in 0..MaxEdits /\ faults \in 0..MaxFaults
    /\ wasBlocked \subseteq Pairs
    /\ reading \in [torn : BOOLEAN, unfinished : BOOLEAN]

\* Tenant k[1] itself adds d to list k (all: to a category it subscribes to).
Asked(d, k) ==
    \E c \in IF k[2] = All THEN Subscribed[k[1]] ELSE {k[2]} :
        d \in Denied[k[1]][c] \cup Denied[k[1]][AnyCategory]

\* A domain that has been protected from the start is in a list only of a tenant whose own
\* denylist names it, whatever the feeds say and however runs, builds and edits interleave;
\* that denylist is appended after the ladder, without a look at the protected entries
\* (applyOverrides).
ProtectedOnlyIfAsked ==
    \A k \in DOMAIN published : \A d \in published[k] \cap Shielded : Asked(d, k)

\* A list holds a domain only because its evidence once amounted to a block in
\* that very category (all: in one the tenant subscribes to), or because this
\* tenant has asked for it: nothing crosses over between categories or tenants.
Explained(d, t, c) ==
    \/ <<d, c>> \in wasBlocked /\ d \notin Allowed[t]
    \/ d \in Denied[t][c] \cup Denied[t][AnyCategory]

ListingsExplained ==
    \A k \in DOMAIN published : \A d \in published[k] :
        IF k[2] = All THEN \E c \in Subscribed[k[1]] : Explained(d, k[1], c)
        ELSE Explained(d, k[1], k[2])

\* The latest recorded change of a pair that has a decision is that decision.
DecisionsRecorded == \A p \in Pairs : decisions[p] # None => recorded[p] = decisions[p]

\* What the lists should hold, from L1 and the allowlists as they are.
Target ==
    Content([c \in Categories |-> {d \in Domains : Evaluate(<<d, c>>, protected) = "BLOCK"}])

\* When edits and faults have come to an end, the published set becomes the one
\* L1 and the allowlists ask for, and stays so: a withdrawn or newly protected
\* domain is not exported "mãi mãi" (writeDecisions).
ListsFollowEvidence == <>[](published = Target)

\* "blocklist-generator chỉ dựng snapshot từ lượt đã hoàn tất" (policy-engine).
FromFinishedRuns == offered # NoContent => ~reading.unfinished

\* "không bao giờ dựng ra một bộ nửa cũ nửa mới" (builder).
FromOneRun == offered # NoContent => ~reading.torn

\* "vẫn phải trả lời được vì sao domain này đổi trạng thái lúc T": every change
\* of a row of domain_decisions, its end included, leaves a row behind.
ChangesRecorded ==
    [][\A p \in Pairs : decisions'[p] # decisions[p] => recorded'[p] # recorded[p]]_vars

\* "không tenant nào và không policy nào gỡ được" (global_allowlist): a protected domain is
\* in no list of any tenant, also where a tenant's denylist names it.
ProtectedNeverListed == \A k \in DOMAIN published : published[k] \cap Shielded = {}
=============================================================================
