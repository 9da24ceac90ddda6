------------------------- MODULE PolicyPipelineProofs -------------------------
(***************************************************************************)
(* For every number of domains, categories and tenants, and every          *)
(* interleaving of edits, policy runs, builds and failures: a domain that  *)
(* stays protected is published only to a tenant that asks for it, and     *)
(* whatever is published can be explained by evidence of its category or   *)
(* by the tenant that gets it.                                             *)
(***************************************************************************)
EXTENDS PolicyPipeline, TLAPS

-----------------------------------------------------------------------------
(* The inductive invariants follow a decision on its way: from the         *)
(* allowlist and the evidence the engine has read, through its pending     *)
(* results, the table and what the build has read of it, to the content on *)
(* offer and the published one.                                            *)

\* No shielded domain is blocked at any stage, and the lists have it from a tenant only.
OnlyIfAsked(content) == \A k \in DOMAIN content : \A d \in content[k] \cap Shielded : Asked(d, k)

ShieldInv ==
    /\ Shielded \subseteq protected
    /\ engine.pc = "listed" => Shielded \subseteq engine.lists
    /\ \A d \in Shielded, c \in Categories :
          /\ engine.pending[<<d, c>>] # "BLOCK"
          /\ decisions[<<d, c>>] # "BLOCK"
          /\ d \notin build.base[c]
    /\ OnlyIfAsked(offered)
    /\ OnlyIfAsked(published)

\* Every block at every stage was asked for by the evidence of its pair.
ExplainedBy(content) ==
    \A k \in DOMAIN content : \A d \in content[k] :
        IF k[2] = All THEN \E c \in Subscribed[k[1]] : Explained(d, k[1], c)
        ELSE Explained(d, k[1], k[2])

EvidenceInv ==
    /\ \A p \in Pairs : /\ verdict[p] = "BLOCK" => p \in wasBlocked
                        /\ engine.pending[p] = "BLOCK" => p \in wasBlocked
                        /\ decisions[p] = "BLOCK" => p \in wasBlocked
    /\ \A c \in Categories : \A d \in build.base[c] : <<d, c>> \in wasBlocked
    /\ ExplainedBy(offered)
    /\ ExplainedBy(published)

-----------------------------------------------------------------------------
(* Lemmas about the operators.                                             *)

\* The names of the lists of a tenant.
LEMMA KeysType ==
    ASSUME NEW k \in Keys
    PROVE  /\ k[1] \in Tenants
           /\ k[2] # All => k[2] \in Subscribed[k[1]] /\ k[2] \in Categories
           /\ Subscribed[k[1]] \subseteq Categories
  BY PipelineAssumption DEF Keys

\* A set built from typed rules is a typed content.
LEMMA ContentType ==
    ASSUME NEW base \in [Categories -> SUBSET Domains]
    PROVE  Content(base) \in Contents
<1>1. ASSUME NEW t \in Tenants, NEW c \in Categories
      PROVE  ApplyOverrides(base[c], t, c) \subseteq Domains
  BY <1>1, PipelineAssumption DEF ApplyOverrides
<1>2. ASSUME NEW k \in Keys
      PROVE  Content(base)[k] \subseteq Domains
  BY <1>1, <1>2, KeysType DEF Content
<1>3. QED
  BY <1>2 DEF Content, Contents

\* Overrides add a shielded domain only from the tenant's denylist, and so does the union of
\* its lists.
LEMMA ContentAsked ==
    ASSUME NEW base \in [Categories -> SUBSET Domains],
           \A c \in Categories : base[c] \cap Shielded = {}
    PROVE  OnlyIfAsked(Content(base))
<1>1. ASSUME NEW t \in Tenants, NEW c \in Categories,
             NEW d \in ApplyOverrides(base[c], t, c) \cap Shielded
      PROVE  d \in Denied[t][c] \cup Denied[t][AnyCategory]
  BY <1>1 DEF ApplyOverrides
<1>2. ASSUME NEW k \in Keys, NEW d \in Content(base)[k] \cap Shielded
      PROVE  Asked(d, k)
  <2>1. CASE k[2] = All
    <3>1. PICK c \in Subscribed[k[1]] : d \in ApplyOverrides(base[c], k[1], c)
      BY <1>2, <2>1 DEF Content
    <3>2. d \in Denied[k[1]][c] \cup Denied[k[1]][AnyCategory]
      BY <1>1, <1>2, <3>1, KeysType
    <3>3. QED
      BY <2>1, <3>2 DEF Asked
  <2>2. CASE k[2] # All
    <3>1. d \in ApplyOverrides(base[k[2]], k[1], k[2])
      BY <1>2, <2>2 DEF Content
    <3>2. d \in Denied[k[1]][k[2]] \cup Denied[k[1]][AnyCategory]
      BY <1>1, <1>2, <2>2, <3>1, KeysType
    <3>3. QED
      BY <2>2, <3>2 DEF Asked
  <2>3. QED
    BY <2>1, <2>2
<1>3. QED
  BY <1>2 DEF Content, OnlyIfAsked

\* Every rule of a set comes from the rules of its category, less the tenant's
\* exceptions, or from the tenant's denylist.
LEMMA ContentExplained ==
    ASSUME NEW base \in [Categories -> SUBSET Domains],
           \A c \in Categories : \A d \in base[c] : <<d, c>> \in wasBlocked
    PROVE  ExplainedBy(Content(base))
<1>1. ASSUME NEW t \in Tenants, NEW c \in Categories, NEW d \in ApplyOverrides(base[c], t, c)
      PROVE  Explained(d, t, c)
  BY <1>1 DEF ApplyOverrides, Explained
<1>2. ASSUME NEW k \in Keys, NEW d \in Content(base)[k]
      PROVE  IF k[2] = All THEN \E c \in Subscribed[k[1]] : Explained(d, k[1], c)
             ELSE Explained(d, k[1], k[2])
  BY <1>1, <1>2, KeysType DEF Content
<1>3. QED
  BY <1>2 DEF Content, ExplainedBy

-----------------------------------------------------------------------------
(* Type correctness.                                                       *)

LEMMA NoRunType ==
    /\ NoRun = [pc |-> "idle", lists |-> {}, pending |-> NoDecisions, wrote |-> FALSE]
    /\ NoDecisions \in [Pairs -> Actions \cup {None}]
    /\ NoRules \in [Categories -> SUBSET Domains]
  BY DEF NoRun, NoDecisions, NoRules

LEMMA InitType == Init => TypeOK
<1> SUFFICES ASSUME Init
             PROVE  TypeOK
  OBVIOUS
<1> USE PipelineAssumption DEF Init
<1>1. verdict \in [Pairs -> {None, "MONITOR", "BLOCK"}]
  OBVIOUS
<1>2. active \subseteq Domains /\ protected \subseteq Domains /\ wasBlocked \subseteq Pairs
  BY DEF Pairs
<1>3. /\ offered \in Contents \cup {NoContent}
      /\ published \in Contents \cup {NoContent}
  BY DEF AP!Init
<1>4. reading \in [torn : BOOLEAN, unfinished : BOOLEAN]
  BY DEF NothingRead
<1>5. /\ engine \in [pc : {"idle", "begun", "listed", "evaluated", "written"},
                     lists : SUBSET Domains, pending : [Pairs -> Actions \cup {None}],
                     wrote : BOOLEAN]
      /\ decisions \in [Pairs -> Actions \cup {None}]
      /\ recorded \in [Pairs -> Actions \cup {None}]
  BY NoRunType
<1>6. build \in [pc : {"idle", "reading", "publishing", "published"},
                todo : SUBSET Categories, base : [Categories -> SUBSET Domains]]
  BY NoRunType DEF NoBuild
<1>7. edits \in 0..MaxEdits /\ faults \in 0..MaxFaults
  OBVIOUS
<1>8. QED
  BY <1>1, <1>2, <1>3, <1>4, <1>5, <1>6, <1>7 DEF TypeOK

\* The decision of a pair is an action, or none.
LEMMA EvaluateType ==
    ASSUME TypeOK, NEW p \in Pairs, NEW lists
    PROVE  Evaluate(p, lists) \in Actions \cup {None}
  BY DEF TypeOK, Evaluate, Actions

LEMMA ReplaceType ==
    ASSUME TypeOK, ReplaceDecisions
    PROVE  /\ decisions' \in [Pairs -> Actions \cup {None}]
           /\ recorded' \in [Pairs -> Actions \cup {None}]
  BY DEF TypeOK, ReplaceDecisions

LEMMA NoteChangeType ==
    ASSUME TypeOK, NoteChange
    PROVE  reading' \in [torn : BOOLEAN, unfinished : BOOLEAN]
<1> DEFINE torn == \/ reading.torn
                   \/ /\ build.pc = "reading" /\ build.todo # Categories
                      /\ decisions' # decisions
<1>1. reading' = [reading EXCEPT !.torn = torn]
  BY DEF NoteChange
<1>2. torn \in BOOLEAN
  BY DEF TypeOK
<1> HIDE DEF torn
<1>3. QED
  BY <1>1, <1>2 DEF TypeOK

LEMMA ReadCategoryType ==
    ASSUME TypeOK, ReadCategory
    PROVE  /\ build' \in [pc : {"idle", "reading", "publishing", "published"},
                          todo : SUBSET Categories, base : [Categories -> SUBSET Domains]]
           /\ reading' \in [torn : BOOLEAN, unfinished : BOOLEAN]
<1>1. PICK c \in build.todo :
        build' = [build EXCEPT !.base[c] = BlockedRules(c), !.todo = @ \ {c}]
  BY DEF ReadCategory
<1>2. BlockedRules(c) \subseteq Domains /\ c \in Categories
  BY DEF TypeOK, BlockedRules
<1>3. [build.base EXCEPT ![c] = BlockedRules(c)] \in [Categories -> SUBSET Domains]
  BY <1>2 DEF TypeOK
<1>4. build' = [build EXCEPT !.base = [build.base EXCEPT ![c] = BlockedRules(c)],
                             !.todo = build.todo \ {c}]
  BY <1>1 DEF TypeOK
<1>5. build' \in [pc : {"idle", "reading", "publishing", "published"},
                  todo : SUBSET Categories, base : [Categories -> SUBSET Domains]]
  BY <1>3, <1>4 DEF TypeOK
<1> DEFINE unfinished == reading.unfinished \/ ~committed
<1>6. reading' = [reading EXCEPT !.unfinished = unfinished]
  BY DEF ReadCategory
<1>7. unfinished \in BOOLEAN
  BY DEF TypeOK
<1> HIDE DEF unfinished
<1>8. reading' \in [torn : BOOLEAN, unfinished : BOOLEAN]
  BY <1>6, <1>7 DEF TypeOK
<1>9. QED
  BY <1>5, <1>8

LEMMA NextType == TypeOK /\ [Next]_vars => TypeOK'
<1> SUFFICES ASSUME TypeOK, [Next]_vars
             PROVE  TypeOK'
  OBVIOUS
<1> USE PipelineAssumption
<1>1. ASSUME NEW p \in Pairs, NEW v \in {"MONITOR", "BLOCK"}, Report(p, v)
      PROVE  TypeOK'
  BY <1>1 DEF TypeOK, Report, Edit, table, generator, Pairs
<1>2. ASSUME NEW p \in Pairs, Withdraw(p)
      PROVE  TypeOK'
  BY <1>2 DEF TypeOK, Withdraw, Edit, table, generator, Pairs
<1>3. ASSUME NEW d \in Domains, EditProtected(d)
      PROVE  TypeOK'
  BY <1>3 DEF TypeOK, EditProtected, Edit, table, generator
<1>4. CASE BeginPolicyRun
  BY <1>4, NoRunType DEF TypeOK, BeginPolicyRun, environment, table, generator
<1>5. CASE LoadLists
  BY <1>5, NoRunType DEF TypeOK, LoadLists, environment, table, generator
<1>6. CASE EvaluateAll
  BY <1>6, EvaluateType DEF TypeOK, EvaluateAll, environment, table, generator
<1>7. CASE WriteDecisions
  <2>1. reading' \in [torn : BOOLEAN, unfinished : BOOLEAN]
    BY <1>7, NoteChangeType DEF WriteDecisions
  <2>2. /\ decisions' \in [Pairs -> Actions \cup {None}]
        /\ recorded' \in [Pairs -> Actions \cup {None}]
        /\ committed' \in BOOLEAN /\ completed' \in BOOLEAN
    BY <1>7, ReplaceType DEF TypeOK, WriteDecisions, table
  <2>3. engine' \in [pc : {"idle", "begun", "listed", "evaluated", "written"},
                    lists : SUBSET Domains, pending : [Pairs -> Actions \cup {None}],
                    wrote : BOOLEAN]
    <3>1. \/ engine' = [engine EXCEPT !.pc = "written"]
          \/ engine' = [engine EXCEPT !.pc = "written", !.wrote = TRUE]
      BY <1>7 DEF WriteDecisions
    <3>2. QED
      BY <3>1 DEF TypeOK
  <2>4. QED
    BY <1>7, <2>1, <2>2, <2>3 DEF TypeOK, WriteDecisions, environment
<1>8. CASE FinishPolicyRun
  BY <1>8, NoRunType DEF TypeOK, FinishPolicyRun, environment, generator
<1>9. CASE FailRun
  BY <1>9, NoRunType DEF TypeOK, FailRun, Fault, environment, table, generator
<1>10. CASE LoseCommit
  <2>1. reading' \in [torn : BOOLEAN, unfinished : BOOLEAN]
    BY <1>10, NoteChangeType DEF LoseCommit
  <2>2. /\ decisions' \in [Pairs -> Actions \cup {None}]
        /\ recorded' \in [Pairs -> Actions \cup {None}]
    BY <1>10, ReplaceType DEF LoseCommit
  <2>3. faults' \in 0..MaxFaults
    BY <1>10 DEF TypeOK, LoseCommit, Fault
  <2>4. QED
    BY <1>10, <2>1, <2>2, <2>3, NoRunType DEF TypeOK, LoseCommit, environment
<1>11. CASE FailFinish
  BY <1>11, NoRunType DEF TypeOK, FailFinish, Fault, environment, table, generator
<1>12. CASE CrashEngine
  BY <1>12, NoRunType DEF TypeOK, CrashEngine, Fault, environment, table, generator
<1>13. CASE StartBuild
  BY <1>13, NoRunType DEF TypeOK, StartBuild, NoBuild, NothingRead, environment, table
<1>14. CASE ReadCategory
  BY <1>14, ReadCategoryType DEF TypeOK, ReadCategory, environment, table
<1>15. CASE SkipBuild
  BY <1>15, NoRunType DEF TypeOK, SkipBuild, NoBuild, environment, table
<1>16. CASE Offer
  BY <1>16, ContentType DEF TypeOK, Offer, AP!Offer, environment, table
<1>17. CASE Publish
  BY <1>17 DEF TypeOK, Publish, AP!Publish, environment, table
<1>18. CASE FinishBuild
  BY <1>18, NoRunType DEF TypeOK, FinishBuild, AP!Withdraw, NoBuild, environment, table
<1>19. CASE FailBuild
  BY <1>19, NoRunType DEF TypeOK, FailBuild, Fault, AP!Withdraw, NoBuild, environment, table
<1>20. CASE UNCHANGED vars
  BY <1>20 DEF TypeOK, vars, environment, table, generator
<1>21. QED
  BY <1>1, <1>2, <1>3, <1>4, <1>5, <1>6, <1>7, <1>8, <1>9, <1>10, <1>11, <1>12, <1>13,
     <1>14, <1>15, <1>16, <1>17, <1>18, <1>19, <1>20 DEF Next, RunPolicy, RunBuild

\* Every variable stays within its type, whatever the constants.
THEOREM TypeCorrect == Spec => []TypeOK
  BY InitType, NextType, PTL DEF Spec

-----------------------------------------------------------------------------
(* A protected domain is published to nobody who does not ask for it.      *)

\* The ladder looks at the protected allowlist first.
LEMMA EvaluateShielded ==
    ASSUME NEW d \in Domains, NEW c \in Categories, NEW lists, d \in lists
    PROVE  Evaluate(<<d, c>>, lists) # "BLOCK"
  BY DEF Evaluate, None

LEMMA NoRunShielded ==
    ASSUME NEW d \in Domains, NEW c \in Categories
    PROVE  NoRun.pending[<<d, c>>] # "BLOCK" /\ d \notin NoBuild.base[c]
  BY DEF NoRun, NoDecisions, NoBuild, NoRules, Pairs, None

LEMMA InitShielded == Init => ShieldInv
<1> SUFFICES ASSUME Init
             PROVE  ShieldInv
  OBVIOUS
<1>1. OnlyIfAsked(offered) /\ OnlyIfAsked(published)
  BY DEF Init, AP!Init, NoContent, OnlyIfAsked
<1>2. ASSUME NEW d \in Shielded, NEW c \in Categories
      PROVE  /\ engine.pending[<<d, c>>] # "BLOCK"
             /\ decisions[<<d, c>>] # "BLOCK"
             /\ d \notin build.base[c]
  BY NoRunShielded, PipelineAssumption DEF Init, NoRun
<1>3. QED
  BY <1>1, <1>2 DEF Init, ShieldInv, NoRun

LEMMA WrittenRun ==
    ASSUME TypeOK, WriteDecisions
    PROVE  engine'.pending = engine.pending /\ engine'.pc = "written"
<1>1. engine = [pc |-> engine.pc, lists |-> engine.lists,
                pending |-> engine.pending, wrote |-> engine.wrote]
  BY DEF TypeOK
<1>2. \/ engine' = [engine EXCEPT !.pc = "written"]
      \/ engine' = [engine EXCEPT !.pc = "written", !.wrote = TRUE]
  BY DEF WriteDecisions
<1>3. CASE engine' = [engine EXCEPT !.pc = "written"]
  BY <1>1, <1>3
<1>4. CASE engine' = [engine EXCEPT !.pc = "written", !.wrote = TRUE]
  BY <1>1, <1>4
<1>5. QED
  BY <1>2, <1>3, <1>4

LEMMA NextShielded == TypeOK /\ ShieldInv /\ [Next]_vars => ShieldInv'
<1> SUFFICES ASSUME TypeOK, ShieldInv, [Next]_vars
             PROVE  ShieldInv'
  OBVIOUS
<1> USE PipelineAssumption
<1>1. ASSUME NEW p \in Pairs, NEW v \in {"MONITOR", "BLOCK"}, Report(p, v)
      PROVE  ShieldInv'
  BY <1>1 DEF ShieldInv, Report, Edit, table, generator
<1>2. ASSUME NEW p \in Pairs, Withdraw(p)
      PROVE  ShieldInv'
  BY <1>2 DEF ShieldInv, Withdraw, Edit, table, generator
<1>3. ASSUME NEW d \in Domains, EditProtected(d)
      PROVE  ShieldInv'
  BY <1>3 DEF ShieldInv, EditProtected, Edit, table, generator
<1>4. CASE BeginPolicyRun
  BY <1>4, NoRunShielded DEF ShieldInv, BeginPolicyRun, environment, table, generator, NoRun
<1>5. CASE LoadLists
  BY <1>5, NoRunShielded DEF ShieldInv, LoadLists, environment, table, generator, NoRun
<1>6. CASE EvaluateAll
  <2>1. ASSUME NEW d \in Shielded, NEW c \in Categories
        PROVE  engine'.pending[<<d, c>>] # "BLOCK"
    <3>1. <<d, c>> \in Pairs /\ d \in engine.lists
      BY <1>6 DEF Pairs, ShieldInv, EvaluateAll
    <3>2. engine'.pending[<<d, c>>] = Evaluate(<<d, c>>, engine.lists)
      BY <1>6, <3>1 DEF EvaluateAll, TypeOK
    <3>3. QED
      BY <3>1, <3>2, EvaluateShielded
  <2>2. engine'.pc = "evaluated"
    BY <1>6 DEF EvaluateAll, TypeOK
  <2>3. QED
    BY <1>6, <2>1, <2>2 DEF ShieldInv, EvaluateAll, environment, table, generator
<1>7. CASE WriteDecisions
  <2>1. decisions' = decisions \/ decisions' = engine.pending
    BY <1>7 DEF WriteDecisions, ReplaceDecisions, table
  <2>2. engine'.pending = engine.pending /\ engine'.pc = "written"
    BY <1>7, WrittenRun
  <2>3. QED
    BY <1>7, <2>1, <2>2 DEF ShieldInv, WriteDecisions, environment
<1>8. CASE FinishPolicyRun
  BY <1>8, NoRunShielded DEF ShieldInv, FinishPolicyRun, environment, generator, NoRun
<1>9. CASE FailRun
  BY <1>9, NoRunShielded DEF ShieldInv, FailRun, environment, table, generator, NoRun
<1>10. CASE LoseCommit
  BY <1>10, NoRunShielded DEF ShieldInv, LoseCommit, ReplaceDecisions, environment, NoRun
<1>11. CASE FailFinish
  BY <1>11, NoRunShielded DEF ShieldInv, FailFinish, environment, table, generator, NoRun
<1>12. CASE CrashEngine
  BY <1>12, NoRunShielded DEF ShieldInv, CrashEngine, environment, table, generator, NoRun
<1>13. CASE StartBuild
  <2>1. build'.base = NoBuild.base
    BY <1>13 DEF StartBuild, NoBuild
  <2>2. QED
    BY <1>13, <2>1, NoRunShielded DEF ShieldInv, StartBuild, environment, table
<1>14. CASE ReadCategory
  <2>1. PICK c \in build.todo :
          build' = [build EXCEPT !.base[c] = BlockedRules(c), !.todo = @ \ {c}]
    BY <1>14 DEF ReadCategory
  <2>2. build'.base = [build.base EXCEPT ![c] = BlockedRules(c)]
    BY <2>1 DEF TypeOK
  <2>3. c \in Categories => BlockedRules(c) \cap Shielded = {}
    BY DEF ShieldInv, BlockedRules
  <2>4. QED
    BY <1>14, <2>2, <2>3 DEF TypeOK, ShieldInv, ReadCategory, environment, table
<1>15. CASE SkipBuild
  BY <1>15, NoRunShielded DEF ShieldInv, SkipBuild, environment, table
<1>16. CASE Offer
  <2>1. OnlyIfAsked(Content(build.base))
    <3>1. \A c \in Categories : build.base[c] \cap Shielded = {}
      BY DEF ShieldInv
    <3>2. build.base \in [Categories -> SUBSET Domains]
      BY DEF TypeOK
    <3>3. QED
      BY <3>1, <3>2, ContentAsked
  <2>2. build'.base = build.base
    BY <1>16 DEF Offer, TypeOK
  <2>3. OnlyIfAsked(offered')
    BY <1>16, <2>1 DEF Offer, AP!Offer
  <2>4. QED
    BY <1>16, <2>2, <2>3 DEF ShieldInv, Offer, AP!Offer, environment, table
<1>17. CASE Publish
  <2>1. build'.base = build.base
    BY <1>17 DEF Publish, TypeOK
  <2>2. QED
    BY <1>17, <2>1 DEF ShieldInv, Publish, AP!Publish, environment, table
<1>18. CASE FinishBuild
  <2>1. OnlyIfAsked(offered')
    BY <1>18 DEF FinishBuild, AP!Withdraw, NoContent, OnlyIfAsked
  <2>2. QED
    BY <1>18, <2>1, NoRunShielded DEF ShieldInv, FinishBuild, AP!Withdraw, environment, table
<1>19. CASE FailBuild
  <2>1. OnlyIfAsked(offered')
    BY <1>19 DEF FailBuild, AP!Withdraw, NoContent, OnlyIfAsked
  <2>2. QED
    BY <1>19, <2>1, NoRunShielded DEF ShieldInv, FailBuild, AP!Withdraw, environment, table
<1>20. CASE UNCHANGED vars
  BY <1>20 DEF ShieldInv, vars, environment, table, generator
<1>21. QED
  BY <1>1, <1>2, <1>3, <1>4, <1>5, <1>6, <1>7, <1>8, <1>9, <1>10, <1>11, <1>12, <1>13,
     <1>14, <1>15, <1>16, <1>17, <1>18, <1>19, <1>20 DEF Next, RunPolicy, RunBuild

\* A domain whose protected entry is never removed is published, ever, only to a tenant
\* whose own denylist names it.
THEOREM ProtectedStaysOut == Spec => []ProtectedOnlyIfAsked
<1>1. Init => TypeOK /\ ShieldInv
  BY InitType, InitShielded
<1>2. TypeOK /\ ShieldInv /\ [Next]_vars => TypeOK' /\ ShieldInv'
  BY NextType, NextShielded
<1>3. ShieldInv => ProtectedOnlyIfAsked
  BY DEF ShieldInv, OnlyIfAsked, ProtectedOnlyIfAsked
<1>4. QED
  BY <1>1, <1>2, <1>3, PTL DEF Spec

-----------------------------------------------------------------------------
(* Everything published can be explained.                                  *)

LEMMA InitExplained == Init => EvidenceInv
<1> SUFFICES ASSUME Init
             PROVE  EvidenceInv
  OBVIOUS
<1>1. ExplainedBy(offered) /\ ExplainedBy(published)
  BY DEF Init, AP!Init, NoContent, ExplainedBy
<1>2. ASSUME NEW p \in Pairs
      PROVE  /\ verdict[p] = "BLOCK" => p \in wasBlocked
             /\ engine.pending[p] # "BLOCK"
             /\ decisions[p] # "BLOCK"
  BY DEF Init, NoRun, NoDecisions, None
<1>3. \A c \in Categories : build.base[c] = {}
  BY DEF Init, NoBuild, NoRules
<1>4. QED
  BY <1>1, <1>2, <1>3 DEF EvidenceInv

\* An explanation is never lost: wasBlocked only grows.
LEMMA ExplainedStays ==
    ASSUME wasBlocked \subseteq wasBlocked', NEW content, ExplainedBy(content)
    PROVE  ExplainedBy(content)'
<1>1. ASSUME NEW t, NEW c, NEW d, Explained(d, t, c)
      PROVE  Explained(d, t, c)'
  BY <1>1 DEF Explained
<1>2. QED
  BY <1>1 DEF ExplainedBy

LEMMA NoRunExplained ==
    /\ \A p \in Pairs : NoRun.pending[p] # "BLOCK"
    /\ \A c \in Categories : NoBuild.base[c] = {}
    /\ ExplainedBy(NoContent)
  BY DEF NoRun, NoDecisions, NoBuild, NoRules, None, NoContent, ExplainedBy

LEMMA NextExplained == TypeOK /\ EvidenceInv /\ [Next]_vars => EvidenceInv'
<1> SUFFICES ASSUME TypeOK, EvidenceInv, [Next]_vars
             PROVE  EvidenceInv'
  OBVIOUS
<1>0. ASSUME wasBlocked \subseteq wasBlocked',
             UNCHANGED <<offered, published>>
      PROVE  ExplainedBy(offered)' /\ ExplainedBy(published)'
  BY <1>0, ExplainedStays DEF EvidenceInv, ExplainedBy, Explained
<1>1. ASSUME NEW p \in Pairs, NEW v \in {"MONITOR", "BLOCK"}, Report(p, v)
      PROVE  EvidenceInv'
  <2>1. wasBlocked \subseteq wasBlocked' /\ (v = "BLOCK" => p \in wasBlocked')
    BY <1>1 DEF Report
  <2>2. \A q \in Pairs : verdict'[q] = IF q = p THEN v ELSE verdict[q]
    BY <1>1 DEF Report, TypeOK
  <2>3. ExplainedBy(offered)' /\ ExplainedBy(published)'
    BY <1>0, <1>1, <2>1 DEF Report, Edit, generator
  <2>4. QED
    BY <1>1, <2>1, <2>2, <2>3 DEF EvidenceInv, Report, Edit, table, generator
<1>2. ASSUME NEW p \in Pairs, Withdraw(p)
      PROVE  EvidenceInv'
  <2>1. \A q \in Pairs : verdict'[q] = IF q = p THEN None ELSE verdict[q]
    BY <1>2 DEF Withdraw, TypeOK
  <2>2. ExplainedBy(offered)' /\ ExplainedBy(published)'
    BY <1>0, <1>2 DEF Withdraw, Edit, generator
  <2>3. QED
    BY <1>2, <2>1, <2>2 DEF EvidenceInv, Withdraw, Edit, table, generator, None
<1>3. ASSUME NEW d \in Domains, EditProtected(d)
      PROVE  EvidenceInv'
  BY <1>0, <1>3 DEF EvidenceInv, EditProtected, Edit, table, generator
<1>4. CASE BeginPolicyRun
  <2>1. engine'.pending = NoRun.pending
    BY <1>4 DEF BeginPolicyRun, NoRun
  <2>2. QED
    BY <1>0, <1>4, <2>1, NoRunExplained
    DEF EvidenceInv, BeginPolicyRun, environment, table, generator
<1>5. CASE LoadLists
  <2>1. engine'.pending = NoRun.pending
    BY <1>5 DEF LoadLists, NoRun
  <2>2. QED
    BY <1>0, <1>5, <2>1, NoRunExplained
    DEF EvidenceInv, LoadLists, environment, table, generator
<1>6. CASE EvaluateAll
  <2>1. ASSUME NEW p \in Pairs, engine'.pending[p] = "BLOCK"
        PROVE  p \in wasBlocked
    <3>1. engine'.pending[p] = Evaluate(p, engine.lists)
      BY <1>6 DEF EvaluateAll, TypeOK
    <3>2. verdict[p] = "BLOCK"
      BY <2>1, <3>1 DEF Evaluate, None
    <3>3. QED
      BY <3>2 DEF EvidenceInv
  <2>2. QED
    BY <1>0, <1>6, <2>1 DEF EvidenceInv, EvaluateAll, environment, table, generator
<1>7. CASE WriteDecisions
  <2>1. decisions' = decisions \/ decisions' = engine.pending
    BY <1>7 DEF WriteDecisions, ReplaceDecisions, table
  <2>2. engine'.pending = engine.pending
    BY <1>7, WrittenRun
  <2>3. QED
    BY <1>0, <1>7, <2>1, <2>2 DEF EvidenceInv, WriteDecisions, environment
<1>8. CASE FinishPolicyRun
  BY <1>0, <1>8, NoRunExplained DEF EvidenceInv, FinishPolicyRun, environment, generator
<1>9. CASE FailRun
  BY <1>0, <1>9, NoRunExplained DEF EvidenceInv, FailRun, environment, table, generator
<1>10. CASE LoseCommit
  BY <1>0, <1>10, NoRunExplained DEF EvidenceInv, LoseCommit, ReplaceDecisions, environment
<1>11. CASE FailFinish
  BY <1>0, <1>11, NoRunExplained DEF EvidenceInv, FailFinish, environment, table, generator
<1>12. CASE CrashEngine
  BY <1>0, <1>12, NoRunExplained DEF EvidenceInv, CrashEngine, environment, table, generator
<1>13. CASE StartBuild
  <2>1. build'.base = NoBuild.base
    BY <1>13 DEF StartBuild, NoBuild
  <2>2. QED
    BY <1>0, <1>13, <2>1, NoRunExplained DEF EvidenceInv, StartBuild, environment, table
<1>14. CASE ReadCategory
  <2>1. PICK c \in build.todo :
          build' = [build EXCEPT !.base[c] = BlockedRules(c), !.todo = @ \ {c}]
    BY <1>14 DEF ReadCategory
  <2>2. build'.base = [build.base EXCEPT ![c] = BlockedRules(c)]
    BY <2>1 DEF TypeOK
  <2>3. c \in Categories => \A d \in BlockedRules(c) : <<d, c>> \in wasBlocked
    BY DEF EvidenceInv, BlockedRules, TypeOK, Pairs
  <2>4. \A b \in Categories : \A d \in build'.base[b] : <<d, b>> \in wasBlocked
    BY <2>2, <2>3 DEF TypeOK, EvidenceInv
  <2>5. QED
    BY <1>0, <1>14, <2>4 DEF EvidenceInv, ReadCategory, environment, table
<1>15. CASE SkipBuild
  BY <1>0, <1>15, NoRunExplained DEF EvidenceInv, SkipBuild, environment, table
<1>16. CASE Offer
  <2>1. ExplainedBy(Content(build.base))
    <3>1. build.base \in [Categories -> SUBSET Domains]
      BY DEF TypeOK
    <3>2. \A c \in Categories : \A d \in build.base[c] : <<d, c>> \in wasBlocked
      BY DEF EvidenceInv
    <3>3. QED
      BY <3>1, <3>2, ContentExplained
  <2>2. /\ build'.base = build.base
        /\ offered' = Content(build.base)
        /\ UNCHANGED <<published, wasBlocked>>
    BY <1>16 DEF Offer, AP!Offer, TypeOK, environment
  <2>3. ExplainedBy(offered)' /\ ExplainedBy(published)'
    BY <2>1, <2>2 DEF EvidenceInv, ExplainedBy, Explained
  <2>4. QED
    BY <1>16, <2>2, <2>3 DEF EvidenceInv, Offer, environment, table
<1>17. CASE Publish
  <2>1. /\ build'.base = build.base
        /\ published' = offered
        /\ UNCHANGED <<offered, wasBlocked>>
    BY <1>17 DEF Publish, AP!Publish, TypeOK, environment
  <2>2. ExplainedBy(offered)' /\ ExplainedBy(published)'
    BY <2>1 DEF EvidenceInv, ExplainedBy, Explained
  <2>3. QED
    BY <1>17, <2>1, <2>2 DEF EvidenceInv, Publish, environment, table
<1>18. CASE FinishBuild
  <2>1. /\ offered' = NoContent
        /\ UNCHANGED <<published, wasBlocked>>
    BY <1>18 DEF FinishBuild, AP!Withdraw, environment
  <2>2. ExplainedBy(offered)' /\ ExplainedBy(published)'
    BY <2>1, NoRunExplained DEF EvidenceInv, ExplainedBy, Explained
  <2>3. QED
    BY <1>18, <2>2, NoRunExplained DEF EvidenceInv, FinishBuild, environment, table
<1>19. CASE FailBuild
  <2>1. /\ offered' = NoContent
        /\ UNCHANGED <<published, wasBlocked>>
    BY <1>19 DEF FailBuild, AP!Withdraw, environment
  <2>2. ExplainedBy(offered)' /\ ExplainedBy(published)'
    BY <2>1, NoRunExplained DEF EvidenceInv, ExplainedBy, Explained
  <2>3. QED
    BY <1>19, <2>2, NoRunExplained DEF EvidenceInv, FailBuild, environment, table
<1>20. CASE UNCHANGED vars
  BY <1>0, <1>20 DEF EvidenceInv, vars, environment, table, generator
<1>21. QED
  BY <1>1, <1>2, <1>3, <1>4, <1>5, <1>6, <1>7, <1>8, <1>9, <1>10, <1>11, <1>12, <1>13,
     <1>14, <1>15, <1>16, <1>17, <1>18, <1>19, <1>20 DEF Next, RunPolicy, RunBuild

\* A list holds a domain only because its evidence once amounted to a block in
\* that category and the tenant makes no exception, or because the tenant's own
\* denylist has it.
THEOREM ListingsAreExplained == Spec => []ListingsExplained
<1>1. Init => TypeOK /\ EvidenceInv
  BY InitType, InitExplained
<1>2. TypeOK /\ EvidenceInv /\ [Next]_vars => TypeOK' /\ EvidenceInv'
  BY NextType, NextExplained
<1>3. EvidenceInv => ListingsExplained
  BY DEF EvidenceInv, ExplainedBy, ListingsExplained
<1>4. QED
  BY <1>1, <1>2, <1>3, PTL DEF Spec

-----------------------------------------------------------------------------
(* The history of the decision table.                                      *)

LEMMA NextRecorded == TypeOK /\ DecisionsRecorded /\ [Next]_vars => DecisionsRecorded'
<1> SUFFICES ASSUME TypeOK, DecisionsRecorded, [Next]_vars
             PROVE  DecisionsRecorded'
  OBVIOUS
<1>1. CASE ReplaceDecisions
  <2>1. ASSUME NEW p \in Pairs, decisions'[p] # None
        PROVE  recorded'[p] = decisions'[p]
    BY <1>1, <2>1 DEF ReplaceDecisions, DecisionsRecorded
  <2>2. QED
    BY <2>1 DEF DecisionsRecorded
<1>2. CASE UNCHANGED <<decisions, recorded>>
  BY <1>2 DEF DecisionsRecorded
<1>3. ReplaceDecisions \/ UNCHANGED <<decisions, recorded>>
  BY DEF Next, Report, Withdraw, EditProtected, Edit, RunPolicy, BeginPolicyRun, LoadLists,
         EvaluateAll, WriteDecisions, FinishPolicyRun, FailRun, LoseCommit, FailFinish,
         CrashEngine, RunBuild, StartBuild, ReadCategory, SkipBuild, Offer, Publish,
         FinishBuild, FailBuild, vars, table
<1>4. QED
  BY <1>1, <1>2, <1>3

\* The latest change recorded for a decision that stands is the one that made it.
THEOREM HistoryIsCurrent == Spec => []DecisionsRecorded
<1>1. Init => TypeOK /\ DecisionsRecorded
  BY InitType DEF Init, NoDecisions, DecisionsRecorded
<1>2. TypeOK /\ DecisionsRecorded /\ [Next]_vars => TypeOK' /\ DecisionsRecorded'
  BY NextType, NextRecorded
<1>3. QED
  BY <1>1, <1>2, PTL DEF Spec
=============================================================================
