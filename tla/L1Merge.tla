------------------------------- MODULE L1Merge -------------------------------
(***************************************************************************)
(* The tables domains and domain_sources under their two writers at once:  *)
(* Apply of feed-ingestor (internal/store/store.go) and UpsertOpenCTI and  *)
(* DeleteOpenCTI of sync-consumer (internal/store/opencti.go), statement   *)
(* by statement.  PostgreSQL is used at READ COMMITTED: a statement sees   *)
(* what was committed when it began and what its own transaction wrote; a  *)
(* row that another transaction has written is waited for, and is then     *)
(* written in its newest version, while subqueries keep the old view.      *)
(***************************************************************************)
EXTENDS Naturals, Sequences, FiniteSets, SequencesExt

CONSTANTS
    Names,       \* names of domains
    Feeds,       \* direct sources
    Ingestors,   \* instances of feed-ingestor, each with one import at a time
    MaxBegun,    \* bound on the transactions
    MaxFailures  \* bound on the statements that fail

OpenCTI == "opencti"
Consumer == "consumer"
Sources == Feeds \cup {OpenCTI}
Writers == Ingestors \cup {Consumer}

ASSUME MergeAssumption ==
    /\ OpenCTI \notin Feeds /\ Consumer \notin Ingestors
    /\ IsFiniteSet(Names)
    /\ MaxBegun \in Nat /\ MaxFailures \in Nat

VARIABLES
    activeDomains, \* committed: domains whose domains.active is set
    listed,        \* committed: listed[s], the domains with an active row of source s
    tx,            \* tx[w]: the open transaction of writer w
    begun, failures

mergeVars == <<activeDomains, listed, tx, begun, failures>>

\* todo: the rows the running statement still has to write, in its order; on,
\* off: the domains the transaction has written as active and as not; rows: its
\* source's domains once it commits.
NoTransaction == [pc |-> "idle", source |-> OpenCTI, list |-> {}, todo |-> <<>>,
                  on |-> {}, off |-> {}, rows |-> {}]

MergeInit ==
    /\ listed \in [Sources -> SUBSET Names]
    /\ activeDomains = UNION {listed[s] : s \in Sources}
    /\ tx = [w \in Writers |-> NoTransaction]
    /\ begun = 0
    /\ failures = 0

Set(w, t) == tx' = [tx EXCEPT ![w] = t]

\* The rows of domains that w has locked, and the one it is about to write.
Holds(w) == tx[w].on \cup tx[w].off
Free(w, d) == \A v \in Writers \ {w} : d \notin Holds(v)

\* What a statement of w sees.
SeenActive(w) == (activeDomains \cup tx[w].on) \ tx[w].off
SeenListed(w, s) == IF s = tx[w].source THEN tx[w].rows ELSE listed[s]

-----------------------------------------------------------------------------
(* Apply.                                                                  *)

BeginApply(w) ==
    /\ tx[w].pc = "idle"
    /\ begun < MaxBegun
    /\ \E f \in Feeds, list \in (SUBSET Names) \ {{}} :
        /\ \A v \in Writers \ {w} : tx[v].pc # "idle" => tx[v].source # f
        /\ \E order \in SetToSeqs(list) :
              Set(w, [NoTransaction EXCEPT !.pc = "merge", !.source = f, !.list = list,
                                           !.todo = order, !.rows = listed[f]])
    /\ begun' = begun + 1
    /\ UNCHANGED <<activeDomains, listed, failures>>

\* 1. domains: one row after the other is locked and becomes active.
MergeDomain(w) ==
    LET t == tx[w] IN
    /\ t.pc = "merge"
    /\ t.todo # <<>>
    /\ Free(w, Head(t.todo))
    /\ Set(w, [t EXCEPT !.todo = Tail(@), !.on = @ \cup {Head(t.todo)}])
    /\ UNCHANGED <<activeDomains, listed, begun, failures>>

\* 2 to 5. The source's own rows: the list becomes active, and rows past their
\* grace period, any of the others, do not stay so.
MergeSources(w) ==
    LET t == tx[w] IN
    /\ t.pc = "merge"
    /\ t.todo = <<>>
    /\ \E old \in SUBSET (t.rows \ t.list) :
         Set(w, [t EXCEPT !.pc = "merged", !.rows = (@ \cup t.list) \ old])
    /\ UNCHANGED <<activeDomains, listed, begun, failures>>

\* Variant: the orphans are those of before the import.
OrphansBefore(w) ==
    LET t == tx[w] IN
    /\ t.pc = "merged"
    /\ \E order \in SetToSeqs({d \in SeenActive(w) : \A s \in Sources : d \notin listed[s]}) :
         Set(w, [t EXCEPT !.pc = "drop", !.todo = order])
    /\ UNCHANGED <<activeDomains, listed, begun, failures>>

\* 6. The domains without an active row of any source, as the statement sees
\* them when it begins, ...
FindOrphans(w) ==
    LET t == tx[w]
        orphans == {d \in SeenActive(w) : \A s \in Sources : d \notin SeenListed(w, s)}
    IN
    /\ t.pc = "merged"
    /\ \E order \in SetToSeqs(orphans) : Set(w, [t EXCEPT !.pc = "drop", !.todo = order])
    /\ UNCHANGED <<activeDomains, listed, begun, failures>>

\* ... are locked one after the other and become inactive; the newest version
\* of the row is looked at again, the rows of the sources are not.
DropDomain(w) ==
    LET t == tx[w]
        d == Head(t.todo)
    IN
    /\ t.pc = "drop"
    /\ t.todo # <<>>
    /\ Free(w, d)
    /\ Set(w, IF d \in SeenActive(w)
              THEN [t EXCEPT !.todo = Tail(@), !.on = @ \ {d}, !.off = @ \cup {d}]
              ELSE [t EXCEPT !.todo = Tail(@)])
    /\ UNCHANGED <<activeDomains, listed, begun, failures>>

Commit(w) ==
    /\ tx[w].pc \in {"drop", "upsert"}
    /\ tx[w].todo = <<>>
    /\ activeDomains' = SeenActive(w)
    /\ listed' = [listed EXCEPT ![tx[w].source] = tx[w].rows]
    /\ Set(w, NoTransaction)
    /\ UNCHANGED <<begun, failures>>

-----------------------------------------------------------------------------
(* sync-consumer.                                                          *)

\* UpsertOpenCTI, with the domains of the indicator's pattern; a stale event is
\* one without effect and is left out.
BeginUpsert ==
    /\ tx[Consumer].pc = "idle"
    /\ begun < MaxBegun
    /\ \E list \in (SUBSET Names) \ {{}} : \E order \in SetToSeqs(list) :
         Set(Consumer, [NoTransaction EXCEPT !.pc = "upsert", !.list = list, !.todo = order,
                                             !.rows = listed[OpenCTI]])
    /\ begun' = begun + 1
    /\ UNCHANGED <<activeDomains, listed, failures>>

\* upsertDomain, and the source's row of that domain.
UpsertDomain ==
    LET t == tx[Consumer] IN
    /\ t.pc = "upsert"
    /\ t.todo # <<>>
    /\ Free(Consumer, Head(t.todo))
    /\ Set(Consumer, [t EXCEPT !.todo = Tail(@), !.on = @ \cup {Head(t.todo)},
                               !.rows = @ \cup {Head(t.todo)}])
    /\ UNCHANGED <<activeDomains, listed, begun, failures>>

\* One statement: the rows of a record, any of them, are switched off.
DeleteOpenCTI ==
    /\ tx[Consumer].pc = "idle"
    /\ begun < MaxBegun
    /\ \E record \in (SUBSET listed[OpenCTI]) \ {{}} :
         listed' = [listed EXCEPT ![OpenCTI] = @ \ record]
    /\ begun' = begun + 1
    /\ UNCHANGED <<activeDomains, tx, failures>>

-----------------------------------------------------------------------------
\* The writers that hold the row w is about to write.
WaitsFor(w) ==
    {v \in Writers \ {w} : tx[w].pc \in {"merge", "drop", "upsert"} /\ tx[w].todo # <<>>
                           /\ Head(tx[w].todo) \in Holds(v)}

InCycle(w) == \E v \in WaitsFor(w) : w \in WaitsFor(v)

\* Variant: nobody rolls back.
FailOpen(w) ==
    /\ tx[w].pc # "idle"
    /\ failures < MaxFailures /\ failures' = failures + 1
    /\ Set(w, [tx[w] EXCEPT !.pc = "failed"])
    /\ UNCHANGED <<activeDomains, listed, begun>>

\* A statement fails: the deferred Rollback ends the transaction.
Fail(w) ==
    /\ tx[w].pc # "idle"
    /\ failures < MaxFailures /\ failures' = failures + 1
    /\ Set(w, NoTransaction)
    /\ UNCHANGED <<activeDomains, listed, begun>>

\* PostgreSQL ends one of two transactions that wait for each other.
Deadlock(w) ==
    /\ InCycle(w)
    /\ Set(w, NoTransaction)
    /\ UNCHANGED <<activeDomains, listed, begun, failures>>

Write(w) ==
    \/ w \in Ingestors /\ (MergeDomain(w) \/ MergeSources(w) \/ FindOrphans(w) \/ DropDomain(w))
    \/ w = Consumer /\ UpsertDomain
    \/ Commit(w)

MergeNext ==
    \/ \E w \in Ingestors : BeginApply(w)
    \/ BeginUpsert \/ DeleteOpenCTI
    \/ \E w \in Writers : Write(w) \/ Fail(w) \/ Deadlock(w)

MergeSpec == MergeInit /\ [][MergeNext]_mergeVars

\* Statements return, and PostgreSQL looks for deadlocks.
FairMergeSpec ==
    /\ MergeSpec
    /\ \A w \in Writers : WF_mergeVars(Write(w))
    /\ WF_mergeVars(\E w \in Writers : Deadlock(w))

-----------------------------------------------------------------------------
(* Properties.                                                             *)

MergeTypeOK ==
    /\ activeDomains \subseteq Names
    /\ listed \in [Sources -> SUBSET Names]
    /\ tx \in [Writers ->
          [pc : {"idle", "merge", "merged", "drop", "upsert"}, source : Sources,
           list : SUBSET Names, todo : Seq(Names), on : SUBSET Names,
           off : SUBSET Names, rows : SUBSET Names]]
    /\ begun \in 0..MaxBegun /\ failures \in 0..MaxFailures

\* A domain that a feed has an active row on is active, whatever OpenCTI does at
\* the same time: the policy engine only looks at active domains.
FeedDomainsActive == \A f \in Feeds : listed[f] \subseteq activeDomains

\* "phép hợp nhất GIAO HOÁN": the outcome does not depend on which of the two
\* writers runs first, so a domain that OpenCTI has an active row on is active.
OpenCTIDomainsActive == listed[OpenCTI] \subseteq activeDomains

\* Every transaction ends, whatever rows it and the other one wait for: a pattern
\* of two domains can deadlock with a feed that lists both the other way round.
TransactionsEnd == \A w \in Writers : tx[w].pc # "idle" ~> tx[w].pc = "idle"
=============================================================================
