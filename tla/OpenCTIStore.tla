----------------------------- MODULE OpenCTIStore -----------------------------
(***************************************************************************)
(* internal/store/opencti.go: what the transactions of the OpenCTI path do *)
(* to L0 and L1.  A database db holds                                      *)
(*   rows      domain_sources of the OpenCTI source, one row per domain    *)
(*             (the primary key is domain and source), with its category;  *)
(*   domains   the domains rows that are active;                           *)
(*   evidence  the lines of domain_evidence: a domain and a raw line.      *)
(* The raw line is the indicator's pattern, here the set of its domains.   *)
(***************************************************************************)
EXTENDS Naturals

CONSTANTS
    Indicators, \* STIX ids
    Domains,    \* normalized domain rules
    Labels      \* the category an indicator's labels map to

NoIndicator == "no record"
NoRow == [record |-> NoIndicator, revoked |-> FALSE, modified |-> 0,
          label |-> NoIndicator, active |-> FALSE]

\* A STIX object as FromSTIX decodes it; no domains: not about domain names.
Object ==
    [domains : SUBSET Domains, revoked : BOOLEAN, detection : BOOLEAN,
     label : Labels, modified : Nat]

\* What one Live Stream event says; from: the ids a merge has folded into id.
Event ==
    [kind : {"create", "update", "delete", "merge"}, id : Indicators,
     from : SUBSET Indicators, object : Object]

Database ==
    [rows : [Domains -> [record : Indicators \cup {NoIndicator}, revoked : BOOLEAN,
                         modified : Nat, label : Labels \cup {NoIndicator},
                         active : BOOLEAN]],
     domains : SUBSET Domains,
     evidence : SUBSET (Domains \X SUBSET Domains)]

EmptyDatabase ==
    [rows |-> [d \in Domains |-> NoRow], domains |-> {}, evidence |-> {}]

\* Variant: no event is too old.
NeverStale(db, ev) == FALSE

\* isStale: a row of this indicator is at least as recent as the event.
Stale(db, ev) ==
    \E d \in Domains : /\ db.rows[d].record = ev.id
                       /\ db.rows[d].modified >= ev.object.modified

\* Variant: a revoked indicator is written as inactive.
UpsertInactive(db, ev) ==
    LET object == ev.object
        row == [record |-> ev.id, revoked |-> object.revoked,
                modified |-> object.modified, label |-> object.label,
                active |-> ~object.revoked]
    IN
    IF Stale(db, ev) THEN db
    ELSE [rows |-> [d \in Domains |-> IF d \in object.domains THEN row ELSE db.rows[d]],
          domains |-> db.domains \cup object.domains,
          evidence |-> db.evidence \cup (object.domains \X {object.domains})]

\* UpsertOpenCTI: nothing for a stale event; otherwise every domain of the
\* pattern has its row overwritten, revoked or not, and gets its evidence.
UpsertOpenCTI(db, ev) ==
    LET object == ev.object
        row == [record |-> ev.id, revoked |-> object.revoked,
                modified |-> object.modified, label |-> object.label, active |-> TRUE]
    IN
    IF Stale(db, ev) THEN db
    ELSE [rows |-> [d \in Domains |-> IF d \in object.domains THEN row ELSE db.rows[d]],
          domains |-> db.domains \cup object.domains,
          evidence |-> db.evidence \cup (object.domains \X {object.domains})]

\* DeleteOpenCTI: the rows of the indicator are switched off and lose the veto;
\* source_modified_at stays.
DeleteOpenCTI(db, id) ==
    [db EXCEPT !.rows =
        [d \in Domains |->
            IF db.rows[d].record = id
            THEN [db.rows[d] EXCEPT !.active = FALSE, !.revoked = FALSE]
            ELSE db.rows[d]]]

\* MergeOpenCTI: first the rows of merged ids on a domain that also has a row of
\* the survivor go (the two are one row: only when the ids are equal), then the
\* others take the survivor's id.
MergeOpenCTI(db, from, to) ==
    [db EXCEPT !.rows =
        [d \in Domains |->
            IF db.rows[d].record \notin from THEN db.rows[d]
            ELSE IF db.rows[d].record = to THEN NoRow
            ELSE [db.rows[d] EXCEPT !.record = to]]]

\* handleUpsert: only a detection on domain names is written.
Writable(object) == object.detection /\ object.domains # {}

HandleUpsert(db, ev) ==
    IF Writable(ev.object) THEN UpsertOpenCTI(db, ev) ELSE db

\* Handle, every database call of it.
Handle(db, ev) ==
    CASE ev.kind = "delete" -> DeleteOpenCTI(db, ev.id)
      [] ev.kind = "merge"  -> HandleUpsert(MergeOpenCTI(db, ev.from, ev.id), ev)
      [] OTHER              -> HandleUpsert(db, ev)
=============================================================================
