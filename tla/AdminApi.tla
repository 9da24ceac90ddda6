------------------------------- MODULE AdminApi -------------------------------
(***************************************************************************)
(* The writes of the dashboard (internal/adminapi, internal/store/admin):  *)
(* a request passes `authenticated`, the handler may look at the row it is *)
(* about, judges, changes it with one statement, and then writes a line of *)
(* admin_audit_log.  Each of these is a statement of its own, outside a    *)
(* transaction, so requests interleave between them; a statement can fail, *)
(* its answer can be lost, and the service can stop in between.            *)
(*                                                                         *)
(* A field that a request may leave out is a set of at most one value.     *)
(* Of sessions only what the handlers see of them is here, the user and    *)
(* the role.  The requests to run something now are in TriggerQueue.       *)
(***************************************************************************)
EXTENDS Naturals, Sequences, Functions

CONSTANTS
    Handlers,   \* requests the service handles at a time
    Users,
    Role,       \* Role[u]: the permissions of u
    Licenses,   \* what a source's license can say, "" apart
    Asks,       \* the requests that come, see Ask
    MaxId,      \* bound on the rows that are inserted
    MaxRequests \* bound on the requests that are let in

None == ""      \* no license, or NULL
Tiers == {"soft", "protected"}
Ids == 1..MaxId

Row == [enabled : BOOLEAN, license : Licenses \cup {None}]
Optional(S) == {{}} \cup {{v} : v \in S}

Ask ==
    [op : {"source.create"}, enabled : Optional(BOOLEAN), license : Optional(Licenses \cup {None})]
        \cup [op : {"source.update"}, id : Ids, enabled : Optional(BOOLEAN),
              license : Optional(Licenses \cup {None})]
        \cup [op : {"source.disable", "source.purge", "allowlist.remove"}, id : Ids]
        \cup [op : {"allowlist.add"}, tier : Tiers]

ASSUME AdminAssumption ==
    /\ None \notin Licenses
    /\ Asks \subseteq Ask
    /\ MaxId \in Nat /\ MaxRequests \in Nat

VARIABLES
    sources,    \* sources[i]: the row with id i, in a set that is empty when there is none
    allow,      \* the row of global_allowlist on one name and match type, likewise
    nextSource, \* the sequence of sources.id
    nextAllow,
    log,        \* admin_audit_log
    taken,      \* how many requests have been let in
    req,        \* req[h]: the request h is at
    unlogged,   \* a change has been made whose entry nobody will write
    first       \* sources and allow at the start

tables == <<sources, allow, nextSource, nextAllow>>
vars == <<tables, log, taken, req, unlogged, first>>

\* SQL's COALESCE.
Coalesce(given, stored) == IF given = {} THEN stored ELSE CHOOSE v \in given : TRUE

Permission(a) ==
    IF a.op \in {"allowlist.add", "allowlist.remove"} THEN "allowlist:write" ELSE "source:write"

\* before is the row the handler has read, in a set; entity the id its entry will name.
NoRequest == [pc |-> "idle", user |-> "none", ask |-> [op |-> "none"], before |-> {}, entity |-> 0]

\* Sources and allowlist entries that the migrations and earlier requests have left.
Init ==
    /\ sources \in [Ids -> {{}} \cup {{r} : r \in Row}]
    /\ \A i \in Ids : i > 1 => sources[i] = {}
    /\ \A i \in Ids : \A r \in sources[i] : r.enabled => r.license # None
    /\ allow \in {{}} \cup {{[id |-> 1, tier |-> t]} : t \in Tiers}
    /\ nextSource = 2 /\ nextAllow = 2
    /\ log = << >>
    /\ taken = 0
    /\ req = [h \in Handlers |-> NoRequest]
    /\ unlogged = FALSE
    /\ first = [sources |-> sources, allow |-> allow]

\* Session gives the user with the permissions of the role as of now: a logout or another
\* role counts from the next request on.
Authenticated(h, u, a) ==
    /\ req[h].pc = "idle"
    /\ taken < MaxRequests
    /\ taken' = taken + 1
    /\ Permission(a) \in Role[u]
    /\ req' = [req EXCEPT ![h].pc = "handling", ![h].user = u, ![h].ask = a]
    /\ UNCHANGED <<tables, log, unlogged, first>>

-----------------------------------------------------------------------------
(* The handlers.                                                           *)

\* Variant: a license the row has speaks for the request.
LicenseOfRow(a, stored) == IF stored # None THEN stored ELSE Coalesce(a.license, stored)

\* What the judgement goes by: what the request says, or else what the row said.
License(a, stored) == Coalesce(a.license, stored)

MayEnable(a, stored) == a.enabled = {TRUE} => License(a, stored) # None

MayTouch(u, tier) == tier = "protected" => "protected:write" \in Role[u]

\* The row a request is about, as its handler reads it.
Seen(a) ==
    CASE a.op \in {"source.update", "source.disable", "source.purge"} -> sources[a.id]
      [] a.op = "allowlist.remove" -> {e \in allow : e.id = a.id}
      [] OTHER -> {}

Accepts(u, a, seen) ==
    CASE a.op = "source.create" -> MayEnable(a, None)
      [] a.op = "source.update" -> \E r \in seen : MayEnable(a, r.license)
      [] a.op \in {"source.disable", "source.purge"} -> seen # {}
      [] a.op = "allowlist.add" -> MayTouch(u, a.tier)
      [] a.op = "allowlist.remove" -> \E e \in seen : MayTouch(u, e.tier)

Look(h) ==
    /\ req[h].pc = "handling"
    /\ Accepts(req[h].user, req[h].ask, Seen(req[h].ask))
    /\ req' = [req EXCEPT ![h].pc = "accepted", ![h].before = Seen(req[h].ask)]
    /\ UNCHANGED <<tables, log, taken, unlogged, first>>

Idle(h) == req' = [req EXCEPT ![h] = NoRequest]

\* 400, 403 or 404; or the read fails.
Refuse(h) ==
    /\ req[h].pc = "handling"
    /\ Idle(h)
    /\ UNCHANGED <<tables, log, taken, unlogged, first>>

\* The id of the row a request inserts or is about; on a conflict the row keeps its own.
Names(a) ==
    CASE a.op = "source.create" -> nextSource
      [] a.op = "allowlist.add" -> IF allow = {} THEN nextAllow ELSE (CHOOSE e \in allow : TRUE).id
      [] OTHER -> a.id

CreateSource(a) ==
    /\ a.op = "source.create"
    /\ nextSource \in Ids
    /\ sources' = [sources EXCEPT ![nextSource] =
           {[enabled |-> Coalesce(a.enabled, FALSE), license |-> Coalesce(a.license, None)]}]
    /\ nextSource' = nextSource + 1
    /\ UNCHANGED <<allow, nextAllow>>

\* Variant: what the request leaves out is written back as it was read.
UpdatedAsRead(a, read, stored) ==
    [enabled |-> Coalesce(a.enabled, (CHOOSE r \in read : TRUE).enabled),
     license |-> Coalesce(a.license, (CHOOSE r \in read : TRUE).license)]

\* What the request leaves out comes from the row the UPDATE finds, not from the one read.
Updated(a, read, stored) ==
    [enabled |-> Coalesce(a.enabled, stored.enabled),
     license |-> Coalesce(a.license, stored.license)]

UpdateSource(a, read) ==
    /\ a.op = "source.update"
    /\ sources' = [sources EXCEPT ![a.id] = {Updated(a, read, r) : r \in @}]
    /\ UNCHANGED <<allow, nextSource, nextAllow>>

DisableSource(a) ==
    /\ a.op = "source.disable"
    /\ sources' = [sources EXCEPT ![a.id] = {[r EXCEPT !.enabled = FALSE] : r \in @}]
    /\ UNCHANGED <<allow, nextSource, nextAllow>>

PurgeSource(a) ==
    /\ a.op = "source.purge"
    /\ sources' = [sources EXCEPT ![a.id] = {}]
    /\ UNCHANGED <<allow, nextSource, nextAllow>>

\* The number that the default of id has taken is gone on a conflict, too.
AddAllowlist(a) ==
    /\ a.op = "allowlist.add"
    /\ nextAllow \in Ids
    /\ allow' = {[id |-> Names(a), tier |-> a.tier]}
    /\ nextAllow' = nextAllow + 1
    /\ UNCHANGED <<sources, nextSource>>

RemoveAllowlist(a) ==
    /\ a.op = "allowlist.remove"
    /\ allow' = {e \in allow : e.id # a.id}
    /\ UNCHANGED <<sources, nextSource, nextAllow>>

Statement(h) ==
    /\ req[h].pc = "accepted"
    /\ LET a == req[h].ask
       IN \/ CreateSource(a)
          \/ UpdateSource(a, req[h].before)
          \/ DisableSource(a)
          \/ PurgeSource(a)
          \/ AddAllowlist(a)
          \/ RemoveAllowlist(a)

Change(h) ==
    /\ Statement(h)
    /\ req' = [req EXCEPT ![h].pc = "changed", ![h].entity = Names(req[h].ask)]
    /\ UNCHANGED <<log, taken, unlogged, first>>

\* The statement fails, or only its answer is lost: the handler returns without an entry.
FailChange(h) ==
    /\ req[h].pc = "accepted"
    /\ \/ UNCHANGED <<tables, unlogged>>
       \/ Statement(h) /\ unlogged' = TRUE
    /\ Idle(h)
    /\ UNCHANGED <<log, taken, first>>

Entry(h) ==
    [actor |-> req[h].user, ask |-> req[h].ask, id |-> req[h].entity, before |-> req[h].before]

Audit(h) ==
    /\ req[h].pc = "changed"
    /\ log' = Append(log, Entry(h))
    /\ Idle(h)
    /\ UNCHANGED <<tables, taken, unlogged, first>>

\* The client has gone and taken the request's context with it, or the insert fails.
FailAudit(h) ==
    /\ req[h].pc = "changed"
    /\ Idle(h)
    /\ unlogged' = TRUE
    /\ UNCHANGED <<tables, log, taken, first>>

Crash ==
    /\ \E h \in Handlers : req[h] # NoRequest
    /\ unlogged' = (unlogged \/ \E h \in Handlers : req[h].pc = "changed")
    /\ req' = [h \in Handlers |-> NoRequest]
    /\ UNCHANGED <<tables, log, taken, first>>

Next ==
    \/ \E h \in Handlers, u \in Users, a \in Asks : Authenticated(h, u, a)
    \/ \E h \in Handlers : Look(h) \/ Refuse(h) \/ Change(h) \/ FailChange(h)
    \/ \E h \in Handlers : Audit(h) \/ FailAudit(h)
    \/ Crash

Spec == Init /\ [][Next]_vars

-----------------------------------------------------------------------------
(* What the log tells.                                                     *)

\* The tables after what an entry says, done to db.
Done(db, e) ==
    LET a == e.ask
        Set(rows) == [db EXCEPT !.sources[e.id] = rows]
    IN CASE a.op = "source.create" ->
              Set({[enabled |-> a.enabled = {TRUE},
                    license |-> IF a.license = {} THEN None ELSE CHOOSE l \in a.license : TRUE]})
         [] a.op = "source.update" ->
              Set({[enabled |-> Coalesce(a.enabled, r.enabled),
                    license |-> Coalesce(a.license, r.license)] : r \in db.sources[e.id]})
         [] a.op = "source.disable" ->
              Set({[enabled |-> FALSE, license |-> r.license] : r \in db.sources[e.id]})
         [] a.op = "source.purge" -> Set({})
         [] a.op = "allowlist.add" -> [db EXCEPT !.allow = {[id |-> e.id, tier |-> a.tier]}]
         [] a.op = "allowlist.remove" -> [db EXCEPT !.allow = {x \in @ : x.id # e.id}]

\* After(order)[k]: the tables after the first k entries of the log taken in that order.
After(order) ==
    LET db[k \in 0..Len(log)] == IF k = 0 THEN first ELSE Done(db[k - 1], log[order[k]])
    IN db

RowOf(db, e) ==
    IF e.ask.op = "allowlist.remove" THEN {x \in db.allow : x.id = e.id} ELSE db.sources[e.id]

\* Taken in this order the entries lead to the tables as they are, and each has a
\* `before` that the row had been at when the requests before it, or some of them, were done.
Explains(order) ==
    /\ After(order)[Len(log)] = [sources |-> sources, allow |-> allow]
    /\ \A j \in DOMAIN log :
           log[order[j]].before # {} =>
               \E k \in 0..(j - 1) : log[order[j]].before = RowOf(After(order)[k], log[order[j]])

Orders == Bijection(DOMAIN log, DOMAIN log)

Settled == \A h \in Handlers : req[h].pc # "changed"

\* However requests interleave, the log accounts for the tables: the entries, in the order
\* in which the statements were done, lead from the tables of the start to those there are,
\* and each `before` is a row that was there earlier.  A handler that wrote back what it had
\* read, or a change that skips audit, breaks it.  Only changes whose entry was lost are excused
\* (handleUpdateSource and the others, audit).
LogExplains == Settled /\ ~unlogged => \E order \in Orders : Explains(order)

Bare(rows) == \E r \in rows : r.enabled /\ r.license = None

\* Accepted without naming a license, on the strength of one it saw in the row.
TrustsTheRow(h) ==
    req[h].ask.license = {} /\ \E r \in req[h].before : r.license # None

\* Takes the license away and does not enable.
TakesLicense(h) ==
    req[h].ask.license = {None} /\ req[h].ask.enabled # {TRUE}

\* A source comes to be enabled without a license in two ways only: a request takes the
\* license away from it, or one enables it that has seen a license which is gone by then
\* (the check of handleCreateSource and handleUpdateSource).
LicenseJudged ==
    [][\A i \in Ids :
           ~Bare(sources[i]) /\ Bare(sources'[i]) =>
               \E h \in Handlers :
                   /\ req[h].pc = "accepted" /\ req[h].ask.op = "source.update"
                   /\ TrustsTheRow(h) \/ TakesLicense(h)]_vars

-----------------------------------------------------------------------------
(* What does not hold.                                                     *)

\* Every change of a finished request can be told from the log (auth.go, Audit).
WritesLogged ==
    (\A h \in Handlers : req[h] = NoRequest) => \E order \in Orders : Explains(order)

\* The order of the log is the order of the changes.
LogInOrder == Settled /\ ~unlogged => Explains([j \in DOMAIN log |-> j])

\* An enabled source has a license (handleUpdateSource).
EnabledIsLicensed == \A i \in Ids : ~Bare(sources[i])
=============================================================================
