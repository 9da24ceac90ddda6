---------------------------- MODULE AdminApiProofs ----------------------------
(***************************************************************************)
(* That enabling a source is judged, and that the log explains the tables, *)
(* for any requests, however many are handled at a time.  The invariant    *)
(* behind the first: what a handler is about to do has been accepted on    *)
(* the row it has read, which may be another by now (Judged).  Behind the  *)
(* second: the statements have an order, each entry of the log or to come  *)
(* has its place in it, and what was read was in the tables before         *)
(* (LogInv).                                                               *)
(***************************************************************************)
EXTENDS AdminApi, FiniteSetTheorems, TLAPS

Entries == [id : Nat, tier : Tiers]

Request ==
    [pc : {"idle", "handling", "accepted", "changed"},
     user : Users \cup {"none"},
     ask : Ask \cup {[op |-> "none"]},
     before : SUBSET (Row \cup Entries),
     entity : Nat]

\* The tables and the requests keep their types; a request under way is one that can come.
TypeInv ==
    /\ sources \in [Ids -> SUBSET Row]
    /\ allow \in SUBSET Entries
    /\ nextSource \in Nat
    /\ nextAllow \in Nat
    /\ req \in [Handlers -> Request]
    /\ \A h \in Handlers : req[h].pc # "idle" => req[h].ask \in Ask

\* A statement is only done for a request that its row, as read, lets through.
Judged ==
    \A h \in Handlers :
        req[h].pc = "accepted" => Accepts(req[h].user, req[h].ask, req[h].before)

Inv == TypeInv /\ Judged

-----------------------------------------------------------------------------
(* Fields that may be left out.                                            *)

\* COALESCE gives the value, or what is stored (every UPDATE of api.go).
LEMMA CoalesceType ==
    ASSUME NEW S, NEW given \in Optional(S), NEW stored \in S
    PROVE  /\ Coalesce(given, stored) \in S
           /\ given = {} => Coalesce(given, stored) = stored
           /\ \A v : given = {v} => Coalesce(given, stored) = v
  <1>1. CASE given = {}
    BY <1>1 DEF Coalesce
  <1>2. CASE given # {}
    <2>1. PICK v \in S : given = {v}
      BY <1>2 DEF Optional
    <2>2. \A w : given = {w} => w = v
      BY <2>1
    <2>3. (CHOOSE w \in given : TRUE) = v
      BY <2>1
    <2> QED
      BY <1>2, <2>1, <2>2, <2>3 DEF Coalesce
  <1> QED
    BY <1>1, <1>2

\* What was off is on only when the request says so.
LEMMA SwitchedOn ==
    ASSUME NEW given, Coalesce(given, FALSE) = TRUE
    PROVE  given # {} /\ given # {FALSE}
  <1>1. (CHOOSE v \in {FALSE} : TRUE) = FALSE
    OBVIOUS
  <1>2. {FALSE} # {}
    OBVIOUS
  <1>3. given # {}
    BY DEF Coalesce
  <1>4. given # {FALSE}
    BY <1>1, <1>2 DEF Coalesce
  <1> QED
    BY <1>3, <1>4

\* The fields of a request to change a source.
LEMMA AskFields ==
    ASSUME NEW a \in Ask
    PROVE  /\ a.op = "source.create" =>
                  /\ a.enabled \in Optional(BOOLEAN)
                  /\ a.license \in Optional(Licenses \cup {None})
           /\ a.op = "source.update" =>
                  /\ a.id \in Ids
                  /\ a.enabled \in Optional(BOOLEAN)
                  /\ a.license \in Optional(Licenses \cup {None})
           /\ a.op \in {"source.disable", "source.purge", "allowlist.remove"} => a.id \in Ids
           /\ a.op = "allowlist.add" => a.tier \in Tiers
           /\ a.op \in {"source.create", "source.update", "source.disable", "source.purge",
                        "allowlist.add", "allowlist.remove"}
  BY DEF Ask

\* The row an UPDATE leaves is a row.
LEMMA UpdatedType ==
    ASSUME NEW a \in Ask, a.op = "source.update", NEW read, NEW r \in Row
    PROVE  Updated(a, read, r) \in Row
  <1>1. Coalesce(a.enabled, r.enabled) \in BOOLEAN
    BY AskFields, CoalesceType DEF Row
  <1>2. Coalesce(a.license, r.license) \in Licenses \cup {None}
    BY AskFields, CoalesceType DEF Row
  <1> QED
    BY <1>1, <1>2 DEF Updated, Row

-----------------------------------------------------------------------------
(* What a statement does to the tables.                                    *)

\* Whatever statement a request does, the tables keep their types.
LEMMA StatementType ==
    ASSUME TypeInv, NEW h \in Handlers, Statement(h)
    PROVE  /\ sources' \in [Ids -> SUBSET Row]
           /\ allow' \in SUBSET Entries
           /\ nextSource' \in Nat
           /\ nextAllow' \in Nat
           /\ Names(req[h].ask) \in Nat
  <1> DEFINE a == req[h].ask
  <1>1. /\ a \in Ask
        /\ \/ CreateSource(a) \/ UpdateSource(a, req[h].before) \/ DisableSource(a)
           \/ PurgeSource(a) \/ AddAllowlist(a) \/ RemoveAllowlist(a)
    BY DEF Statement, TypeInv
  <1> HIDE DEF a
  <1> USE AdminAssumption
  <1>2. ASSUME allow # {}
        PROVE  (CHOOSE e \in allow : TRUE).id \in Nat
    BY <1>2 DEF TypeInv, Entries
  <1>3. Names(a) \in Nat
    <2>1. CASE a.op = "source.create"
      BY <2>1 DEF Names, TypeInv
    <2>2. CASE a.op = "allowlist.add"
      BY <2>2, <1>2 DEF Names, TypeInv
    <2>3. CASE a.op \in {"source.update", "source.disable", "source.purge", "allowlist.remove"}
      <3>1. Names(a) = a.id
        BY <2>3 DEF Names
      <3> QED
        BY <3>1, <2>3, <1>1, AskFields DEF Ids
    <2> QED
      BY <1>1, <2>1, <2>2, <2>3, AskFields
  <1>4. CASE CreateSource(a)
    <2> DEFINE new == [enabled |-> Coalesce(a.enabled, FALSE), license |-> Coalesce(a.license, None)]
    <2>1. new \in Row
      <3>1. Coalesce(a.enabled, FALSE) \in BOOLEAN
        BY <1>1, <1>4, AskFields, CoalesceType DEF CreateSource
      <3>2. Coalesce(a.license, None) \in Licenses \cup {None}
        BY <1>1, <1>4, AskFields, CoalesceType DEF CreateSource
      <3> QED
        BY <3>1, <3>2 DEF Row
    <2> QED
      BY <2>1, <1>3, <1>4 DEF CreateSource, TypeInv, a
  <1>5. CASE UpdateSource(a, req[h].before)
    <2>1. a.id \in Ids
      BY <1>1, <1>5, AskFields DEF UpdateSource
    <2>2. {Updated(a, req[h].before, r) : r \in sources[a.id]} \in SUBSET Row
      BY <2>1, <1>1, <1>5, UpdatedType DEF UpdateSource, TypeInv
    <2> QED
      BY <2>1, <2>2, <1>3, <1>5 DEF UpdateSource, TypeInv, a
  <1>6. CASE DisableSource(a)
    <2>1. a.id \in Ids
      BY <1>1, <1>6, AskFields DEF DisableSource
    <2>2. {[r EXCEPT !.enabled = FALSE] : r \in sources[a.id]} \in SUBSET Row
      <3>1. \A r \in Row : [r EXCEPT !.enabled = FALSE] \in Row
        BY DEF Row
      <3>2. sources[a.id] \in SUBSET Row
        BY <2>1 DEF TypeInv
      <3> QED
        BY <3>1, <3>2
    <2> QED
      BY <2>1, <2>2, <1>3, <1>6 DEF DisableSource, TypeInv, a
  <1>7. CASE PurgeSource(a)
    BY <1>3, <1>7 DEF PurgeSource, TypeInv, a
  <1>8. CASE AddAllowlist(a)
    <2>1. [id |-> Names(a), tier |-> a.tier] \in Entries
      BY <1>1, <1>3, <1>8, AskFields DEF AddAllowlist, Entries
    <2> QED
      BY <2>1, <1>3, <1>8 DEF AddAllowlist, TypeInv, a
  <1>9. CASE RemoveAllowlist(a)
    BY <1>3, <1>9 DEF RemoveAllowlist, TypeInv, a
  <1> QED
    BY <1>1, <1>4, <1>5, <1>6, <1>7, <1>8, <1>9

\* A statement leaves a source enabled without a license only as LicenseJudged says.
LEMMA StatementJudged ==
    ASSUME Inv, NEW h \in Handlers, Statement(h), NEW i \in Ids,
           ~Bare(sources[i]), Bare(sources'[i])
    PROVE  /\ req[h].pc = "accepted" /\ req[h].ask.op = "source.update"
           /\ TrustsTheRow(h) \/ TakesLicense(h)
  <1> DEFINE a == req[h].ask
             read == req[h].before
  <1>1. /\ a \in Ask
        /\ req[h].pc = "accepted"
        /\ Accepts(req[h].user, a, read)
        /\ sources \in [Ids -> SUBSET Row]
        /\ \/ CreateSource(a) \/ UpdateSource(a, read) \/ DisableSource(a)
           \/ PurgeSource(a) \/ AddAllowlist(a) \/ RemoveAllowlist(a)
    BY DEF Statement, Inv, TypeInv, Judged
  <1>2. TrustsTheRow(h) = (a.license = {} /\ \E r \in read : r.license # None)
    BY DEF TrustsTheRow
  <1>3. TakesLicense(h) = (a.license = {None} /\ a.enabled # {TRUE})
    BY DEF TakesLicense
  <1> HIDE DEF a, read
  <1> USE AdminAssumption
  <1>4. CASE CreateSource(a)
    <2> DEFINE new == [enabled |-> Coalesce(a.enabled, FALSE), license |-> Coalesce(a.license, None)]
    <2>1. /\ a.enabled \in Optional(BOOLEAN)
          /\ a.license \in Optional(Licenses \cup {None})
          /\ a.op = "source.create"
      BY <1>1, <1>4, AskFields DEF CreateSource
    <2>2. i = nextSource /\ sources'[i] = {new}
      BY <1>1, <1>4 DEF CreateSource, Bare
    <2>3. Coalesce(a.enabled, FALSE) = TRUE /\ Coalesce(a.license, None) = None
      <3>1. Coalesce(a.enabled, FALSE) \in BOOLEAN
        BY <2>1, CoalesceType
      <3>2. new.enabled /\ new.license = None
        BY <2>2 DEF Bare
      <3> QED
        BY <3>1, <3>2
    <2>4. a.enabled = {TRUE}
      <3>1. a.enabled # {} /\ a.enabled # {FALSE}
        BY <2>3, SwitchedOn
      <3> QED
        BY <3>1, <2>1 DEF Optional
    <2>5. License(a, None) # None
      BY <1>1, <2>1, <2>4 DEF Accepts, MayEnable
    <2> QED
      BY <2>3, <2>5 DEF License
  <1>5. CASE UpdateSource(a, read)
    <2>1. /\ a.id \in Ids
          /\ a.enabled \in Optional(BOOLEAN)
          /\ a.license \in Optional(Licenses \cup {None})
          /\ a.op = "source.update"
      BY <1>1, <1>5, AskFields DEF UpdateSource
    <2>2. i = a.id /\ sources'[i] = {Updated(a, read, r) : r \in sources[i]}
      BY <1>1, <1>5, <2>1 DEF UpdateSource, Bare
    <2>3. PICK r \in sources[i] : Updated(a, read, r).enabled /\ Updated(a, read, r).license = None
      BY <2>2 DEF Bare
    <2>4. /\ r \in Row
          /\ ~(r.enabled /\ r.license = None)
      BY <1>1, <2>3 DEF Bare
    <2>5. r.enabled \in BOOLEAN /\ r.license \in Licenses \cup {None}
      BY <2>4 DEF Row
    <2>6. Coalesce(a.enabled, r.enabled) = TRUE /\ Coalesce(a.license, r.license) = None
      <3>1. Coalesce(a.enabled, r.enabled) \in BOOLEAN
        BY <2>1, <2>5, CoalesceType
      <3> QED
        BY <3>1, <2>3 DEF Updated
    <2>7. PICK seen \in read : MayEnable(a, seen.license)
      BY <1>1, <2>1 DEF Accepts
    <2>8. a.license = {} \/ \E l \in Licenses \cup {None} : a.license = {l}
      BY <2>1 DEF Optional
    <2>9. CASE a.license = {}
      <3>1. r.license = None
        BY <2>1, <2>5, <2>6, <2>9, CoalesceType
      <3>2. ~r.enabled
        BY <2>4, <3>1
      <3>3. a.enabled = {TRUE}
        <4>1. a.enabled # {} /\ a.enabled # {FALSE}
          <5>1. r.enabled = FALSE
            BY <2>5, <3>2
          <5> QED
            BY <5>1, <2>6, SwitchedOn
        <4> QED
          BY <4>1, <2>1 DEF Optional
      <3>4. License(a, seen.license) # None
        BY <2>7, <3>3 DEF MayEnable
      <3>5. seen.license # None
        BY <3>4, <2>9 DEF License, Coalesce
      <3> QED
        BY <3>5, <2>9, <1>2, <1>1, <2>1 DEF a, read
    <2>10. CASE \E l \in Licenses \cup {None} : a.license = {l}
      <3>1. PICK l \in Licenses \cup {None} : a.license = {l}
        BY <2>10
      <3>2. l = None
        BY <2>1, <2>5, <2>6, <3>1, CoalesceType
      <3>3. ASSUME a.enabled = {TRUE}
            PROVE  FALSE
        <4>1. License(a, seen.license) # None
          BY <2>7, <3>3 DEF MayEnable
        <4>2. License(a, seen.license) = None
          <5>1. (CHOOSE v \in {None} : TRUE) = None
            OBVIOUS
          <5> QED
            BY <5>1, <3>1, <3>2 DEF License, Coalesce
        <4> QED
          BY <4>1, <4>2
      <3> QED
        BY <3>1, <3>2, <3>3, <1>3, <1>1, <2>1 DEF a, read
    <2> QED
      BY <2>8, <2>9, <2>10
  <1>6. CASE DisableSource(a)
    <2>1. i = a.id /\ sources'[i] = {[r EXCEPT !.enabled = FALSE] : r \in sources[i]}
      BY <1>1, <1>6, AskFields DEF DisableSource, Bare
    <2>2. \A r \in sources[i] : r \in Row
      BY <1>1
    <2>3. \A r \in Row : ~[r EXCEPT !.enabled = FALSE].enabled
      BY DEF Row
    <2> QED
      BY <2>1, <2>2, <2>3 DEF Bare
  <1>7. CASE PurgeSource(a)
    BY <1>1, <1>7, AskFields DEF PurgeSource, Bare
  <1>8. CASE AddAllowlist(a) \/ RemoveAllowlist(a)
    BY <1>8 DEF AddAllowlist, RemoveAllowlist
  <1> QED
    BY <1>1, <1>4, <1>5, <1>6, <1>7, <1>8

-----------------------------------------------------------------------------
(* The steps.                                                              *)

LEMMA RestIsIdle ==
    /\ NoRequest \in Request
    /\ NoRequest.pc = "idle"
  BY DEF NoRequest, Request

LEMMA SeenType ==
    ASSUME TypeInv, NEW a \in Ask
    PROVE  Seen(a) \in SUBSET (Row \cup Entries)
  <1>1. CASE a.op \in {"source.update", "source.disable", "source.purge"}
    <2>1. Seen(a) = sources[a.id]
      BY <1>1 DEF Seen
    <2> QED
      BY <2>1, <1>1, AskFields DEF TypeInv
  <1>2. CASE a.op = "allowlist.remove"
    <2>1. Seen(a) = {e \in allow : e.id = a.id}
      BY <1>2 DEF Seen
    <2> QED
      BY <2>1 DEF TypeInv
  <1>3. CASE a.op \in {"source.create", "allowlist.add"}
    <2>1. Seen(a) = {}
      BY <1>3 DEF Seen
    <2> QED
      BY <2>1
  <1> QED
    BY <1>1, <1>2, <1>3, AskFields

LEMMA InitInv == Init => Inv
  <1> SUFFICES ASSUME Init PROVE Inv
    OBVIOUS
  <1>1. sources \in [Ids -> SUBSET Row]
    BY DEF Init
  <1>2. allow \in SUBSET Entries
    BY DEF Init, Entries
  <1>3. req = [h \in Handlers |-> NoRequest] /\ nextSource = 2 /\ nextAllow = 2
    BY DEF Init
  <1> QED
    BY <1>1, <1>2, <1>3, RestIsIdle DEF Inv, TypeInv, Judged

\* A handler that is done forgets its request.
LEMMA IdleInv ==
    ASSUME Inv, NEW h \in Handlers, Idle(h),
           sources' \in [Ids -> SUBSET Row], allow' \in SUBSET Entries,
           nextSource' \in Nat, nextAllow' \in Nat
    PROVE  Inv'
  BY RestIsIdle DEF Inv, TypeInv, Judged, Idle

LEMMA NextInv ==
    ASSUME Inv, [Next]_vars
    PROVE  Inv'
  <1> USE DEF Inv
  <1>1. CASE UNCHANGED vars
    BY <1>1 DEF vars, tables, TypeInv, Judged
  <1>2. ASSUME NEW h \in Handlers, NEW u \in Users, NEW a \in Asks, Authenticated(h, u, a)
        PROVE  Inv'
    <2> DEFINE new == [req[h] EXCEPT !.pc = "handling", !.user = u, !.ask = a]
    <2>1. a \in Ask
      BY AdminAssumption
    <2>2. req' = [req EXCEPT ![h] = new]
      BY <1>2 DEF Authenticated, TypeInv, Request
    <2>3. new \in Request /\ new.pc = "handling" /\ new.ask = a
      BY <2>1 DEF TypeInv, Request
    <2> HIDE DEF new
    <2>4. UNCHANGED tables
      BY <1>2 DEF Authenticated
    <2> QED
      BY <2>1, <2>2, <2>3, <2>4 DEF tables, TypeInv, Judged
  <1>3. ASSUME NEW h \in Handlers, Look(h)
        PROVE  Inv'
    <2> DEFINE a == req[h].ask
               new == [req[h] EXCEPT !.pc = "accepted", !.before = Seen(a)]
    <2>1. a \in Ask
      BY <1>3 DEF Look, TypeInv
    <2>2. Seen(a) \in SUBSET (Row \cup Entries)
      BY <2>1, SeenType
    <2>3. req' = [req EXCEPT ![h] = new]
      BY <1>3 DEF Look, TypeInv, Request
    <2>4. /\ new \in Request /\ new.pc = "accepted" /\ new.ask = a
          /\ new.user = req[h].user /\ new.before = Seen(a)
      BY <2>2 DEF TypeInv, Request
    <2>5. Accepts(req[h].user, a, Seen(a)) /\ UNCHANGED tables
      BY <1>3 DEF Look
    <2> HIDE DEF new, a
    <2>6. TypeInv'
      BY <2>1, <2>3, <2>4, <2>5 DEF tables, TypeInv
    <2>7. ASSUME NEW g \in Handlers, req'[g].pc = "accepted"
          PROVE  Accepts(req'[g].user, req'[g].ask, req'[g].before)
      <3>1. CASE g = h
        BY <3>1, <2>3, <2>4, <2>5 DEF TypeInv
      <3>2. CASE g # h
        BY <3>2, <2>3, <2>7 DEF TypeInv, Judged
      <3> QED
        BY <3>1, <3>2
    <2> QED
      BY <2>6, <2>7 DEF Judged, Accepts
  <1>4. ASSUME NEW h \in Handlers, Refuse(h)
        PROVE  Inv'
    BY <1>4, IdleInv DEF Refuse, tables, TypeInv
  <1>5. ASSUME NEW h \in Handlers, Change(h)
        PROVE  Inv'
    <2> DEFINE new == [req[h] EXCEPT !.pc = "changed", !.entity = Names(req[h].ask)]
    <2>1. Statement(h)
      BY <1>5 DEF Change
    <2>2. req' = [req EXCEPT ![h] = new]
      BY <1>5 DEF Change, TypeInv, Request
    <2>3. new \in Request /\ new.pc = "changed" /\ new.ask = req[h].ask /\ req[h].ask \in Ask
      BY <2>1, StatementType DEF Statement, TypeInv, Request
    <2> HIDE DEF new
    <2>4. TypeInv'
      BY <2>1, <2>2, <2>3, StatementType DEF TypeInv
    <2>5. Judged'
      BY <2>2, <2>3 DEF TypeInv, Judged, Accepts
    <2> QED
      BY <2>4, <2>5
  <1>6. ASSUME NEW h \in Handlers, FailChange(h)
        PROVE  Inv'
    <2>1. CASE Statement(h)
      <3>1. CASE UNCHANGED tables
        BY <1>6, <3>1, IdleInv DEF FailChange, tables, TypeInv
      <3>2. CASE ~UNCHANGED tables
        BY <1>6, <2>1, StatementType, IdleInv DEF FailChange
      <3> QED
        BY <3>1, <3>2
    <2>2. CASE ~Statement(h)
      BY <1>6, <2>2, IdleInv DEF FailChange, tables, TypeInv
    <2> QED
      BY <2>1, <2>2
  <1>7. ASSUME NEW h \in Handlers, Audit(h) \/ FailAudit(h)
        PROVE  Inv'
    BY <1>7, IdleInv DEF Audit, FailAudit, tables, TypeInv
  <1>8. CASE Crash
    BY <1>8, RestIsIdle DEF Crash, tables, TypeInv, Judged
  <1> QED
    BY <1>1, <1>2, <1>3, <1>4, <1>5, <1>6, <1>7, <1>8 DEF Next

\* Enabling a source is judged: without a license it comes to be enabled only when a request
\* takes the license away or goes by one that is gone by then (handleUpdateSource).
THEOREM EnablingIsJudged == Spec => LicenseJudged
  <1>1. ASSUME Inv, [Next]_vars
        PROVE  [\A i \in Ids :
                   ~Bare(sources[i]) /\ Bare(sources'[i]) =>
                       \E h \in Handlers :
                           /\ req[h].pc = "accepted" /\ req[h].ask.op = "source.update"
                           /\ TrustsTheRow(h) \/ TakesLicense(h)]_vars
    <2>1. CASE \E h \in Handlers : Statement(h)
      BY <1>1, <2>1, StatementJudged
    <2>2. CASE ~\E h \in Handlers : Statement(h)
      <3>1. UNCHANGED sources
        BY <1>1, <2>2 DEF Next, vars, tables, Authenticated, Look, Refuse, Change, FailChange,
           Audit, FailAudit, Crash
      <3> QED
        BY <3>1
    <2> QED
      BY <2>1, <2>2
  <1> QED
    BY <1>1, InitInv, NextInv, PTL DEF Spec, LicenseJudged

-----------------------------------------------------------------------------
(* What the log tells.  The statements are done in some order, and that is *)
(* the order in which the entries explain the tables.  The invariant says  *)
(* that such an order exists: n statements, the j-th of which has written  *)
(* or will write the entry hist[j], with the tables db[0], ..., db[n]      *)
(* around them (History); at[j] is the place of that entry in the log, or  *)
(* 0 when it is still to be written by the handler h with idx[h] = j       *)
(* (Placed); and what a handler has read was in the tables once            *)
(* (Remembered).                                                           *)

Tables == [sources |-> sources, allow |-> allow]

History(n, hist, db) ==
    /\ db[0] = first
    /\ \A k \in 1..n : db[k] = Done(db[k - 1], hist[k])
    /\ db[n] = Tables
    /\ \A j \in 1..n :
          hist[j].before # {} => \E k \in 0..(j - 1) : hist[j].before = RowOf(db[k], hist[j])

Changed(h) == req[h].pc = "changed"

Placed(n, hist, at, idx) ==
    /\ at \in [1..n -> 0..Len(log)]
    /\ \A j \in 1..n : at[j] # 0 => log[at[j]] = hist[j]
    /\ \A i, j \in 1..n : at[i] = at[j] /\ at[i] # 0 => i = j
    /\ \A l \in 1..Len(log) : \E j \in 1..n : at[j] = l
    /\ \A h \in Handlers : Changed(h) =>
          idx[h] \in 1..n /\ at[idx[h]] = 0 /\ hist[idx[h]] = Entry(h)
    /\ \A g, h \in Handlers : Changed(g) /\ Changed(h) /\ idx[g] = idx[h] => g = h
    /\ \A j \in 1..n : at[j] = 0 => \E h \in Handlers : Changed(h) /\ idx[h] = j

Remembered(n, db) ==
    \A h \in Handlers :
        req[h].pc = "accepted" /\ req[h].before # {} =>
            /\ req[h].ask.op \in {"source.update", "source.disable", "source.purge", "allowlist.remove"}
            /\ \E k \in 0..n :
                  req[h].before = RowOf(db[k], [ask |-> req[h].ask, id |-> req[h].ask.id])

Account(n, hist, db, at, idx) ==
    History(n, hist, db) /\ Placed(n, hist, at, idx) /\ Remembered(n, db)

LogInv ==
    /\ Len(log) \in Nat /\ log \in [1..Len(log) -> Range(log)]
    /\ ~unlogged => \E n \in Nat : \E hist, db, at, idx : Account(n, hist, db, at, idx)

\* A non-empty set of naturals has a least element.
LEMMA LeastNatural ==
    ASSUME NEW T \in SUBSET Nat, T # {}
    PROVE  \E x \in T : \A y \in T : x <= y
  <1>1. PICK x \in T : \A y \in T : ~ (<<y, x>> \in OpToRel(<, Nat))
    BY NatLessThanWellFounded, WFMin
  <1>2. \A y \in T : ~ (y < x)
    BY <1>1 DEF OpToRel
  <1> QED
    BY <1>2

\* The tables that the entries lead to are those that satisfy its equation.
LEMMA AfterIs ==
    ASSUME NEW order, NEW n \in Nat, n = Len(log), NEW db, db[0] = first,
           \A k \in 1..n : db[k] = Done(db[k - 1], log[order[k]])
    PROVE  \A k \in 0..n : After(order)[k] = db[k]
  <1> DEFINE f == After(order)
             g == [k \in 0..n |-> db[k]]
  <1>1. g = [k \in 0..n |-> IF k = 0 THEN first ELSE Done(g[k - 1], log[order[k]])]
    <2>1. ASSUME NEW k \in 0..n, k # 0 PROVE g[k] = Done(g[k - 1], log[order[k]])
      <3>1. k \in 1..n /\ k - 1 \in 0..n
        BY <2>1
      <3>2. g[k] = db[k] /\ g[k - 1] = db[k - 1]
        BY <3>1
      <3> QED
        BY <3>1, <3>2
    <2>2. \A k \in 0..n : g[k] = IF k = 0 THEN first ELSE Done(g[k - 1], log[order[k]])
      BY <2>1
    <2> HIDE DEF Done
    <2> QED
      BY <2>2
  <1>2. \E e : e = [k \in 0..Len(log) |-> IF k = 0 THEN first ELSE Done(e[k - 1], log[order[k]])]
    BY <1>1
  <1>3. f = [k \in 0..Len(log) |-> IF k = 0 THEN first ELSE Done(f[k - 1], log[order[k]])]
    BY <1>2 DEF After
  <1>4. \A k \in 0..n : f[k] = IF k = 0 THEN first ELSE Done(f[k - 1], log[order[k]])
    BY <1>3
  <1> HIDE DEF f
  <1> DEFINE T == {k \in 0..n : f[k] # db[k]}
  <1>5. SUFFICES ASSUME T # {} PROVE FALSE
    BY DEF f
  <1>t. T \in SUBSET Nat
    OBVIOUS
  <1>6. PICK m \in T : \A k \in T : m <= k
    <2> HIDE DEF T
    <2> QED
      BY <1>5, <1>t, LeastNatural
  <1>7. m # 0
    BY <1>4, <1>6
  <1>8. m \in 1..n /\ m - 1 \in 0..n /\ m - 1 \notin T
    BY <1>6, <1>7
  <1>9. f[m] = Done(f[m - 1], log[order[m]]) /\ f[m - 1] = db[m - 1]
    BY <1>4, <1>7, <1>8
  <1> QED
    BY <1>6, <1>8, <1>9

\* What a statement does is what its entry says.
LEMMA StatementDone ==
    ASSUME TypeInv, NEW h \in Handlers, Statement(h), NEW e,
           e.ask = req[h].ask, e.id = Names(req[h].ask)
    PROVE  Done(Tables, e) = Tables'
  <1> DEFINE a == req[h].ask
             s == sources[e.id]
  <1>1. /\ a \in Ask
        /\ \/ CreateSource(a) \/ UpdateSource(a, req[h].before) \/ DisableSource(a)
           \/ PurgeSource(a) \/ AddAllowlist(a) \/ RemoveAllowlist(a)
    BY DEF Statement, TypeInv
  <1> HIDE DEF a
  <1>2. e.ask = a /\ e.id = Names(a)
    BY DEF a
  <1>3. sources \in [Ids -> SUBSET Row]
    BY DEF TypeInv
  <1>4. CASE CreateSource(a)
    <2> DEFINE new == [enabled |-> Coalesce(a.enabled, FALSE), license |-> Coalesce(a.license, None)]
               said == [enabled |-> a.enabled = {TRUE},
                        license |-> IF a.license = {} THEN None ELSE CHOOSE l \in a.license : TRUE]
    <2>1. a.op = "source.create" /\ e.id = nextSource /\ e.id \in Ids
      BY <1>2, <1>4 DEF CreateSource, Names
    <2>2. Coalesce(a.enabled, FALSE) = (a.enabled = {TRUE})
      <3>1. PICK given \in Optional(BOOLEAN) : given = a.enabled
        BY <1>1, <2>1, AskFields
      <3>2. CASE given = {}
        <4>1. given # {TRUE}
          BY <3>2
        <4> QED
          BY <3>1, <3>2, <4>1 DEF Coalesce
      <3>3. CASE given = {TRUE}
        <4>1. Coalesce(given, FALSE) = TRUE
          BY <3>3, CoalesceType
        <4>2. (a.enabled = {TRUE}) = TRUE
          BY <3>1, <3>3
        <4> QED
          BY <3>1, <4>1, <4>2
      <3>4. CASE given = {FALSE}
        <4>1. given # {TRUE}
          BY <3>4
        <4>2. Coalesce(given, FALSE) = FALSE
          BY <3>4, CoalesceType
        <4> QED
          BY <3>1, <4>1, <4>2
      <3> QED
        BY <3>2, <3>3, <3>4 DEF Optional
    <2>3. new = said
      BY <2>2 DEF Coalesce
    <2> HIDE DEF new, said
    <2>4. sources' = [sources EXCEPT ![e.id] = {new}] /\ allow' = allow
      BY <1>4, <2>1 DEF CreateSource, new
    <2>5. Done(Tables, e) = [Tables EXCEPT !.sources[e.id] = {said}]
      BY <1>2, <2>1 DEF Done, said
    <2> QED
      BY <2>3, <2>4, <2>5 DEF Tables
  <1>5. CASE UpdateSource(a, req[h].before)
    <2>1. a.op = "source.update" /\ e.id = a.id /\ a.id \in Ids
      BY <1>1, <1>2, <1>5, AskFields DEF UpdateSource, Names
    <2> DEFINE after == {[enabled |-> Coalesce(a.enabled, r.enabled),
                          license |-> Coalesce(a.license, r.license)] : r \in s}
    <2>2. sources' = [sources EXCEPT ![e.id] = after] /\ allow' = allow
      BY <1>5, <2>1 DEF UpdateSource, Updated
    <2>3. Done(Tables, e) = [Tables EXCEPT !.sources[e.id] = after]
      BY <1>2, <2>1 DEF Done, Tables
    <2> QED
      BY <2>2, <2>3 DEF Tables
  <1>6. CASE DisableSource(a)
    <2>1. a.op = "source.disable" /\ e.id = a.id /\ a.id \in Ids
      BY <1>1, <1>2, <1>6, AskFields DEF DisableSource, Names
    <2> DEFINE after == {[enabled |-> FALSE, license |-> r.license] : r \in s}
    <2>2. ASSUME NEW v
          PROVE  {[r EXCEPT !.enabled = v] : r \in s} = {[enabled |-> v, license |-> r.license] : r \in s}
      <3>1. s \in SUBSET Row
        BY <1>3, <2>1
      <3>2. \A r \in s : [r EXCEPT !.enabled = v] = [enabled |-> v, license |-> r.license]
        BY <3>1 DEF Row
      <3>3. ASSUME NEW x
            PROVE  (\E r \in s : x = [r EXCEPT !.enabled = v])
                     <=> (\E r \in s : x = [enabled |-> v, license |-> r.license])
        BY <3>2
      <3> QED
        BY <3>3
    <2>3. sources' = [sources EXCEPT ![e.id] = after] /\ allow' = allow
      BY <1>6, <2>1, <2>2 DEF DisableSource
    <2>4. Done(Tables, e) = [Tables EXCEPT !.sources[e.id] = after]
      BY <1>2, <2>1 DEF Done, Tables
    <2> QED
      BY <2>3, <2>4 DEF Tables
  <1>7. CASE PurgeSource(a)
    <2>1. a.op = "source.purge" /\ e.id = a.id
      BY <1>2, <1>7 DEF PurgeSource, Names
    <2>2. Done(Tables, e) = [Tables EXCEPT !.sources[e.id] = {}]
      BY <1>2, <2>1 DEF Done
    <2> QED
      BY <1>7, <2>1, <2>2 DEF PurgeSource, Tables
  <1>8. CASE AddAllowlist(a)
    <2>1. Done(Tables, e) = [Tables EXCEPT !.allow = {[id |-> e.id, tier |-> a.tier]}]
      BY <1>2, <1>8 DEF AddAllowlist, Done
    <2> QED
      BY <1>2, <1>8, <2>1 DEF AddAllowlist, Tables
  <1>9. CASE RemoveAllowlist(a)
    <2>1. a.op = "allowlist.remove" /\ e.id = a.id
      BY <1>2, <1>9 DEF RemoveAllowlist, Names
    <2>2. Done(Tables, e) = [Tables EXCEPT !.allow = {x \in allow : x.id # e.id}]
      BY <1>2, <2>1 DEF Done, Tables
    <2> QED
      BY <1>9, <2>1, <2>2 DEF RemoveAllowlist, Tables
  <1> QED
    BY <1>1, <1>4, <1>5, <1>6, <1>7, <1>8, <1>9

\* A step that leaves the tables, the log and what has been changed: a request may
\* come, read the row it is about, or end before its statement.
LEMMA QuietAccount ==
    ASSUME NEW n \in Nat, NEW hist, NEW db, NEW at, NEW idx, Account(n, hist, db, at, idx),
           UNCHANGED <<sources, allow, log, first>>,
           \A h \in Handlers : Changed(h) \/ Changed(h)' => req'[h] = req[h],
           \A h \in Handlers :
               req'[h].pc = "accepted" =>
                   \/ req'[h] = req[h]
                   \/ req'[h].ask \in Ask /\ req'[h].before = Seen(req'[h].ask)
    PROVE  Account(n, hist, db, at, idx)'
  <1>1. History(n, hist, db)'
    BY DEF Account, History, Tables
  <1>2. \A h \in Handlers : (Changed(h)' <=> Changed(h)) /\ (Changed(h) => Entry(h)' = Entry(h))
    BY DEF Changed, Entry
  <1>3. Placed(n, hist, at, idx)'
    BY <1>2 DEF Account, Placed
  <1>4. Remembered(n, db)'
    <2>1. SUFFICES ASSUME NEW h \in Handlers, req'[h].pc = "accepted", req'[h].before # {}
                   PROVE  /\ req'[h].ask.op \in {"source.update", "source.disable",
                                                 "source.purge", "allowlist.remove"}
                          /\ \E k \in 0..n : req'[h].before =
                                RowOf(db[k], [ask |-> req'[h].ask, id |-> req'[h].ask.id])
      BY DEF Remembered
    <2>2. CASE req'[h] = req[h]
      BY <2>1, <2>2 DEF Account, Remembered
    <2>3. CASE req'[h].ask \in Ask /\ req'[h].before = Seen(req'[h].ask)
      <3> DEFINE a == req'[h].ask
      <3>1. a \in Ask /\ Seen(a) # {}
        BY <2>1, <2>3
      <3> HIDE DEF a
      <3>2. a.op \in {"source.update", "source.disable", "source.purge", "allowlist.remove"}
        BY <3>1, AskFields DEF Seen
      <3>3. db[n] = [sources |-> sources, allow |-> allow]
        BY DEF Account, History, Tables
      <3>4. RowOf(db[n], [ask |-> a, id |-> a.id]) = Seen(a)
        BY <3>2, <3>3 DEF RowOf, Seen
      <3>5. n \in 0..n
        OBVIOUS
      <3> QED
        BY <2>3, <3>2, <3>4, <3>5 DEF a
    <2> QED
      BY <2>1, <2>2, <2>3
  <1> QED
    BY <1>1, <1>3, <1>4 DEF Account

\* A statement is the last one so far.
LEMMA ChangeAccount ==
    ASSUME TypeInv, NEW h \in Handlers, Change(h), Len(log) \in Nat,
           NEW n \in Nat, NEW hist, NEW db, NEW at, NEW idx, Account(n, hist, db, at, idx)
    PROVE  \E m \in Nat : \E hist2, db2, at2, idx2 : Account(m, hist2, db2, at2, idx2)'
  <1> PICK m \in Nat : m = n + 1
    OBVIOUS
  <1> PICK e : e = Entry(h)'
    OBVIOUS
  <1>1. /\ Statement(h) /\ req[h].pc = "accepted" /\ req[h].ask \in Ask /\ req[h] \in Request
        /\ req' = [req EXCEPT ![h].pc = "changed", ![h].entity = Names(req[h].ask)]
        /\ UNCHANGED <<log, first>>
    BY DEF Change, Statement, TypeInv
  <1>2. /\ req'[h].pc = "changed" /\ req'[h].ask = req[h].ask
        /\ req'[h].entity = Names(req[h].ask) /\ req'[h].before = req[h].before
        /\ \A g \in Handlers : g # h => req'[g] = req[g]
    BY <1>1 DEF TypeInv, Request
  <1>3. e.ask = req[h].ask /\ e.id = Names(req[h].ask) /\ e.before = req[h].before
    BY <1>2 DEF Entry
  <1>4. Done(Tables, e) = Tables'
    BY <1>1, <1>3, StatementDone
  <1>5. m \in Nat /\ m \notin 1..n /\ 1..m = 1..n \cup {m} /\ m \in 1..m /\ \A k \in 0..n : k \in 0..m /\ k # m
    OBVIOUS
  <1>6. PICK hist2, db2, at2, idx2 :
          /\ hist2[m] = e /\ \A j \in 1..n : hist2[j] = hist[j]
          /\ db2[m] = Tables' /\ \A k \in 0..n : db2[k] = db[k]
          /\ at2[m] = 0 /\ (\A j \in 1..n : at2[j] = at[j]) /\ at2 \in [1..m -> 0..Len(log)]
          /\ idx2[h] = m /\ \A g \in Handlers : g # h => idx2[g] = idx[g]
    <2> DEFINE hist2 == [j \in 1..m |-> IF j = m THEN e ELSE hist[j]]
               db2 == [k \in 0..m |-> IF k = m THEN Tables' ELSE db[k]]
               at2 == [j \in 1..m |-> IF j = m THEN 0 ELSE at[j]]
               idx2 == [g \in Handlers |-> IF g = h THEN m ELSE idx[g]]
    <2>1. hist2[m] = e /\ \A j \in 1..n : hist2[j] = hist[j]
      BY <1>5
    <2>2. db2[m] = Tables' /\ \A k \in 0..n : db2[k] = db[k]
      BY <1>5
    <2>3. at2[m] = 0 /\ \A j \in 1..n : at2[j] = at[j]
      BY <1>5
    <2>4. at2 \in [1..m -> 0..Len(log)]
      <3>1. at \in [1..n -> 0..Len(log)]
        BY DEF Account, Placed
      <3>2. \A j \in 1..m : at2[j] \in 0..Len(log)
        BY <1>5, <2>3, <3>1
      <3> QED
        BY <3>2
    <2>5. idx2[h] = m /\ \A g \in Handlers : g # h => idx2[g] = idx[g]
      OBVIOUS
    <2> HIDE DEF hist2, db2, at2, idx2
    <2> QED
      BY <2>1, <2>2, <2>3, <2>4, <2>5
  <1>8. History(m, hist2, db2)'
    <2>1. db2[0] = first'
      BY <1>1, <1>6 DEF Account, History
    <2>2. ASSUME NEW k \in 1..m PROVE db2[k] = Done(db2[k - 1], hist2[k])
      <3>1. CASE k = m
        <4>1. k - 1 = n /\ n \in 0..n
          BY <3>1
        <4>2. db2[k - 1] = Tables
          BY <1>6, <4>1 DEF Account, History
        <4> QED
          BY <1>4, <1>6, <3>1, <4>2
      <3>2. CASE k # m
        <4>1. k \in 1..n /\ k - 1 \in 0..n /\ k \in 0..n
          BY <3>2
        <4> QED
          BY <1>6, <4>1 DEF Account, History
      <3> QED
        BY <3>1, <3>2
    <2>3. ASSUME NEW j \in 1..m, hist2[j].before # {}
          PROVE  \E k \in 0..(j - 1) : hist2[j].before = RowOf(db2[k], hist2[j])
      <3>1. CASE j = m
        <4>1. /\ req[h].ask.op \in {"source.update", "source.disable", "source.purge", "allowlist.remove"}
              /\ \E k \in 0..n :
                    req[h].before = RowOf(db[k], [ask |-> req[h].ask, id |-> req[h].ask.id])
          BY <1>1, <1>3, <1>6, <2>3, <3>1 DEF Account, Remembered
        <4>2. PICK k \in 0..n : req[h].before = RowOf(db[k], [ask |-> req[h].ask, id |-> req[h].ask.id])
          BY <4>1
        <4>3. Names(req[h].ask) = req[h].ask.id
          BY <4>1 DEF Names
        <4>4. RowOf(db[k], e) = RowOf(db[k], [ask |-> req[h].ask, id |-> req[h].ask.id])
          BY <1>3, <4>3 DEF RowOf
        <4>5. k \in 0..(j - 1)
          BY <3>1
        <4> QED
          BY <1>3, <1>6, <3>1, <4>2, <4>4, <4>5
      <3>2. CASE j # m
        <4>1. j \in 1..n /\ \A k \in 0..(j - 1) : k \in 0..n
          BY <3>2
        <4> QED
          BY <1>6, <2>3, <4>1 DEF Account, History
      <3> QED
        BY <3>1, <3>2
    <2>4. db2[m] = Tables'
      BY <1>6
    <2> QED
      BY <2>1, <2>2, <2>3, <2>4 DEF History
  <1>9. Placed(m, hist2, at2, idx2)'
    <2>1. Placed(n, hist, at, idx) /\ UNCHANGED log
      BY <1>1 DEF Account
    <2>2. \A g \in Handlers : g # h => (Changed(g)' <=> Changed(g)) /\ Entry(g)' = Entry(g)
      BY <1>2 DEF Changed, Entry
    <2>3. ~Changed(h) /\ Changed(h)' /\ Entry(h)' = e
      BY <1>1, <1>2 DEF Changed
    <2>4. \A j \in 1..m : at2[j] # 0 => log'[at2[j]] = hist2[j]
      BY <1>5, <1>6, <2>1 DEF Placed
    <2>5. \A i, j \in 1..m : at2[i] = at2[j] /\ at2[i] # 0 => i = j
      BY <1>5, <1>6, <2>1 DEF Placed
    <2>6. \A l \in 1..Len(log') : \E j \in 1..m : at2[j] = l
      BY <1>5, <1>6, <2>1 DEF Placed
    <2>7. ASSUME NEW g \in Handlers, Changed(g)'
          PROVE  idx2[g] \in 1..m /\ at2[idx2[g]] = 0 /\ hist2[idx2[g]] = Entry(g)'
      <3>1. CASE g = h
        BY <1>5, <1>6, <2>3, <3>1
      <3>2. CASE g # h
        BY <1>5, <1>6, <2>1, <2>2, <2>7, <3>2 DEF Placed
      <3> QED
        BY <3>1, <3>2
    <2>8. ASSUME NEW f \in Handlers, NEW g \in Handlers, Changed(f)', Changed(g)', idx2[f] = idx2[g]
          PROVE  f = g
      <3>1. \A x \in Handlers : x # h /\ Changed(x)' => idx2[x] \in 1..n /\ idx2[x] = idx[x] /\ Changed(x)
        BY <1>6, <2>1, <2>2 DEF Placed
      <3> QED
        BY <1>5, <1>6, <2>1, <2>8, <3>1 DEF Placed
    <2>9. ASSUME NEW j \in 1..m, at2[j] = 0
          PROVE  \E g \in Handlers : Changed(g)' /\ idx2[g] = j
      <3>1. CASE j = m
        BY <1>6, <2>3, <3>1
      <3>2. CASE j # m
        <4>1. j \in 1..n /\ at[j] = 0
          BY <1>5, <1>6, <2>9, <3>2
        <4>2. PICK g \in Handlers : Changed(g) /\ idx[g] = j
          BY <2>1, <4>1 DEF Placed
        <4> QED
          BY <1>6, <2>2, <2>3, <4>2
      <3> QED
        BY <3>1, <3>2
    <2> QED
      BY <1>6, <2>1, <2>4, <2>5, <2>6, <2>7, <2>8, <2>9 DEF Placed
  <1>10. Remembered(m, db2)'
    <2>1. SUFFICES ASSUME NEW g \in Handlers, req'[g].pc = "accepted", req'[g].before # {}
                   PROVE  /\ req'[g].ask.op \in {"source.update", "source.disable",
                                                 "source.purge", "allowlist.remove"}
                          /\ \E k \in 0..m : req'[g].before =
                                RowOf(db2[k], [ask |-> req'[g].ask, id |-> req'[g].ask.id])
      BY DEF Remembered
    <2>2. g # h /\ req'[g] = req[g]
      BY <1>2, <2>1
    <2> QED
      BY <1>5, <1>6, <2>1, <2>2 DEF Account, Remembered
  <1>11. Account(m, hist2, db2, at2, idx2)'
    BY <1>8, <1>9, <1>10 DEF Account
  <1> QED
    BY <1>5, <1>11

\* The log is a sequence of its entries, and of any others.
LEMMA LogIsSeq ==
    ASSUME Len(log) \in Nat, log \in [1..Len(log) -> Range(log)], NEW e
    PROVE  log \in Seq(Range(log) \cup {e})
  <1> DEFINE S == Range(log) \cup {e}
  <1>1. log \in [1..Len(log) -> S]
    OBVIOUS
  <1> HIDE DEF S
  <1> QED
    BY <1>1

\* An entry finds its place: it is that of the statement of its handler.
LEMMA AuditAccount ==
    ASSUME TypeInv, NEW h \in Handlers, Audit(h), Len(log) \in Nat, log \in [1..Len(log) -> Range(log)],
           NEW n \in Nat, NEW hist, NEW db, NEW at, NEW idx, Account(n, hist, db, at, idx)
    PROVE  \E at2 : Account(n, hist, db, at2, idx)'
  <1>1. /\ Changed(h) /\ log' = Append(log, Entry(h)) /\ UNCHANGED <<sources, allow, first>>
        /\ req' = [req EXCEPT ![h] = NoRequest]
    BY DEF Audit, Idle, tables, Changed
  <1> PICK len \in Nat : len = Len(log)
    OBVIOUS
  <1>2. /\ Len(log') = len + 1 /\ log'[len + 1] = Entry(h)
        /\ \A l \in 1..len : log'[l] = log[l]
    <2>1. log \in Seq(Range(log) \cup {Entry(h)})
      BY LogIsSeq
    <2> QED
      BY <1>1, <2>1
  <1>3. /\ ~Changed(h)' /\ req'[h].pc = "idle"
        /\ \A g \in Handlers : g # h => req'[g] = req[g]
    BY <1>1, RestIsIdle DEF TypeInv, Changed
  <1>4. \A g \in Handlers : g # h => (Changed(g)' <=> Changed(g)) /\ Entry(g)' = Entry(g)
    BY <1>3 DEF Changed, Entry
  <1>5. Placed(n, hist, at, idx)
    BY DEF Account
  <1> PICK at2 : at2 = [at EXCEPT ![idx[h]] = len + 1]
    OBVIOUS
  <1>6. /\ idx[h] \in 1..n /\ at[idx[h]] = 0 /\ hist[idx[h]] = Entry(h)
        /\ at \in [1..n -> 0..len]
        /\ at2 \in [1..n -> 0..(len + 1)]
        /\ at2[idx[h]] = len + 1 /\ \A j \in 1..n : j # idx[h] => at2[j] = at[j] /\ at2[j] # len + 1
    BY <1>1, <1>5 DEF Placed
  <1>7. \A j \in 1..n : at2[j] # 0 => log'[at2[j]] = hist[j]
    <2> SUFFICES ASSUME NEW j \in 1..n, at2[j] # 0 PROVE log'[at2[j]] = hist[j]
      OBVIOUS
    <2>1. CASE j = idx[h]
      BY <1>2, <1>6, <2>1
    <2>2. CASE j # idx[h]
      <3>1. at2[j] = at[j] /\ at[j] \in 1..len
        BY <1>6, <2>2
      <3> QED
        BY <1>2, <1>5, <3>1 DEF Placed
    <2> QED
      BY <2>1, <2>2
  <1>8. \A i, j \in 1..n : at2[i] = at2[j] /\ at2[i] # 0 => i = j
    BY <1>5, <1>6 DEF Placed
  <1>9. \A l \in 1..(len + 1) : \E j \in 1..n : at2[j] = l
    <2> SUFFICES ASSUME NEW l \in 1..(len + 1) PROVE \E j \in 1..n : at2[j] = l
      OBVIOUS
    <2>1. CASE l = len + 1
      BY <1>6, <2>1
    <2>2. CASE l # len + 1
      <3>1. l \in 1..len
        BY <2>2
      <3>2. PICK j \in 1..n : at[j] = l
        BY <1>5, <3>1 DEF Placed
      <3>3. j # idx[h]
        BY <1>6, <3>1, <3>2
      <3> QED
        BY <1>6, <3>2, <3>3
    <2> QED
      BY <2>1, <2>2
  <1>10. \A g \in Handlers : Changed(g)' =>
            idx[g] \in 1..n /\ at2[idx[g]] = 0 /\ hist[idx[g]] = Entry(g)'
    <2> SUFFICES ASSUME NEW g \in Handlers, Changed(g)'
                 PROVE  idx[g] \in 1..n /\ at2[idx[g]] = 0 /\ hist[idx[g]] = Entry(g)'
      OBVIOUS
    <2>1. g # h /\ Changed(g)
      BY <1>3, <1>4
    <2>2. idx[g] # idx[h] /\ idx[g] \in 1..n /\ at[idx[g]] = 0 /\ hist[idx[g]] = Entry(g)
      BY <1>1, <1>5, <2>1 DEF Placed
    <2> QED
      BY <1>4, <1>6, <2>1, <2>2
  <1>11. \A f, g \in Handlers : Changed(f)' /\ Changed(g)' /\ idx[f] = idx[g] => f = g
    BY <1>3, <1>4, <1>5 DEF Placed
  <1>12. \A j \in 1..n : at2[j] = 0 => \E g \in Handlers : Changed(g)' /\ idx[g] = j
    <2> SUFFICES ASSUME NEW j \in 1..n, at2[j] = 0
                 PROVE  \E g \in Handlers : Changed(g)' /\ idx[g] = j
      OBVIOUS
    <2>1. j # idx[h] /\ at[j] = 0
      BY <1>6
    <2>2. PICK g \in Handlers : Changed(g) /\ idx[g] = j
      BY <1>5, <2>1 DEF Placed
    <2> QED
      BY <1>4, <2>1, <2>2
  <1>13. Placed(n, hist, at2, idx)'
    BY <1>2, <1>6, <1>7, <1>8, <1>9, <1>10, <1>11, <1>12 DEF Placed
  <1>14. History(n, hist, db)'
    BY <1>1 DEF Account, History, Tables
  <1>15. Remembered(n, db)'
    BY <1>3 DEF Account, Remembered
  <1> QED
    BY <1>13, <1>14, <1>15 DEF Account

LEMMA InitLog == Init => LogInv
  <1> SUFFICES ASSUME Init PROVE LogInv
    OBVIOUS
  <1>1. Len(log) = 0 /\ log \in [1..Len(log) -> Range(log)]
    BY DEF Init, Range
  <1>2. \A h \in Handlers : req[h].pc = "idle"
    BY RestIsIdle DEF Init
  <1> PICK db : db = [k \in 0..0 |-> Tables]
    OBVIOUS
  <1> PICK at : at = [j \in 1..0 |-> 0]
    OBVIOUS
  <1>3. History(0, <<>>, db)
    BY DEF History, Init, Tables
  <1>4. Placed(0, <<>>, at, at)
    BY <1>1, <1>2 DEF Placed, Changed
  <1>5. Remembered(0, db)
    BY <1>2 DEF Remembered
  <1> QED
    BY <1>1, <1>3, <1>4, <1>5 DEF LogInv, Account

LEMMA NextLog ==
    ASSUME Inv, LogInv, [Next]_vars
    PROVE  LogInv'
  <1>1. TypeInv /\ Len(log) \in Nat /\ log \in [1..Len(log) -> Range(log)]
    BY DEF Inv, LogInv
  <1>2. Len(log') \in Nat /\ log' \in [1..Len(log') -> Range(log')]
    <2>1. CASE UNCHANGED log
      BY <1>1, <2>1
    <2>2. ASSUME NEW h \in Handlers, Audit(h)
          PROVE  Len(log') \in Nat /\ log' \in [1..Len(log') -> Range(log')]
      <3>1. log' = Append(log, Entry(h)) /\ log \in Seq(Range(log) \cup {Entry(h)})
        BY <1>1, <2>2, LogIsSeq DEF Audit
      <3>2. log' \in Seq(Range(log) \cup {Entry(h)})
        BY <3>1
      <3>3. log' \in [1..Len(log') -> Range(log')] /\ Len(log') \in Nat
        BY <3>2 DEF Range
      <3> QED
        BY <3>3
    <2> QED
      BY <2>1, <2>2 DEF Next, vars, Authenticated, Look, Refuse, Change, FailChange, FailAudit, Crash
  <1>3. SUFFICES ASSUME ~unlogged'
                 PROVE  \E n \in Nat : \E hist, db, at, idx : Account(n, hist, db, at, idx)'
    BY <1>2 DEF LogInv
  <1>5. ~unlogged
    BY <1>3 DEF Next, vars, Authenticated, Look, Refuse, Change, FailChange, Audit, FailAudit, Crash
  <1>6. PICK n \in Nat : \E hist, db, at, idx : Account(n, hist, db, at, idx)
    BY <1>5 DEF LogInv
  <1>7. PICK hist, db, at, idx : Account(n, hist, db, at, idx)
    BY <1>6
  <1>8. ASSUME NEW h \in Handlers, Change(h)
        PROVE  \E m \in Nat : \E hist2, db2, at2, idx2 : Account(m, hist2, db2, at2, idx2)'
    BY <1>1, <1>7, <1>8, ChangeAccount
  <1>9. ASSUME NEW h \in Handlers, Audit(h)
        PROVE  \E at2 : Account(n, hist, db, at2, idx)'
    BY <1>1, <1>7, <1>9, AuditAccount
  <1>10. ASSUME UNCHANGED <<sources, allow, log, first>>,
                \A h \in Handlers : Changed(h) \/ Changed(h)' => req'[h] = req[h],
                \A h \in Handlers :
                    req'[h].pc = "accepted" =>
                        \/ req'[h] = req[h]
                        \/ req'[h].ask \in Ask /\ req'[h].before = Seen(req'[h].ask)
         PROVE  Account(n, hist, db, at, idx)'
    BY <1>7, <1>10, QuietAccount
  <1>11. ASSUME NEW h \in Handlers, req[h].pc # "changed", Idle(h),
                UNCHANGED <<sources, allow, log, first>>
         PROVE  Account(n, hist, db, at, idx)'
    <2>1. req'[h].pc = "idle" /\ \A g \in Handlers : g # h => req'[g] = req[g]
      BY <1>1, <1>11, RestIsIdle DEF Idle, TypeInv
    <2> QED
      BY <1>10, <1>11, <2>1 DEF Changed
  <1>12. CASE UNCHANGED vars
    <2>1. UNCHANGED <<sources, allow, log, first, req>>
      BY <1>12 DEF vars, tables
    <2> QED
      BY <1>10, <2>1
  <1>13. ASSUME NEW h \in Handlers, NEW u \in Users, NEW a \in Asks, Authenticated(h, u, a)
         PROVE  Account(n, hist, db, at, idx)'
    <2>1. /\ req[h].pc = "idle" /\ req'[h].pc = "handling"
          /\ \A g \in Handlers : g # h => req'[g] = req[g]
          /\ UNCHANGED <<sources, allow, log, first>>
      BY <1>1, <1>13 DEF Authenticated, tables, TypeInv, Request
    <2> QED
      BY <1>10, <2>1 DEF Changed
  <1>14. ASSUME NEW h \in Handlers, Look(h)
         PROVE  Account(n, hist, db, at, idx)'
    <2>1. /\ req[h].pc = "handling" /\ req'[h].pc = "accepted"
          /\ req'[h].ask = req[h].ask /\ req[h].ask \in Ask /\ req'[h].before = Seen(req[h].ask)
          /\ \A g \in Handlers : g # h => req'[g] = req[g]
          /\ UNCHANGED <<sources, allow, log, first>>
      BY <1>1, <1>14 DEF Look, tables, TypeInv, Request
    <2> QED
      BY <1>10, <2>1 DEF Changed
  <1>15. ASSUME NEW h \in Handlers, Refuse(h)
         PROVE  Account(n, hist, db, at, idx)'
    BY <1>11, <1>15 DEF Refuse, tables
  <1>16. ASSUME NEW h \in Handlers, FailChange(h)
         PROVE  Account(n, hist, db, at, idx)'
    BY <1>3, <1>11, <1>16 DEF FailChange, tables
  <1>17. ASSUME NEW h \in Handlers, FailAudit(h)
         PROVE  FALSE
    BY <1>3, <1>17 DEF FailAudit
  <1>18. CASE Crash
    <2>1. /\ \A g \in Handlers : req[g].pc # "changed" /\ req'[g].pc = "idle"
          /\ UNCHANGED <<sources, allow, log, first>>
      BY <1>3, <1>18, RestIsIdle DEF Crash, tables
    <2> QED
      BY <1>10, <2>1 DEF Changed
  <1> QED
    BY <1>8, <1>9, <1>12, <1>13, <1>14, <1>15, <1>16, <1>17, <1>18 DEF Next

\* With nothing left to be written, the places of the entries are an order.
LEMMA Explained == Inv /\ LogInv => LogExplains
  <1> SUFFICES ASSUME LogInv, Settled, ~unlogged PROVE \E order \in Orders : Explains(order)
    BY DEF LogExplains
  <1>1. Len(log) \in Nat /\ DOMAIN log = 1..Len(log)
    BY DEF LogInv
  <1>2. PICK n \in Nat : \E hist, db, at, idx : Account(n, hist, db, at, idx)
    BY DEF LogInv
  <1>3. PICK hist, db, at, idx : Account(n, hist, db, at, idx)
    BY <1>2
  <1>4. at \in [1..n -> 0..Len(log)] /\ \A j \in 1..n : at[j] # 0
    BY <1>3 DEF Settled, Account, Placed, Changed
  <1>5. at \in [1..n -> 1..Len(log)]
    BY <1>1, <1>4
  <1>6. at \in Bijection(1..n, 1..Len(log))
    <2>1. at \in Injection(1..n, 1..Len(log))
      BY <1>3, <1>4, <1>5 DEF Injection, IsInjective, Account, Placed
    <2>2. at \in Surjection(1..n, 1..Len(log))
      BY <1>3, <1>5 DEF Surjection, Account, Placed
    <2> QED
      BY <2>1, <2>2 DEF Bijection
  <1>7. n = Len(log)
    <2>1. ExistsBijection(1..n, 1..Len(log))
      BY <1>6 DEF ExistsBijection
    <2>2. \A k \in Nat : IsFiniteSet(1..k) /\ Cardinality(1..k) = k
      <3> TAKE k \in Nat
      <3>1. IsFiniteSet(1..k) /\ Cardinality(1..k) = IF 1 > k THEN 0 ELSE k - 1 + 1
        BY FS_Interval
      <3> QED
        BY <3>1
    <2>3. Cardinality(1..Len(log)) = Cardinality(1..n)
      BY <2>1, <2>2, FS_Bijection
    <2> QED
      BY <1>1, <2>2, <2>3
  <1>8. at \in Orders
    BY <1>1, <1>6, <1>7 DEF Orders
  <1>9. \A j \in 1..n : log[at[j]] = hist[j]
    BY <1>3, <1>4 DEF Account, Placed
  <1>10. \A k \in 0..n : After(at)[k] = db[k]
    <2>1. db[0] = first /\ \A k \in 1..n : db[k] = Done(db[k - 1], log[at[k]])
      BY <1>3, <1>9 DEF Account, History
    <2> QED
      BY <1>7, <2>1, AfterIs
  <1>11. After(at)[Len(log)] = [sources |-> sources, allow |-> allow]
    BY <1>3, <1>7, <1>10 DEF Account, History, Tables
  <1>12. ASSUME NEW j \in DOMAIN log, log[at[j]].before # {}
         PROVE  \E k \in 0..(j - 1) : log[at[j]].before = RowOf(After(at)[k], log[at[j]])
    <2>1. j \in 1..n /\ log[at[j]] = hist[j]
      BY <1>1, <1>7, <1>9
    <2>2. PICK k \in 0..(j - 1) : hist[j].before = RowOf(db[k], hist[j])
      BY <1>3, <1>12, <2>1 DEF Account, History
    <2>3. k \in 0..n
      BY <2>1
    <2> QED
      BY <1>10, <2>1, <2>2, <2>3
  <1> QED
    BY <1>8, <1>11, <1>12 DEF Explains

\* However requests interleave and whatever fails, the entries of the log, in the order of
\* their statements, lead from the tables of the start to those there are, and each has
\* read what was there before it; only changes whose entry was lost are excused (audit).
THEOREM TheLogExplains == Spec => []LogExplains
  <1>1. Init => Inv /\ LogInv
    BY InitInv, InitLog
  <1>2. Inv /\ LogInv /\ [Next]_vars => (Inv /\ LogInv)'
    BY NextInv, NextLog
  <1> QED
    BY <1>1, <1>2, Explained, PTL DEF Spec
=============================================================================
