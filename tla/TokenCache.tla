------------------------------ MODULE TokenCache ------------------------------
(***************************************************************************)
(* TokenResolver (internal/store/token.go): the token in the path of a     *)
(* tenant's list is looked up in PostgreSQL, behind a cache that also      *)
(* carries the service over an outage of the database.  One token; its     *)
(* requests run side by side and meet in the cache alone.                  *)
(*                                                                         *)
(* Times are ages in ticks of the clock, which passes for ever: an age     *)
(* stops at Old, where it no longer makes a difference to any comparison.  *)
(***************************************************************************)
EXTENDS Naturals

CONSTANTS
    Requests,   \* requests for the token that may be under way at once
    TTL,        \* ttl
    MaxStale,   \* maxStale
    MaxLookup   \* bound on the ticks a request takes

ASSUME TokenAssumption ==
    /\ TTL \in Nat \ {0} /\ MaxStale \in Nat \ {0} /\ MaxLookup \in Nat

VARIABLES
    valid,      \* lookup would find the token: not revoked, not expired, tenant enabled
    up,         \* PostgreSQL answers
    cache,      \* the token's entry: is there one, found, and the age of fetched
    req,        \* req[r]: the step of Resolve, the age of now, the answer so far, whether
                \* it is a fallback, and (a history) what `confirmed` was then
    held,       \* history: held[b], the age of the last moment with valid = b
    confirmed   \* history: the age of the last write of the cache, if it still stands

tokenVars == <<valid, up, cache, req, held, confirmed>>

Old == MaxLookup + (IF TTL > MaxStale THEN TTL ELSE MaxStale)
Age == 0..Old
Older(age) == IF age < Old THEN age + 1 ELSE age

Answers == {"slug", "unknown", "error"}
Result(found) == IF found THEN "slug" ELSE "unknown"

NoEntry == [cached |-> FALSE, found |-> FALSE, age |-> 0]
NoRequest == [pc |-> "idle", age |-> 0, answer |-> "error", stale |-> FALSE,
              confirmed |-> Old]

TokenInit ==
    /\ valid \in BOOLEAN
    /\ up = TRUE
    /\ cache = NoEntry
    /\ req = [r \in Requests |-> NoRequest]
    /\ held = [b \in BOOLEAN |-> IF b = valid THEN 0 ELSE Old]
    /\ confirmed = Old

-----------------------------------------------------------------------------
(* Resolve.                                                                *)

\* now.Sub(entry.fetched) for the entry the request has read; an entry that is
\* newer than now has a negative age, here 0.
EntryAge(r) ==
    IF cache.age > req[r].age THEN cache.age - req[r].age ELSE 0

Arrive(r) ==
    /\ req[r].pc = "idle"
    /\ req' = [req EXCEPT ![r] = [NoRequest EXCEPT !.pc = "read"]]
    /\ UNCHANGED <<valid, up, cache, held, confirmed>>

\* Variant: an entry for a wrong token is kept for good.
FreshOrMissing(age) == age < TTL \/ ~cache.found

Fresh(age) == age < TTL

\* Variant: no entry past its ttl is served.
FallbackFresh(r) ==
    IF cache.cached /\ EntryAge(r) < TTL THEN Result(cache.found) ELSE "error"

\* What an entry that is too old for ttl is good for when the lookup fails.
Fallback(r) ==
    IF cache.cached /\ EntryAge(r) < MaxStale THEN Result(cache.found) ELSE "error"

\* Under the read lock: an entry younger than ttl answers at once.
Read(r) ==
    /\ req[r].pc = "read"
    /\ IF cache.cached /\ Fresh(EntryAge(r))
       THEN req' = [req EXCEPT ![r].pc = "done", ![r].answer = Result(cache.found)]
       ELSE req' = [req EXCEPT ![r].pc = "lookup", ![r].answer = Fallback(r),
                               ![r].stale = TRUE, ![r].confirmed = confirmed]
    /\ UNCHANGED <<valid, up, cache, held, confirmed>>

\* The query sees the row as it is now; a token that is not there is an answer too.
Lookup(r) ==
    /\ req[r].pc = "lookup"
    /\ up
    /\ req' = [req EXCEPT ![r].pc = "write", ![r].answer = Result(valid),
                          ![r].stale = FALSE, ![r].confirmed = Old]
    /\ UNCHANGED <<valid, up, cache, held, confirmed>>

\* PostgreSQL does not answer: the fallback does, or nothing.
LookupFails(r) ==
    /\ req[r].pc = "lookup"
    /\ ~up
    /\ req' = [req EXCEPT ![r].pc = "done"]
    /\ UNCHANGED <<valid, up, cache, held, confirmed>>

\* Variant: the entry is as old as its write.
EntryOfNow(r) == [cached |-> TRUE, found |-> req[r].answer = "slug", age |-> 0]

\* The entry is as old as the request, not as its write, and replaces whatever
\* other requests have written since.
Entry(r) == [cached |-> TRUE, found |-> req[r].answer = "slug", age |-> req[r].age]

Write(r) ==
    /\ req[r].pc = "write"
    /\ cache' = Entry(r)
    /\ confirmed' = 0
    /\ req' = [req EXCEPT ![r].pc = "done"]
    /\ UNCHANGED <<valid, up, held>>

\* The handler has its answer: serveTenant goes on, or sends 404.
Return(r) ==
    /\ req[r].pc = "done"
    /\ req' = [req EXCEPT ![r] = NoRequest]
    /\ UNCHANGED <<valid, up, cache, held, confirmed>>

-----------------------------------------------------------------------------
(* The world around.                                                       *)

\* A token is issued, revoked or expires; its tenant is disabled or enabled.
Change ==
    /\ valid' = ~valid
    /\ held' = [held EXCEPT ![~valid] = 0]
    /\ UNCHANGED <<up, cache, req, confirmed>>

Outage ==
    /\ up' = ~up
    /\ UNCHANGED <<valid, cache, req, held, confirmed>>

\* Invalidate, after a revocation.
Invalidate ==
    /\ ~valid
    /\ cache.cached
    /\ cache' = NoEntry
    /\ confirmed' = Old
    /\ UNCHANGED <<valid, up, req, held>>

\* The process ends and is started again, with an empty cache.
Restart ==
    /\ cache' = NoEntry
    /\ req' = [r \in Requests |-> NoRequest]
    /\ confirmed' = Old
    /\ UNCHANGED <<valid, up, held>>

Tick ==
    /\ \A r \in Requests : req[r].pc # "idle" => req[r].age < MaxLookup
    /\ cache' = [cache EXCEPT !.age = IF cache.cached THEN Older(@) ELSE @]
    /\ req' = [r \in Requests |->
                 IF req[r].pc = "idle" THEN req[r] ELSE [req[r] EXCEPT !.age = @ + 1]]
    /\ held' = [b \in BOOLEAN |-> IF b = valid THEN 0 ELSE Older(held[b])]
    /\ confirmed' = Older(confirmed)
    /\ UNCHANGED <<valid, up>>

Resolve(r) == Read(r) \/ Lookup(r) \/ LookupFails(r) \/ Write(r) \/ Return(r)

TokenNext ==
    \/ \E r \in Requests : Arrive(r) \/ Resolve(r)
    \/ Change \/ Outage \/ Invalidate \/ Restart
    \/ Tick

TokenSpec == TokenInit /\ [][TokenNext]_tokenVars

\* Goroutines run and time passes.
FairTokenSpec == TokenSpec /\ WF_tokenVars(Tick) /\ \A r \in Requests : WF_tokenVars(Resolve(r))

-----------------------------------------------------------------------------
(* Properties.                                                             *)

EntryType == [cached : BOOLEAN, found : BOOLEAN, age : Age]

TokenTypeOK ==
    /\ valid \in BOOLEAN /\ up \in BOOLEAN
    /\ cache \in EntryType
    /\ req \in [Requests -> [pc : {"idle", "read", "lookup", "write", "done"},
                             age : 0..MaxLookup, answer : Answers, stale : BOOLEAN,
                             confirmed : Age]]
    /\ held \in [BOOLEAN -> Age]
    /\ confirmed \in Age

\* An answer is what the database held less than ttl before the request began or
\* later; with the database down at its lookup, less than maxStale before ("một
\* token vừa bị thu hồi có thể còn dùng được thêm tối đa MaxStale").  However
\* requests overtake each other on their way from the lookup to the cache.
HeldSince(answer, age) == \E b \in BOOLEAN : answer = Result(b) /\ held[b] < age

AnswersAreFresh ==
    \A r \in Requests :
        req[r].pc = "done" /\ req[r].answer # "error" =>
            \/ HeldSince(req[r].answer, req[r].age + TTL)
            \/ req[r].stale /\ HeldSince(req[r].answer, req[r].age + MaxStale)

\* An outage is bridged: a request fails only when, at the time it looked into the
\* cache, no lookup had been cached for maxStale, less the time that lookup may have
\* taken ("phục vụ bằng dữ liệu cũ trong khoảng MaxStale").
OutageBridged ==
    \A r \in Requests :
        req[r].pc = "done" /\ req[r].answer = "error" =>
            req[r].confirmed + MaxLookup >= MaxStale

\* When a token has been issued or withdrawn for good and the database is back,
\* requests come to be answered so: no entry, not even one for a wrong token,
\* outlives its time.
AnswersSettle ==
    \A b \in BOOLEAN :
        <>[](valid = b /\ up) =>
            <>[](\A r \in Requests : req[r].pc = "done" => req[r].answer = Result(b))

\* "tức thì khi admin API gọi Invalidate" (docs/API.md): a withdrawn token
\* that is not in the cache does not come back as a good one.
InvalidateIsFinal == [][~valid /\ ~cache.cached => ~cache'.found]_tokenVars
=============================================================================
