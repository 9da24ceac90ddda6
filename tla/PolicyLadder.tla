----------------------------- MODULE PolicyLadder -----------------------------
(***************************************************************************)
(* The decision on one domain in one category (internal/policy/policy.go): *)
(* a score from the evidence of the sources, and a ladder of lists and     *)
(* thresholds of which the first rung that applies decides.  The functions *)
(* are pure; the state machine around them is the life of their input: the *)
(* rows of the domain in domain_sources with their categories, the lists   *)
(* and the clock, in days.                                                 *)
(***************************************************************************)
EXTENDS Integers, FiniteSets

CONSTANTS
    Feeds,          \* direct sources
    Categories,
    Covers,         \* Covers[f]: the categories of feed f
    Strengths,      \* values of trust score times confidence, per cent
    MinScore,       \* the category's threshold
    SourceBonus,    \* IndependentSourceBonus
    MaxBonus,       \* MaxIndependentBonus
    DayPenalty,     \* StalenessPenaltyPerDay
    MaxPenalty,     \* MaxStalenessPenalty
    Lifetimes,      \* days until valid_until of an OpenCTI row
    Lists,          \* the lists with entries on the domain, of AllLists
    Terms,          \* days until expires_at of an entry of a list
    MaxDay          \* bound on the clock

OpenCTI == "opencti"
Sources == Feeds \cup {OpenCTI}
AllLists == {"protected", "allowed", "blocked"}

ASSUME LadderAssumption ==
    /\ OpenCTI \notin Feeds /\ IsFiniteSet(Feeds)
    /\ Covers \in [Feeds -> SUBSET Categories]
    /\ Strengths \subseteq 0..100
    /\ MinScore \in 0..100
    /\ SourceBonus \in Nat /\ MaxBonus \in Nat
    /\ DayPenalty \in Nat /\ MaxPenalty \in Nat
    /\ Lists \subseteq AllLists
    /\ Lifetimes \subseteq Nat /\ Terms \subseteq Nat \ {0} /\ MaxDay \in Nat

VARIABLES
    rows,   \* the row of each source on the domain
    lists,  \* per list: the day the last entry that matches the domain ends, or
            \* Never; 0 without an entry
    now     \* the day

vars == <<rows, lists, now>>

Never == -1 \* no row, no valid_until, no revoked_at, no expires_at
NoRow == [seen |-> Never, strength |-> 0, until |-> Never, revoked |-> Never,
          categories |-> {}]

-----------------------------------------------------------------------------
(* The score.                                                              *)

\* The evidence on one category: the rows of the sources that claim it.
Evidence(r, c) == [s \in Sources |-> IF c \in r[s].categories THEN r[s] ELSE NoRow]

\* Evidence.active: neither revoked nor expired.
Active(row, day) ==
    /\ row.seen # Never
    /\ row.revoked # Never => row.revoked > day
    /\ row.until # Never => row.until > day

ActiveOn(r, day) == {s \in Sources : Active(r[s], day)}

AtMost(x, y) == IF x < y THEN x ELSE y
AtLeast(x, y) == IF x < y THEN y ELSE x

\* The largest of a set of numbers.
Largest(S) == CHOOSE x \in S : \A y \in S : y <= x

\* Variant: the least convincing row.
BestIsLeast(r, day) ==
    CHOOSE x \in {r[s].strength : s \in ActiveOn(r, day)} :
        \A s \in ActiveOn(r, day) : x <= r[s].strength

\* The most convincing row, and the day the domain was last seen.
Best(r, day) == Largest({r[s].strength : s \in ActiveOn(r, day)})
Newest(r, day) == Largest({r[s].seen : s \in ActiveOn(r, day)})

\* Variant: every source counts.
CountAll(r, day) == Cardinality(ActiveOn(r, day))

\* What OpenCTI says may come from the very feeds: only they are independent.
Independent(r, day) == Cardinality(ActiveOn(r, day) \cap Feeds)

IndependentBonus(n) == IF n < 2 THEN 0 ELSE AtMost((n - 1) * SourceBonus, MaxBonus)

StalenessPenalty(seen, day) ==
    IF day <= seen THEN 0 ELSE AtMost((day - seen) * DayPenalty, MaxPenalty)

\* Variant: no lower bound.
ClampTop(x) == AtMost(x, 100)

Clamp(x) == AtLeast(0, AtMost(x, 100))

Score(r, day) ==
    IF ActiveOn(r, day) = {} THEN 0
    ELSE Clamp(Best(r, day) + IndependentBonus(Independent(r, day))
                            - StalenessPenalty(Newest(r, day), day))

-----------------------------------------------------------------------------
(* The ladder.  The tenants' rungs are not used: their lists apply when the *)
(* snapshot is built.                                                       *)

\* Variant: a veto ends with its row.
RevokedWhileValid(r, day) ==
    /\ r[OpenCTI].revoked # Never /\ r[OpenCTI].revoked <= day
    /\ r[OpenCTI].until # Never => r[OpenCTI].until > day

\* Only the row of OpenCTI vetoes, expired or not.
RevokedByOpenCTI(r, day) == r[OpenCTI].revoked # Never /\ r[OpenCTI].revoked <= day

\* Variant: the manual block comes before the veto.
EvaluateBlockFirst(r, l, day) ==
    IF "protected" \in l \/ "allowed" \in l THEN "ALLOW"
    ELSE IF "blocked" \in l THEN "BLOCK"
    ELSE IF RevokedByOpenCTI(r, day) THEN "ALLOW"
    ELSE IF ActiveOn(r, day) # {} /\ Score(r, day) >= MinScore THEN "BLOCK"
    ELSE "MONITOR"

Evaluate(r, l, day) ==
    IF "protected" \in l \/ "allowed" \in l \/ RevokedByOpenCTI(r, day) THEN "ALLOW"
    ELSE IF "blocked" \in l \/ (ActiveOn(r, day) # {} /\ Score(r, day) >= MinScore)
    THEN "BLOCK"
    ELSE "MONITOR"

\* LoadLists: an entry that has ended is left out.
LoadLists(l, day) == {x \in Lists : l[x] = Never \/ l[x] > day}

\* evaluateOne, for the categories that some row is in.
Decision(c) ==
    LET r == Evidence(rows, c) IN
    IF \A s \in Sources : r[s] = NoRow THEN "none"
    ELSE Evaluate(r, LoadLists(lists, now), now)

-----------------------------------------------------------------------------
(* The life of the input.                                                  *)

Init ==
    /\ rows = [s \in Sources |-> NoRow]
    /\ lists \in [Lists -> {Never, 0}]
    /\ now = 0

\* A feed lists the domain: seen today, not revoked.  The strength it has got
\* when the row was made stays.
List(f) ==
    /\ \E strength \in Strengths :
         rows' = [rows EXCEPT ![f] = [seen |-> now, until |-> Never, revoked |-> Never,
                                      categories |-> Covers[f],
                                      strength |-> IF @ = NoRow THEN strength ELSE @.strength]]
    /\ UNCHANGED <<lists, now>>

\* A source drops it, past its grace period or with the indicator.
Drop(s) ==
    /\ rows[s] # NoRow
    /\ rows' = [rows EXCEPT ![s] = NoRow]
    /\ UNCHANGED <<lists, now>>

\* An indicator on it is created, updated, or revoked by an analyst, with or
\* without an end; the consumer's clock may be a day ahead of the engine's.
Indicate ==
    /\ \E strength \in Strengths, until \in {Never} \cup {now + n : n \in Lifetimes},
          revoked \in {Never, now, now + 1}, labels \in (SUBSET Categories) \ {{}} :
         rows' = [rows EXCEPT ![OpenCTI] = [seen |-> now, strength |-> strength,
                                            until |-> until, revoked |-> revoked,
                                            categories |-> labels]]
    /\ UNCHANGED <<lists, now>>

\* An admin adds an entry to a list, with or without an end, changes its end or removes it.
Edit ==
    /\ \E x \in Lists, until \in {Never, 0} \cup {now + n : n \in Terms} :
         /\ until # lists[x]
         /\ lists' = [lists EXCEPT ![x] = until]
    /\ UNCHANGED <<rows, now>>

\* A day goes by; no row and no entry is touched.
Tick ==
    /\ now < MaxDay
    /\ now' = now + 1
    /\ UNCHANGED <<rows, lists>>

Next ==
    \/ \E f \in Feeds : List(f)
    \/ \E s \in Sources : Drop(s)
    \/ Indicate \/ Edit \/ Tick

Spec == Init /\ [][Next]_vars

-----------------------------------------------------------------------------
(* Properties.                                                             *)

Row == [seen : Nat \cup {Never}, strength : 0..100, until : Nat \cup {Never},
        revoked : Nat \cup {Never}, categories : SUBSET Categories]

TypeOK ==
    /\ rows \in [Sources -> Row]
    /\ lists \in [Lists -> Nat \cup {Never}]
    /\ now \in Nat
    /\ \A c \in Categories : Score(Evidence(rows, c), now) \in 0..100

\* Time by itself gives no reason to block: it only uncovers one that an allowlist entry,
\* now at its end, has kept off.  Evidence gets older and runs out, a manual block ends,
\* and a veto outlives the row it came with (score, revokedByOpenCTI, LoadLists).
TimeOnlyUncovers ==
    [][now' # now =>
         \A c \in Categories :
             Decision(c)' = "BLOCK" =>
                 LET unlisted == LoadLists(lists, now) \ {"protected", "allowed"}
                 IN  Evaluate(Evidence(rows, c), unlisted, now) = "BLOCK"]_vars

\* One more feed that lists a domain, or one that lists it again, never gets it
\* off a blocklist: the best row, the newest and the number of feeds only grow
\* (score).
MoreEvidenceNeverUnblocks ==
    [][\A f \in Feeds, c \in Categories :
         /\ rows'[f].seen = now
         /\ rows' = [rows EXCEPT ![f] = rows'[f]]
         /\ UNCHANGED <<lists, now>>
         /\ Decision(c) = "BLOCK"
         => Decision(c)' = "BLOCK"]_vars

\* An analyst's revocation takes a domain off the blocklist of the indicator's
\* category however many feeds list it and whatever an admin has blocked ("bất kể
\* bao nhiêu feed còn đang khẳng định nó xấu", Evaluate).
VetoHolds ==
    LET row == rows[OpenCTI] IN
    row.revoked # Never /\ row.revoked <= now =>
        \A c \in row.categories : Decision(c) # "BLOCK"

\* "thu hồi một indicator trong OpenCTI sẽ gỡ chặn domain tương ứng" (README.md):
\* revoked, a domain is on no blocklist.
VetoUnblocks ==
    LET row == rows[OpenCTI] IN
    row.revoked # Never /\ row.revoked <= now =>
        \A c \in Categories : Decision(c) # "BLOCK"

\* What OpenCTI has from a feed and gives back is not a second source: a row that
\* is no stronger and no newer than what there is changes nothing (B3).
EchoIsNoEvidence ==
    \A c \in Categories :
        LET r == Evidence(rows, c)
            row == r[OpenCTI]
            rest == [r EXCEPT ![OpenCTI] = NoRow]
        IN  /\ Active(row, now)
            /\ \E f \in Feeds : /\ Active(r[f], now)
                                /\ r[f].strength >= row.strength
                                /\ r[f].seen >= row.seen
            => Score(r, now) = Score(rest, now)
=============================================================================
