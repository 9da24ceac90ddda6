-------------------------- MODULE PolicyLadderProofs --------------------------
(***************************************************************************)
(* What the score and the ladder promise, for any feeds, categories and    *)
(* weights.  The argument: the score grows with the best row, the newest   *)
(* one and the number of feeds (ScoreGrows); time takes rows away and      *)
(* makes them older, a feed adds a row or renews one, and what OpenCTI     *)
(* repeats changes neither of the three.                                   *)
(***************************************************************************)
EXTENDS PolicyLadder, FiniteSetTheorems, WellFoundedInduction, TLAPS

\* Nothing has been seen in the future, and what a feed's row says apart from its
\* strength is known from the feed.
PastInv == \A s \in Sources : rows[s].seen <= now

FeedInv ==
    \A f \in Feeds :
        rows[f] # NoRow =>
            /\ rows[f].seen # Never
            /\ rows[f].categories = Covers[f]
            /\ rows[f].until = Never /\ rows[f].revoked = Never

RowsInv == rows \in [Sources -> Row] /\ lists \in [Lists -> Nat \cup {Never}] /\ now \in Nat

Inv == RowsInv /\ PastInv /\ FeedInv

-----------------------------------------------------------------------------
(* Numbers.                                                                *)

LEMMA Weights ==
    /\ MinScore \in 0..100 /\ SourceBonus \in Nat /\ MaxBonus \in Nat
    /\ DayPenalty \in Nat /\ MaxPenalty \in Nat
    /\ Strengths \subseteq 0..100 /\ Lifetimes \subseteq Nat
    /\ OpenCTI \notin Feeds /\ IsFiniteSet(Feeds) /\ Covers \in [Feeds -> SUBSET Categories]
  BY LadderAssumption

LEMMA LeastNatural ==
    ASSUME NEW S \in SUBSET Nat, S # {}
    PROVE  \E x \in S : \A y \in S : x <= y
  <1>1. PICK x \in S : \A y \in S : <<y, x>> \notin OpToRel(<, Nat)
    BY NatLessThanWellFounded, WFMin
  <1>2. \A y \in S : ~(y < x)  BY <1>1 DEF OpToRel
  <1> QED  BY <1>2

LEMMA LargestIs ==
    ASSUME NEW S \in SUBSET Nat, S # {}, NEW B \in Nat, \A x \in S : x <= B
    PROVE  Largest(S) \in S /\ \A y \in S : y <= Largest(S)
  <1> DEFINE T == {n \in Nat : B - n \in S}
  <1>1. T # {}
    <2>1. PICK x \in S : TRUE  OBVIOUS
    <2>2. B - x \in Nat /\ B - (B - x) = x  BY <2>1
    <2> QED  BY <2>1, <2>2
  <1>2. PICK n \in T : \A m \in T : n <= m  BY <1>1, LeastNatural
  <1>3. \A y \in S : y <= B - n
    <2> SUFFICES ASSUME NEW y \in S PROVE y <= B - n  OBVIOUS
    <2>1. B - y \in Nat /\ B - (B - y) = y  OBVIOUS
    <2>2. n <= B - y  BY <1>2, <2>1
    <2> QED  BY <2>2
  <1>4. \E x \in S : \A y \in S : y <= x  BY <1>2, <1>3
  <1> QED  BY <1>4 DEF Largest

\* Products grow with their factors.
LEMMA ProductGrows ==
    ASSUME NEW a \in Nat, NEW b \in Nat, NEW p \in Nat, a <= b
    PROVE  a * p \in Nat /\ b * p \in Nat /\ a * p <= b * p
  <1>1. PICK k \in Nat : b = a + k  BY b - a \in Nat
  <1>2. b * p = a * p + k * p  BY <1>1
  <1>3. a * p \in Nat /\ k * p \in Nat  OBVIOUS
  <1> QED  BY <1>2, <1>3

LEMMA BonusGrows ==
    ASSUME NEW m \in Nat, NEW n \in Nat, m <= n
    PROVE  /\ IndependentBonus(m) \in Nat /\ IndependentBonus(n) \in Nat
           /\ IndependentBonus(m) <= IndependentBonus(n)
  <1>1. CASE m < 2
    <2>1. IndependentBonus(m) = 0  BY <1>1 DEF IndependentBonus
    <2>2. n >= 2 => (n - 1) * SourceBonus \in Nat
      <3>1. n >= 2 => n - 1 \in Nat  OBVIOUS
      <3> QED  BY <3>1, Weights, ProductGrows
    <2>3. IndependentBonus(n) \in Nat
      BY <2>2, Weights DEF IndependentBonus, AtMost
    <2> QED  BY <2>1, <2>3
  <1>2. CASE ~(m < 2)
    <2>1. m - 1 \in Nat /\ n - 1 \in Nat /\ m - 1 <= n - 1 /\ ~(n < 2)  BY <1>2
    <2>2. /\ (m - 1) * SourceBonus \in Nat /\ (n - 1) * SourceBonus \in Nat
          /\ (m - 1) * SourceBonus <= (n - 1) * SourceBonus
      BY <2>1, Weights, ProductGrows
    <2> QED  BY <1>2, <2>1, <2>2, Weights DEF IndependentBonus, AtMost
  <1> QED  BY <1>1, <1>2

LEMMA PenaltyShrinks ==
    ASSUME NEW seen1 \in Nat, NEW seen2 \in Nat, NEW day1 \in Nat, NEW day2 \in Nat,
           seen1 <= seen2, day2 <= day1
    PROVE  /\ StalenessPenalty(seen1, day1) \in Nat /\ StalenessPenalty(seen2, day2) \in Nat
           /\ StalenessPenalty(seen2, day2) <= StalenessPenalty(seen1, day1)
  <1>0. ASSUME NEW seen \in Nat, NEW day \in Nat
        PROVE  /\ StalenessPenalty(seen, day) \in Nat
               /\ ~(day <= seen) => (day - seen) \in Nat /\ (day - seen) * DayPenalty \in Nat
    <2>1. ~(day <= seen) => day - seen \in Nat  OBVIOUS
    <2>2. ~(day <= seen) => (day - seen) * DayPenalty \in Nat
      BY <2>1, Weights, ProductGrows
    <2> QED  BY <2>1, <2>2, Weights DEF StalenessPenalty, AtMost
  <1>1. CASE day2 <= seen2
    <2>1. StalenessPenalty(seen2, day2) = 0  BY <1>1 DEF StalenessPenalty
    <2>2. StalenessPenalty(seen1, day1) \in Nat  BY <1>0
    <2> QED  BY <2>1, <2>2
  <1>2. CASE ~(day2 <= seen2)
    <2>1. /\ day2 - seen2 \in Nat /\ day1 - seen1 \in Nat /\ day2 - seen2 <= day1 - seen1
          /\ ~(day1 <= seen1)
      BY <1>2
    <2>2. (day2 - seen2) * DayPenalty <= (day1 - seen1) * DayPenalty
      BY <2>1, Weights, ProductGrows
    <2>3. (day2 - seen2) * DayPenalty \in Nat /\ (day1 - seen1) * DayPenalty \in Nat
      BY <1>0, <1>2, <2>1
    <2>4. StalenessPenalty(seen2, day2) <= StalenessPenalty(seen1, day1)
      BY <1>2, <2>1, <2>2, <2>3, Weights DEF StalenessPenalty, AtMost
    <2> QED  BY <1>0, <2>4
  <1> QED  BY <1>1, <1>2

-----------------------------------------------------------------------------
(* The score.                                                              *)

\* Rows of a domain as the engine reads them, none from after the day B.
Rows(r, B) == r \in [Sources -> Row] /\ B \in Nat /\ \A s \in Sources : r[s].seen <= B

LEMMA RowNumbers ==
    ASSUME NEW r, NEW B, Rows(r, B), NEW s \in Sources
    PROVE  /\ r[s] \in Row /\ r[s].strength \in 0..100 /\ r[s].strength \in Nat
           /\ r[s].seen \in Int /\ r[s].until \in Int /\ r[s].revoked \in Int
  <1>1. r[s] \in Row  BY DEF Rows
  <1>2. /\ r[s].strength \in 0..100 /\ r[s].seen \in Nat \cup {Never}
        /\ r[s].until \in Nat \cup {Never} /\ r[s].revoked \in Nat \cup {Never}
    BY <1>1 DEF Row
  <1> QED  BY <1>1, <1>2 DEF Never

\* What Best, Newest and Independent are, when some row is active.
LEMMA ScoreParts ==
    ASSUME NEW r, NEW B, Rows(r, B), NEW day \in Nat, ActiveOn(r, day) # {}
    PROVE  /\ Best(r, day) \in 0..100
           /\ \E s \in ActiveOn(r, day) : Best(r, day) = r[s].strength
           /\ \A s \in ActiveOn(r, day) : r[s].strength <= Best(r, day)
           /\ Newest(r, day) \in Nat
           /\ \E s \in ActiveOn(r, day) : Newest(r, day) = r[s].seen
           /\ \A s \in ActiveOn(r, day) : r[s].seen <= Newest(r, day)
           /\ IsFiniteSet(ActiveOn(r, day) \cap Feeds)
           /\ Independent(r, day) \in Nat
  <1> DEFINE S == {r[s].strength : s \in ActiveOn(r, day)}
             N == {r[s].seen : s \in ActiveOn(r, day)}
  <1>0. \A s \in ActiveOn(r, day) :
            s \in Sources /\ r[s] \in Row /\ r[s].seen \in Nat /\ r[s].seen <= B
            /\ r[s].strength \in 0..100
    BY DEF ActiveOn, Active, Row, Rows, Never
  <1>1. S \in SUBSET Nat /\ S # {} /\ \A x \in S : x <= 100  BY <1>0
  <1>2. Largest(S) \in S /\ \A x \in S : x <= Largest(S)  BY <1>1, LargestIs
  <1>3. N \in SUBSET Nat /\ N # {} /\ \A x \in N : x <= B  BY <1>0
  <1>4. Largest(N) \in N /\ \A x \in N : x <= Largest(N)  BY <1>3, LargestIs DEF Rows
  <1>5. IsFiniteSet(ActiveOn(r, day) \cap Feeds)  BY Weights, FS_Subset
  <1>6. Independent(r, day) \in Nat  BY <1>5, FS_CardinalityType DEF Independent
  <1>7. Best(r, day) = Largest(S) /\ Newest(r, day) = Largest(N)  BY DEF Best, Newest
  <1> QED  BY <1>0, <1>2, <1>4, <1>5, <1>6, <1>7

LEMMA ScoreGrows ==
    ASSUME NEW r1, NEW r2, NEW B, Rows(r1, B), Rows(r2, B), NEW day1 \in Nat, NEW day2 \in Nat,
           ActiveOn(r1, day1) # {}, ActiveOn(r2, day2) # {},
           Best(r1, day1) <= Best(r2, day2), Newest(r1, day1) <= Newest(r2, day2),
           Independent(r1, day1) <= Independent(r2, day2), day2 <= day1
    PROVE  Score(r1, day1) <= Score(r2, day2)
  <1> DEFINE b1 == IndependentBonus(Independent(r1, day1))
             b2 == IndependentBonus(Independent(r2, day2))
             p1 == StalenessPenalty(Newest(r1, day1), day1)
             p2 == StalenessPenalty(Newest(r2, day2), day2)
  <1>1. /\ Best(r1, day1) \in 0..100 /\ Best(r2, day2) \in 0..100
        /\ Newest(r1, day1) \in Nat /\ Newest(r2, day2) \in Nat
        /\ Independent(r1, day1) \in Nat /\ Independent(r2, day2) \in Nat
    BY ScoreParts
  <1>2. b1 \in Nat /\ b2 \in Nat /\ b1 <= b2  BY <1>1, BonusGrows
  <1>3. p1 \in Nat /\ p2 \in Nat /\ p2 <= p1  BY <1>1, PenaltyShrinks
  <1>4. /\ Score(r1, day1) = Clamp(Best(r1, day1) + b1 - p1)
        /\ Score(r2, day2) = Clamp(Best(r2, day2) + b2 - p2)
    BY DEF Score
  <1> HIDE DEF b1, b2, p1, p2
  <1>5. Best(r1, day1) + b1 - p1 <= Best(r2, day2) + b2 - p2
        /\ Best(r1, day1) + b1 - p1 \in Int /\ Best(r2, day2) + b2 - p2 \in Int
    BY <1>1, <1>2, <1>3
  <1> QED  BY <1>4, <1>5 DEF Clamp, AtMost, AtLeast

LEMMA ScoreInRange ==
    ASSUME NEW r, NEW B, Rows(r, B), NEW day \in Nat
    PROVE  Score(r, day) \in 0..100
  <1>1. CASE ActiveOn(r, day) = {}  BY <1>1 DEF Score
  <1>2. CASE ActiveOn(r, day) # {}
    <2> DEFINE b == IndependentBonus(Independent(r, day))
               p == StalenessPenalty(Newest(r, day), day)
    <2>1. Best(r, day) \in 0..100 /\ Newest(r, day) \in Nat /\ Independent(r, day) \in Nat
      BY <1>2, ScoreParts
    <2>2. b \in Nat  BY <2>1, BonusGrows
    <2>3. p \in Nat  BY <2>1, PenaltyShrinks
    <2>4. Score(r, day) = Clamp(Best(r, day) + b - p)  BY <1>2 DEF Score
    <2> HIDE DEF b, p
    <2> QED  BY <2>1, <2>2, <2>3, <2>4 DEF Clamp, AtMost, AtLeast
  <1> QED  BY <1>1, <1>2

\* More rows, none of them weaker or older, on a day no later, never lower the score.
LEMMA MoreScores ==
    ASSUME NEW r1, NEW r2, NEW B, Rows(r1, B), Rows(r2, B), NEW day1 \in Nat, NEW day2 \in Nat,
           day2 <= day1, ActiveOn(r1, day1) # {},
           \A s \in ActiveOn(r1, day1) : /\ s \in ActiveOn(r2, day2)
                                         /\ r1[s].strength <= r2[s].strength
                                         /\ r1[s].seen <= r2[s].seen
    PROVE  ActiveOn(r2, day2) # {} /\ Score(r1, day1) <= Score(r2, day2)
  <1> DEFINE A1 == ActiveOn(r1, day1) \cap Feeds
             A2 == ActiveOn(r2, day2) \cap Feeds
  <1>1. ActiveOn(r2, day2) # {}  OBVIOUS
  <1>2. \A s \in Sources : /\ r1[s].strength \in Nat /\ r2[s].strength \in Nat
                           /\ r1[s].seen \in Int /\ r2[s].seen \in Int
    BY RowNumbers
  <1>3. PICK s \in ActiveOn(r1, day1) : Best(r1, day1) = r1[s].strength  BY ScoreParts
  <1>4. PICK t \in ActiveOn(r1, day1) : Newest(r1, day1) = r1[t].seen  BY ScoreParts
  <1>5. /\ Best(r1, day1) \in Nat /\ Best(r2, day2) \in Nat
        /\ Newest(r1, day1) \in Nat /\ Newest(r2, day2) \in Nat
        /\ r2[s].strength <= Best(r2, day2) /\ r2[t].seen <= Newest(r2, day2)
    <2>1. Best(r1, day1) \in 0..100 /\ Newest(r1, day1) \in Nat  BY ScoreParts
    <2>2. s \in ActiveOn(r2, day2) /\ t \in ActiveOn(r2, day2)  OBVIOUS
    <2>3. /\ Best(r2, day2) \in 0..100 /\ Newest(r2, day2) \in Nat
          /\ \A x \in ActiveOn(r2, day2) :
               r2[x].strength <= Best(r2, day2) /\ r2[x].seen <= Newest(r2, day2)
      BY <1>1, ScoreParts
    <2> QED  BY <2>1, <2>2, <2>3
  <1>6. s \in Sources /\ t \in Sources  BY DEF ActiveOn
  <1>7. Best(r1, day1) <= Best(r2, day2)  BY <1>2, <1>3, <1>5, <1>6
  <1>8. Newest(r1, day1) <= Newest(r2, day2)  BY <1>2, <1>4, <1>5, <1>6
  <1>9. Independent(r1, day1) <= Independent(r2, day2)
    <2>1. A1 \subseteq A2 /\ IsFiniteSet(A2)  BY <1>1, ScoreParts
    <2> QED  BY <2>1, FS_Subset DEF Independent
  <1> QED  BY <1>1, <1>7, <1>8, <1>9, ScoreGrows

-----------------------------------------------------------------------------
(* The life of the rows.                                                   *)

LEMMA NoRowType == NoRow \in Row /\ NoRow.seen = Never /\ NoRow.categories = {}
  BY DEF NoRow, Row, Never

LEMMA EvidenceRows ==
    ASSUME Inv, NEW c \in Categories
    PROVE  Rows(Evidence(rows, c), now)
  BY NoRowType DEF Inv, RowsInv, PastInv, Rows, Evidence, Never

LEMMA InitInv == Init => Inv
  BY NoRowType DEF Init, Inv, RowsInv, PastInv, FeedInv, Sources, Never

LEMMA ListInv == ASSUME Inv, NEW f \in Feeds, List(f) PROVE Inv'
  <1>1. PICK strength \in Strengths :
          rows' = [rows EXCEPT ![f] = [seen |-> now, until |-> Never, revoked |-> Never,
                                       categories |-> Covers[f],
                                       strength |-> IF @ = NoRow THEN strength ELSE @.strength]]
    BY DEF List
  <1> DEFINE row == [seen |-> now, until |-> Never, revoked |-> Never, categories |-> Covers[f],
                     strength |-> IF rows[f] = NoRow THEN strength ELSE rows[f].strength]
  <1>2. f \in Sources /\ rows \in [Sources -> Row] /\ now \in Nat
    BY DEF Sources, Inv, RowsInv
  <1>3. row \in Row
    <2>1. rows[f].strength \in 0..100 /\ strength \in 0..100 /\ Covers[f] \in SUBSET Categories
      BY <1>2, Weights DEF Row
    <2> QED  BY <1>2, <2>1 DEF Row
  <1>4. rows' = [rows EXCEPT ![f] = row]  BY <1>1
  <1>5. row.seen = now /\ row.seen # Never /\ row.categories = Covers[f]
        /\ row.until = Never /\ row.revoked = Never
    BY <1>2 DEF Never
  <1> HIDE DEF row
  <1> QED  BY <1>2, <1>3, <1>4, <1>5 DEF List, Inv, RowsInv, PastInv, FeedInv

LEMMA DropInv == ASSUME Inv, NEW s \in Sources, Drop(s) PROVE Inv'
  <1>1. rows' = [rows EXCEPT ![s] = NoRow] /\ UNCHANGED <<lists, now>>  BY DEF Drop
  <1> QED  BY <1>1, NoRowType DEF Inv, RowsInv, PastInv, FeedInv, Never

LEMMA IndicateInv == ASSUME Inv, Indicate PROVE Inv'
  <1>1. PICK strength \in Strengths, until \in {Never} \cup {now + n : n \in Lifetimes},
             revoked \in {Never, now, now + 1}, labels \in (SUBSET Categories) \ {{}} :
          rows' = [rows EXCEPT ![OpenCTI] = [seen |-> now, strength |-> strength,
                                             until |-> until, revoked |-> revoked,
                                             categories |-> labels]]
    BY DEF Indicate
  <1> DEFINE row == [seen |-> now, strength |-> strength, until |-> until,
                     revoked |-> revoked, categories |-> labels]
  <1>2. OpenCTI \in Sources /\ rows \in [Sources -> Row] /\ now \in Nat
        /\ \A f \in Feeds : f # OpenCTI
    BY Weights DEF Sources, Inv, RowsInv
  <1>3. row \in Row
    <2>1. until \in Nat \cup {Never} /\ revoked \in Nat \cup {Never} /\ strength \in 0..100
      BY <1>2, Weights
    <2> QED  BY <1>2, <2>1 DEF Row
  <1>4. row.seen = now  OBVIOUS
  <1>5. rows' = [rows EXCEPT ![OpenCTI] = row]  BY <1>1
  <1> HIDE DEF row
  <1> QED  BY <1>2, <1>3, <1>4, <1>5 DEF Indicate, Inv, RowsInv, PastInv, FeedInv

LEMMA NextInv == Inv /\ [Next]_vars => Inv'
  <1> SUFFICES ASSUME Inv, [Next]_vars PROVE Inv'  OBVIOUS
  <1>1. CASE Edit
    <2>1. PICK x \in Lists, until \in {Never, 0} \cup {now + n : n \in Terms} :
            lists' = [lists EXCEPT ![x] = until]
      BY <1>1 DEF Edit
    <2>2. until \in Nat \cup {Never}  BY <2>1, LadderAssumption DEF Inv, RowsInv
    <2>3. lists' \in [Lists -> Nat \cup {Never}]  BY <2>1, <2>2 DEF Inv, RowsInv
    <2> QED  BY <1>1, <2>3 DEF Edit, Inv, RowsInv, PastInv, FeedInv
  <1>2. CASE Tick
    <2>1. now \in Nat /\ now' = now + 1 /\ rows' = rows /\ lists' = lists
          /\ \A s \in Sources : rows[s].seen \in Nat \cup {Never}
      BY <1>2 DEF Tick, Inv, RowsInv, Row
    <2>2. \A s \in Sources : rows'[s].seen <= now'  BY <2>1 DEF Inv, PastInv, Never
    <2> QED  BY <2>1, <2>2 DEF Inv, RowsInv, PastInv, FeedInv
  <1>3. CASE UNCHANGED vars  BY <1>3 DEF vars, Inv, RowsInv, PastInv, FeedInv
  <1> QED  BY <1>1, <1>2, <1>3, ListInv, DropInv, IndicateInv DEF Next

LEMMA Invariance == Spec => []Inv
  BY InitInv, NextInv, PTL DEF Spec

\* The types hold, and no evidence makes a score that is not one.
THEOREM TypeCorrect == Spec => []TypeOK
  <1>1. Inv => TypeOK
    <2> SUFFICES ASSUME Inv, NEW c \in Categories PROVE Score(Evidence(rows, c), now) \in 0..100
      BY DEF TypeOK, Inv, RowsInv
    <2> QED  BY EvidenceRows, ScoreInRange DEF Inv, RowsInv
  <1> QED  BY <1>1, Invariance, PTL

-----------------------------------------------------------------------------
(* The ladder.                                                             *)

\* What a blocked domain is, read off the ladder.
LEMMA Blocks ==
    ASSUME NEW r, NEW l, NEW day
    PROVE  Evaluate(r, l, day) = "BLOCK" <=>
             /\ "protected" \notin l /\ "allowed" \notin l /\ ~RevokedByOpenCTI(r, day)
             /\ "blocked" \in l \/ (ActiveOn(r, day) # {} /\ Score(r, day) >= MinScore)
  BY DEF Evaluate

\* An analyst's revocation takes a domain off the blocklist of its categories,
\* whatever the feeds and the lists say (revokedByOpenCTI, Evaluate).
THEOREM RevokedIsNotBlocked == Spec => []VetoHolds
  <1>1. Inv => VetoHolds
    <2> SUFFICES ASSUME Inv, rows[OpenCTI].revoked # Never, rows[OpenCTI].revoked <= now,
                        NEW c \in rows[OpenCTI].categories
                 PROVE  Decision(c) # "BLOCK"
      BY DEF VetoHolds
    <2> DEFINE r == Evidence(rows, c)
    <2>1. r[OpenCTI] = rows[OpenCTI]  BY DEF Evidence, Sources
    <2>2. RevokedByOpenCTI(r, now)  BY <2>1 DEF RevokedByOpenCTI
    <2>3. Evaluate(r, LoadLists(lists, now), now) # "BLOCK"  BY <2>2, Blocks
    <2> HIDE DEF r
    <2>4. Decision(c) = IF \A s \in Sources : r[s] = NoRow THEN "none"
                        ELSE Evaluate(r, LoadLists(lists, now), now)
      BY DEF Decision, r
    <2> QED  BY <2>3, <2>4
  <1> QED  BY <1>1, Invariance, PTL

\* What OpenCTI repeats of a feed, no stronger and no newer, changes no score
\* (Independent counts no echo).
THEOREM EchoAddsNothing == Spec => []EchoIsNoEvidence
  <1>1. Inv => EchoIsNoEvidence
    <2> SUFFICES ASSUME Inv, NEW c \in Categories, NEW r, r = Evidence(rows, c),
                        Active(r[OpenCTI], now),
                        NEW f \in Feeds, Active(r[f], now),
                        r[f].strength >= r[OpenCTI].strength, r[f].seen >= r[OpenCTI].seen
                 PROVE  Score(r, now) = Score([r EXCEPT ![OpenCTI] = NoRow], now)
      BY DEF EchoIsNoEvidence
    <2> DEFINE rest == [r EXCEPT ![OpenCTI] = NoRow]
    <2>1. Rows(r, now) /\ now \in Nat  BY EvidenceRows DEF Inv, RowsInv
    <2>2. f \in Sources /\ f # OpenCTI /\ OpenCTI \in Sources /\ OpenCTI \notin Feeds
      BY Weights DEF Sources
    <2>3. Rows(rest, now)  BY <2>1, <2>2, NoRowType DEF Rows, Never
    <2>4. rest[OpenCTI] = NoRow /\ \A s \in Sources \ {OpenCTI} : rest[s] = r[s]
      BY <2>1, <2>2 DEF Rows
    <2> HIDE DEF rest
    <2>5. OpenCTI \notin ActiveOn(rest, now)  BY <2>4, NoRowType DEF ActiveOn, Active
    <2>6. ActiveOn(rest, now) = ActiveOn(r, now) \ {OpenCTI}  BY <2>4, <2>5 DEF ActiveOn
    <2>7. f \in ActiveOn(rest, now) /\ f \in ActiveOn(r, now) /\ rest[f] = r[f]
      BY <2>2, <2>4, <2>6 DEF ActiveOn
    <2>8. Score(rest, now) <= Score(r, now)
      <3>1. \A s \in ActiveOn(rest, now) : /\ s \in ActiveOn(r, now)
                                           /\ rest[s].strength <= r[s].strength
                                           /\ rest[s].seen <= r[s].seen
        BY <2>1, <2>4, <2>6, RowNumbers DEF ActiveOn
      <3> QED  BY <3>1, <2>1, <2>3, <2>7, MoreScores
    <2>9. Score(r, now) <= Score(rest, now)
      <3>1. PICK s \in ActiveOn(r, now) : Best(r, now) = r[s].strength  BY <2>1, <2>7, ScoreParts
      <3>2. PICK t \in ActiveOn(r, now) : Newest(r, now) = r[t].seen  BY <2>1, <2>7, ScoreParts
      <3>3. \A x \in ActiveOn(rest, now) :
              /\ r[x].strength <= Best(rest, now) /\ r[x].seen <= Newest(rest, now)
        BY <2>1, <2>3, <2>4, <2>6, <2>7, ScoreParts DEF ActiveOn
      <3>4. Best(rest, now) \in 0..100 /\ Newest(rest, now) \in Nat
        <4>1. ActiveOn(rest, now) # {} /\ now \in Nat  BY <2>1, <2>7
        <4> QED  BY <4>1, <2>3, ScoreParts
      <3>5. \A x \in Sources : r[x].strength \in Nat /\ r[x].seen \in Int
        BY <2>1, RowNumbers
      <3>6. s \in Sources /\ t \in Sources  BY DEF ActiveOn
      <3>7. Best(r, now) <= Best(rest, now)
        <4>1. CASE s = OpenCTI  BY <4>1, <3>1, <3>3, <3>4, <3>5, <2>2, <2>7
        <4>2. CASE s # OpenCTI  BY <4>2, <3>1, <3>3, <2>6
        <4> QED  BY <4>1, <4>2
      <3>8. Newest(r, now) <= Newest(rest, now)
        <4>1. CASE t = OpenCTI  BY <4>1, <3>2, <3>3, <3>4, <3>5, <2>2, <2>7
        <4>2. CASE t # OpenCTI  BY <4>2, <3>2, <3>3, <2>6
        <4> QED  BY <4>1, <4>2
      <3>9. Independent(r, now) = Independent(rest, now) /\ Independent(r, now) \in Nat
        <4>1. ActiveOn(r, now) \cap Feeds = ActiveOn(rest, now) \cap Feeds  BY <2>2, <2>6
        <4> QED  BY <4>1, <2>1, <2>7, ScoreParts DEF Independent
      <3> QED  BY <3>7, <3>8, <3>9, <2>1, <2>3, <2>7, ScoreGrows
    <2>10. Score(r, now) \in 0..100 /\ Score(rest, now) \in 0..100
      BY <2>1, <2>3, ScoreInRange
    <2>11. Score(r, now) = Score(rest, now)  BY <2>8, <2>9, <2>10
    <2> QED  BY <2>11 DEF rest
  <1> QED  BY <1>1, Invariance, PTL

\* Time by itself gives no reason to block: a later day has fewer active rows, the same ones
\* but older, no list entry more and every veto of the day before, so what it brings to a
\* blocklist an allowlist entry had kept off (score, revokedByOpenCTI, LoadLists).
THEOREM TimeGivesNoReason == Spec => TimeOnlyUncovers
  <1>1. ASSUME Inv, [Next]_vars, now' # now, NEW c \in Categories, Decision(c)' = "BLOCK"
        PROVE  Evaluate(Evidence(rows, c), LoadLists(lists, now) \ {"protected", "allowed"}, now)
                 = "BLOCK"
    <2> DEFINE r == Evidence(rows, c)
               later == LoadLists(lists, now + 1)
               unlisted == LoadLists(lists, now) \ {"protected", "allowed"}
    <2>1. Tick  BY <1>1 DEF Next, vars, List, Drop, Indicate, Edit
    <2>2. now \in Nat /\ now' = now + 1 /\ rows' = rows /\ lists' = lists
      BY <2>1, <1>1 DEF Tick, Inv, RowsInv
    <2>3. Rows(r, now)  BY <1>1, EvidenceRows
    <2>4. Evidence(rows, c)' = r  BY <2>2 DEF Evidence
    <2>5. Decision(c)' = IF \A s \in Sources : r[s] = NoRow THEN "none"
                         ELSE Evaluate(r, later, now + 1)
      BY <2>2, <2>4 DEF Decision, LoadLists
    <2>6. "blocked" \in later => "blocked" \in unlisted
      <3>1. \A x \in Lists : lists[x] \in Int  BY <1>1 DEF Inv, RowsInv, Never
      <3> QED  BY <2>2, <3>1 DEF LoadLists
    <2>7. "protected" \notin unlisted /\ "allowed" \notin unlisted  OBVIOUS
    <2> HIDE DEF r, later, unlisted
    <2>8. Evaluate(r, later, now + 1) = "BLOCK"  BY <1>1, <2>5
    <2>9. /\ ~RevokedByOpenCTI(r, now + 1)
          /\ \/ "blocked" \in later
             \/ ActiveOn(r, now + 1) # {} /\ Score(r, now + 1) >= MinScore
      BY <2>8, Blocks
    <2>10. \A s \in Sources : /\ r[s].until \in Int /\ r[s].revoked \in Int
                              /\ r[s].strength \in Int /\ r[s].seen \in Int
      BY <2>3, RowNumbers
    <2>11. ~RevokedByOpenCTI(r, now)
      BY <2>2, <2>9, <2>10 DEF RevokedByOpenCTI, Sources
    <2>12. ActiveOn(r, now + 1) \subseteq ActiveOn(r, now)
      BY <2>2, <2>10 DEF ActiveOn, Active
    <2>13. ASSUME ActiveOn(r, now + 1) # {}, Score(r, now + 1) >= MinScore
           PROVE  ActiveOn(r, now) # {} /\ Score(r, now) >= MinScore
      <3>1. \A s \in ActiveOn(r, now + 1) : /\ s \in ActiveOn(r, now)
                                            /\ r[s].strength <= r[s].strength
                                            /\ r[s].seen <= r[s].seen
        BY <2>10, <2>12 DEF ActiveOn
      <3>2. ActiveOn(r, now) # {} /\ Score(r, now + 1) <= Score(r, now)
        BY <3>1, <2>13, <2>2, <2>3, MoreScores
      <3>3. Score(r, now) \in 0..100 /\ Score(r, now + 1) \in 0..100 /\ MinScore \in 0..100
        BY <2>2, <2>3, ScoreInRange, Weights
      <3> QED  BY <2>13, <3>2, <3>3
    <2>14. Evaluate(r, unlisted, now) = "BLOCK"  BY <2>6, <2>7, <2>9, <2>11, <2>13, Blocks
    <2> QED  BY <2>14 DEF r, unlisted
  <1>2. Inv /\ [Next]_vars =>
          [now' # now =>
             \A c \in Categories :
                 Decision(c)' = "BLOCK" =>
                     LET unlisted == LoadLists(lists, now) \ {"protected", "allowed"}
                     IN  Evaluate(Evidence(rows, c), unlisted, now) = "BLOCK"]_vars
    BY <1>1
  <1> QED  BY <1>2, Invariance, PTL DEF Spec, TimeOnlyUncovers

\* What a step leaves of a feed's row: nothing, or its strength.
LEMMA StrengthStays ==
    ASSUME Inv, [Next]_vars, NEW f \in Feeds, rows'[f] # NoRow, rows[f] # NoRow
    PROVE  rows'[f].strength = rows[f].strength
  <1>0. rows \in [Sources -> Row] /\ f \in Sources /\ f # OpenCTI
    BY Weights DEF Inv, RowsInv, Sources
  <1>1. ASSUME NEW g \in Feeds, List(g) PROVE rows'[f].strength = rows[f].strength
    <2>1. PICK strength \in Strengths :
            rows' = [rows EXCEPT ![g] = [seen |-> now, until |-> Never, revoked |-> Never,
                                         categories |-> Covers[g],
                                         strength |-> IF @ = NoRow THEN strength
                                                      ELSE @.strength]]
      BY <1>1 DEF List
    <2>2. CASE f = g  BY <2>1, <2>2, <1>0
    <2>3. CASE f # g  BY <2>1, <2>3, <1>0
    <2> QED  BY <2>2, <2>3
  <1>2. ASSUME NEW s \in Sources, Drop(s) PROVE rows'[f].strength = rows[f].strength
    BY <1>0, <1>2 DEF Drop
  <1>3. CASE Indicate  BY <1>0, <1>3 DEF Indicate
  <1> QED  BY <1>1, <1>2, <1>3 DEF Next, Edit, Tick, vars

\* One more listing blocks on: the feed's row covers at least the categories it
\* covered, is at least as strong and is seen today (RecordFeedDomains, score).
THEOREM ListingNeverUnblocks == Spec => MoreEvidenceNeverUnblocks
  <1>1. ASSUME Inv, Inv', [Next]_vars, NEW f \in Feeds, NEW c \in Categories,
               rows'[f].seen = now, rows' = [rows EXCEPT ![f] = rows'[f]],
               UNCHANGED <<lists, now>>, Decision(c) = "BLOCK"
        PROVE  Decision(c)' = "BLOCK"
    <2> DEFINE r1 == Evidence(rows, c)
               r2 == Evidence(rows', c)
               l == LoadLists(lists, now)
    <2>1. /\ rows \in [Sources -> Row] /\ rows' \in [Sources -> Row] /\ now \in Nat
          /\ now' = now /\ lists' = lists
          /\ f \in Sources /\ f # OpenCTI /\ OpenCTI \in Sources
      BY <1>1, Weights DEF Inv, RowsInv, Sources
    <2>2. Rows(r1, now) /\ Rows(r2, now)
      <3>1. Rows(r1, now)  BY <1>1, EvidenceRows
      <3>2. \A s \in Sources : rows'[s].seen <= now  BY <1>1, <2>1 DEF Inv, PastInv
      <3> QED  BY <2>1, <3>1, <3>2, NoRowType DEF Rows, Evidence, Never
    <2>3. \A s \in Sources \ {f} : r2[s] = r1[s]  BY <1>1, <2>1 DEF Evidence
    <2>4. rows'[f] # NoRow /\ rows'[f].seen # Never  BY <1>1, <2>1, NoRowType DEF Never
    <2>5. rows'[f].categories = Covers[f] /\ rows'[f].until = Never /\ rows'[f].revoked = Never
      BY <1>1, <2>4 DEF Inv, FeedInv
    <2>6. ASSUME r1[f] # NoRow
          PROVE  /\ r2[f] = rows'[f] /\ r2[f] # NoRow /\ Active(r2[f], now)
                 /\ r1[f].strength = r2[f].strength /\ r1[f].seen <= r2[f].seen
      <3>1. r1[f] = rows[f] /\ c \in rows[f].categories  BY <2>1, <2>6 DEF Evidence
      <3>2. rows[f].categories = Covers[f]  BY <1>1, <2>6, <3>1 DEF Inv, FeedInv
      <3>3. r2[f] = rows'[f]  BY <2>1, <2>5, <3>1, <3>2 DEF Evidence
      <3>4. Active(r2[f], now)  BY <3>3, <2>4, <2>5 DEF Active
      <3>5. r1[f].strength = r2[f].strength  BY <3>1, <3>3, <2>4, <2>6, <1>1, StrengthStays
      <3>6. r1[f].seen <= r2[f].seen  BY <3>3, <1>1, <2>1, <2>2 DEF Rows
      <3> QED  BY <3>3, <3>4, <3>5, <3>6, <2>4
    <2>7. /\ Decision(c) = IF \A s \in Sources : r1[s] = NoRow THEN "none"
                           ELSE Evaluate(r1, l, now)
          /\ Decision(c)' = IF \A s \in Sources : r2[s] = NoRow THEN "none"
                            ELSE Evaluate(r2, l, now)
      <3>1. Evidence(rows, c)' = r2  BY DEF Evidence
      <3> QED  BY <3>1, <2>1 DEF Decision
    <2> HIDE DEF r1, r2, l
    <2>8. PICK s \in Sources : r1[s] # NoRow  BY <1>1, <2>7
    <2>9. r2[s] # NoRow  BY <2>3, <2>6, <2>8
    <2>10. /\ "protected" \notin l /\ "allowed" \notin l /\ ~RevokedByOpenCTI(r1, now)
           /\ "blocked" \in l \/ (ActiveOn(r1, now) # {} /\ Score(r1, now) >= MinScore)
      BY <1>1, <2>7, <2>8, Blocks
    <2>11. ~RevokedByOpenCTI(r2, now)  BY <2>1, <2>3, <2>10 DEF RevokedByOpenCTI
    <2>12. ASSUME ActiveOn(r1, now) # {}, Score(r1, now) >= MinScore
           PROVE  ActiveOn(r2, now) # {} /\ Score(r2, now) >= MinScore
      <3>1. ASSUME NEW x \in ActiveOn(r1, now)
            PROVE  /\ x \in ActiveOn(r2, now)
                   /\ r1[x].strength <= r2[x].strength /\ r1[x].seen <= r2[x].seen
        <4>1. x \in Sources /\ r1[x].seen # Never  BY <3>1 DEF ActiveOn, Active
        <4>2. /\ r1[x].strength \in Int /\ r1[x].seen \in Int
              /\ r2[x].strength \in Int /\ r2[x].seen \in Int
          BY <4>1, <2>2, RowNumbers
        <4>3. CASE x = f
          <5>1. r1[f] # NoRow  BY <4>1, <4>3, NoRowType
          <5> QED  BY <5>1, <4>1, <4>2, <4>3, <2>6 DEF ActiveOn
        <4>4. CASE x # f
          <5>1. r2[x] = r1[x]  BY <4>1, <4>4, <2>3
          <5> QED  BY <3>1, <4>1, <4>2, <5>1 DEF ActiveOn
        <4> QED  BY <4>3, <4>4
      <3>2. ActiveOn(r2, now) # {} /\ Score(r1, now) <= Score(r2, now)
        <4>1. now \in Nat /\ now <= now  BY <2>1
        <4> QED  BY <3>1, <4>1, <2>2, <2>12, MoreScores
      <3>3. Score(r1, now) \in 0..100 /\ Score(r2, now) \in 0..100 /\ MinScore \in 0..100
        BY <2>1, <2>2, ScoreInRange, Weights
      <3> QED  BY <2>12, <3>2, <3>3
    <2>13. Evaluate(r2, l, now) = "BLOCK"  BY <2>10, <2>11, <2>12, Blocks
    <2> QED  BY <2>7, <2>8, <2>9, <2>13
  <1>2. Inv /\ Inv' /\ [Next]_vars =>
          [\A f \in Feeds, c \in Categories :
             /\ rows'[f].seen = now
             /\ rows' = [rows EXCEPT ![f] = rows'[f]]
             /\ UNCHANGED <<lists, now>>
             /\ Decision(c) = "BLOCK"
             => Decision(c)' = "BLOCK"]_vars
    BY <1>1
  <1> QED  BY <1>2, Invariance, PTL DEF Spec, MoreEvidenceNeverUnblocks
=============================================================================
