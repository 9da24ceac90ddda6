------------------------------ MODULE TenantProofs ------------------------------
(***************************************************************************)
(* What the generator serves a tenant: its lists (DomainLists), and the    *)
(* token in the path they are asked for by (TokenCache).                   *)
(*                                                                         *)
(* For any names, any tree they form, any order of the sort, any           *)
(* categories and any rules: the files of a tenant block what the policy   *)
(* and the tenant ask for.  The argument: what Collapse has left behind is *)
(* below a rule it has kept (ScanInv), so a file covers what its rules     *)
(* cover (FilesInv); leaving out a rule that the allowlist matches opens   *)
(* names only that allowlist.txt opens anyway.                             *)
(*                                                                         *)
(* For any number of requests and any durations, an entry of the token     *)
(* cache is never younger than the moment its value held in the database   *)
(* (CacheSound), and never older than the latest write of the cache by     *)
(* more than a request may take (CacheRecent); what a request has read     *)
(* from it is bounded in the same way while the request goes on.           *)
(***************************************************************************)
EXTENDS DomainLists, TokenCache, SequenceTheorems, TLAPS

NamesOf(items) == {r[1] : r \in items}

\* A file and the rules it is made of cover the same names.
Same(list, items) == \A n \in Names : Covers(list, n) <=> Covers(NamesOf(items), n)

Items == Names \X {Exact, Wildcard} \X (Outputs \cup Keys)

TypeInv ==
    /\ base \in [Categories -> SUBSET Rules]
    /\ allow \in SUBSET Rules
    /\ deny \in [Keys -> SUBSET Rules]
    /\ at \in 1..(Len(Files) + 1)
    /\ scanning \in BOOLEAN
    /\ rest \subseteq Items /\ kept \subseteq Items /\ lastKept \subseteq Names
    /\ union \subseteq Items
    /\ lines \in [Outputs -> SUBSET Names]

ScanInv ==
    scanning =>
        /\ at <= Len(Files)
        /\ rest \subseteq Entries(Files[at]) /\ kept \subseteq Entries(Files[at])
        /\ \A a \in lastKept : \E k \in kept : k[1] = a
        /\ \A r \in Entries(Files[at]) \ rest : \E k \in kept : <<k[1], r[1]>> \in Below

UnionInv ==
    union = UNION {Effective(Subscribed[i]) : i \in {j \in DOMAIN Subscribed : j < at}}

FilesInv ==
    \A i \in 1..Len(Files) : i < at => Same(lines[Files[i]], Entries(Files[i]))

Inv == TypeInv /\ ScanInv /\ UnionInv /\ FilesInv

-----------------------------------------------------------------------------
(* The files and their entries.                                            *)

LEMMA FileNames ==
    /\ Len(Subscribed) \in Nat
    /\ DOMAIN Subscribed = 1..Len(Subscribed)
    /\ Len(Files) = Len(Subscribed) + 2
    /\ \A i \in 1..Len(Subscribed) : Files[i] = Subscribed[i] /\ Files[i] \in Categories
    /\ Files[Len(Subscribed) + 1] = All
    /\ Files[Len(Subscribed) + 2] = Allow
    /\ All \notin Categories /\ Allow \notin Categories /\ All # Allow
    /\ \A i \in 1..Len(Files) : Files[i] \in Outputs
  <1> DEFINE S == STRING \cup {All, Allow}
  <1>1. Subscribed \in Seq(S) /\ <<All, Allow>> \in Seq(S)
    <2>1. Subscribed \in Seq(STRING)  BY FileAssumption
    <2>2. All \in S /\ Allow \in S  OBVIOUS
    <2>3. <<All, Allow>> \in Seq(S)
      <3> HIDE DEF S
      <3> QED  BY <2>2
    <2> QED  BY <2>1, <2>3
  <1> HIDE DEF S
  <1>2. Len(Subscribed) \in Nat /\ DOMAIN Subscribed = 1..Len(Subscribed)
    BY <1>1, LenProperties
  <1>3. Len(<<All, Allow>>) = 2  OBVIOUS
  <1>4. /\ Len(Files) = Len(Subscribed) + 2
        /\ \A i \in 1..(Len(Subscribed) + 2) :
              Files[i] = IF i <= Len(Subscribed) THEN Subscribed[i]
                         ELSE <<All, Allow>>[i - Len(Subscribed)]
    BY <1>1, <1>2, <1>3, ConcatProperties DEF Files
  <1>5. \A i \in 1..Len(Subscribed) : Files[i] = Subscribed[i] /\ Files[i] \in Categories
    BY <1>2, <1>4 DEF Categories
  <1>6. Files[Len(Subscribed) + 1] = All /\ Files[Len(Subscribed) + 2] = Allow
    <2>1. Files[Len(Subscribed) + 1] = <<All, Allow>>[1]  BY <1>2, <1>4
    <2>2. Files[Len(Subscribed) + 2] = <<All, Allow>>[2]  BY <1>2, <1>4
    <2> QED  BY <2>1, <2>2
  <1>7. All \notin Categories /\ Allow \notin Categories /\ All # Allow
    BY FileAssumption DEF Categories, All, Allow
  <1>8. \A i \in 1..Len(Files) : Files[i] \in Outputs
    <2> SUFFICES ASSUME NEW i \in 1..Len(Files) PROVE Files[i] \in Outputs  OBVIOUS
    <2>1. i \in 1..Len(Subscribed) \/ i = Len(Subscribed) + 1 \/ i = Len(Subscribed) + 2
      BY <1>2, <1>4
    <2> QED  BY <2>1, <1>5, <1>6 DEF Outputs
  <1> QED  BY <1>2, <1>4, <1>5, <1>6, <1>7, <1>8

LEMMA EntriesType ==
    ASSUME TypeInv
    PROVE  /\ \A c \in Categories : Effective(c) \subseteq Items /\ Entries(c) = Effective(c)
           /\ Entries(All) = union /\ Entries(Allow) = From(allow, Allow)
           /\ \A f \in Outputs : Entries(f) \subseteq Items
  <1>1. ASSUME NEW list \in SUBSET Rules, NEW c \in Outputs \cup Keys
        PROVE  From(list, c) \subseteq Items
    BY DomainAssumption DEF From, Items
  <1>2. \A c \in Categories : Effective(c) \subseteq Items
    <2> SUFFICES ASSUME NEW c \in Categories PROVE Effective(c) \subseteq Items  OBVIOUS
    <2>1. c \in Outputs \cup Keys /\ AnyCategory \in Outputs \cup Keys  BY DEF Outputs, Keys
    <2>2. {r \in base[c] : ~Match(allow, r[1])} \in SUBSET Rules
          /\ deny[AnyCategory] \in SUBSET Rules /\ deny[c] \in SUBSET Rules
      BY DEF TypeInv, Keys
    <2>3. /\ From({r \in base[c] : ~Match(allow, r[1])}, c) \subseteq Items
          /\ From(deny[AnyCategory], AnyCategory) \subseteq Items /\ From(deny[c], c) \subseteq Items
      BY <2>1, <2>2, <1>1
    <2> QED  BY <2>3 DEF Effective
  <1>3. \A c \in Categories : Entries(c) = Effective(c)
    BY FileNames DEF Entries
  <1>4. Entries(All) = union /\ Entries(Allow) = From(allow, Allow)
    BY FileNames DEF Entries
  <1>5. From(allow, Allow) \subseteq Items
    BY <1>1 DEF TypeInv, Outputs
  <1> QED  BY <1>2, <1>3, <1>4, <1>5 DEF Outputs, TypeInv

-----------------------------------------------------------------------------
(* The steps.                                                              *)

LEMMA InitInv == Init => Inv
  <1> SUFFICES ASSUME Init PROVE Inv  OBVIOUS
  <1>1. TypeInv
    <2>1. \A b \in Nat : Few(b) \subseteq SUBSET Rules  BY DEF Few
    <2>2. base \in [Categories -> SUBSET Rules]  BY <2>1, DomainAssumption DEF Init
    <2>3. deny \in [Keys -> SUBSET Rules]  BY <2>1, DomainAssumption DEF Init
    <2>4. allow \in SUBSET Rules  BY <2>1, DomainAssumption DEF Init
    <2>5. at \in 1..(Len(Files) + 1)  BY FileNames DEF Init
    <2> QED  BY <2>2, <2>3, <2>4, <2>5 DEF Init, TypeInv
  <1>2. ScanInv  BY DEF Init, ScanInv
  <1>3. UnionInv
    <2>1. {j \in DOMAIN Subscribed : j < at} = {}  BY FileNames DEF Init
    <2> QED  BY <2>1 DEF Init, UnionInv
  <1>4. FilesInv  BY DEF Init, FilesInv
  <1> QED  BY <1>1, <1>2, <1>3, <1>4 DEF Inv

\* The rules of a file are the same as long as the inputs and the union are.
LEMMA EntriesSame ==
    ASSUME UNCHANGED input
    PROVE  /\ \A c : Effective(c)' = Effective(c)
           /\ union' = union => \A f : Entries(f)' = Entries(f)
  BY DEF input, Effective, Entries, From, Match

LEMMA BeginInv == ASSUME Inv, Begin PROVE Inv'
  <1>0. TypeInv /\ UNCHANGED <<input, at, union, lines>> /\ UNCHANGED input
        /\ at \in 1..Len(Files) /\ scanning' = TRUE
        /\ rest' = Entries(Files[at]) /\ kept' = {} /\ lastKept' = {}
    BY FileNames DEF Inv, Begin, TypeInv
  <1>1. Entries(Files[at]) \subseteq Items  BY <1>0, FileNames, EntriesType
  <1>2. TypeInv'  BY <1>0, <1>1 DEF TypeInv, input
  <1>3. ScanInv'  BY <1>0, EntriesSame DEF ScanInv
  <1>4. UnionInv'  BY <1>0, EntriesSame DEF Inv, UnionInv
  <1>5. FilesInv'  BY <1>0, EntriesSame DEF Inv, FilesInv, Same
  <1> QED  BY <1>2, <1>3, <1>4, <1>5 DEF Inv

LEMMA ScanStepInv == ASSUME Inv, NEW r \in rest, Scan(r) PROVE Inv'
  <1>0. TypeInv /\ ScanInv /\ UNCHANGED <<input, at, scanning, union, lines>>
        /\ UNCHANGED input /\ scanning = TRUE /\ rest' = rest \ {r} /\ r \in Items
    BY DEF Inv, Scan, TypeInv
  <1>1. r[1] \in Names /\ <<r[1], r[1]>> \in Below
    BY <1>0, DomainAssumption DEF Items
  <1>2. CASE Covered(r)
    <2>1. UNCHANGED <<kept, lastKept>>  BY <1>2 DEF Scan
    <2>2. \E k \in kept : <<k[1], r[1]>> \in Below
      BY <1>0, <1>2 DEF Covered, ScanInv
    <2>3. ScanInv'  BY <1>0, <2>1, <2>2, EntriesSame DEF ScanInv
    <2>4. TypeInv'  BY <1>0, <2>1 DEF TypeInv, input
    <2> QED  BY <1>0, <2>3, <2>4, EntriesSame DEF Inv, UnionInv, FilesInv, Same
  <1>3. CASE ~Covered(r)
    <2>1. kept' = kept \cup {r} /\ lastKept' = {r[1]}  BY <1>3 DEF Scan
    <2>3. ScanInv'  BY <1>0, <1>1, <2>1, EntriesSame DEF ScanInv
    <2>4. TypeInv'  BY <1>0, <1>1, <2>1 DEF TypeInv, input
    <2> QED  BY <1>0, <2>3, <2>4, EntriesSame DEF Inv, UnionInv, FilesInv, Same
  <1> QED  BY <1>2, <1>3

\* What has been kept covers what the rules cover.
LEMMA KeptCovers ==
    ASSUME TypeInv, ScanInv, scanning, rest = {}
    PROVE  Same(NamesOf(kept), Entries(Files[at]))
  <1>0. at \in 1..Len(Files) /\ kept \subseteq Entries(Files[at])
        /\ Entries(Files[at]) \subseteq Items
    BY FileNames, EntriesType DEF TypeInv, ScanInv
  <1> SUFFICES ASSUME NEW n \in Names
               PROVE  Covers(NamesOf(kept), n) <=> Covers(NamesOf(Entries(Files[at])), n)
    BY DEF Same
  <1>1. ASSUME Covers(NamesOf(kept), n) PROVE Covers(NamesOf(Entries(Files[at])), n)
    BY <1>0, <1>1 DEF Covers, NamesOf
  <1>2. ASSUME Covers(NamesOf(Entries(Files[at])), n) PROVE Covers(NamesOf(kept), n)
    <2>1. PICK r \in Entries(Files[at]) : <<r[1], n>> \in Below
      BY <1>2 DEF Covers, NamesOf
    <2>2. PICK k \in kept : <<k[1], r[1]>> \in Below
      BY <2>1 DEF ScanInv
    <2>3. k[1] \in Names /\ r[1] \in Names  BY <1>0 DEF Items
    <2>4. <<k[1], n>> \in Below  BY <2>1, <2>2, <2>3, DomainAssumption
    <2> QED  BY <2>4 DEF Covers, NamesOf
  <1> QED  BY <1>1, <1>2

LEMMA EndInv == ASSUME Inv, End PROVE Inv'
  <1> DEFINE f == Files[at]
  <1>0. TypeInv /\ ScanInv /\ UNCHANGED <<input, rest, kept, lastKept>> /\ UNCHANGED input
        /\ scanning /\ rest = {} /\ scanning' = FALSE /\ at' = at + 1
        /\ lines' = [lines EXCEPT ![f] = NamesOf(kept)]
        /\ union' = IF f \in Categories THEN union \cup Effective(f) ELSE union
    BY DEF Inv, End, NamesOf
  <1>1. at \in 1..Len(Files) /\ f \in Outputs  BY <1>0, FileNames DEF ScanInv, TypeInv
  <1>2. NamesOf(kept) \in SUBSET Names  BY <1>0 DEF TypeInv, NamesOf, Items
  <1>3. lines' \in [Outputs -> SUBSET Names] /\ lines'[f] = NamesOf(kept)
        /\ \A g \in Outputs : g # f => lines'[g] = lines[g]
    BY <1>0, <1>1, <1>2 DEF TypeInv
  <1>4. union' \subseteq Items  BY <1>0, EntriesType DEF TypeInv
  <1>5. TypeInv'
    <2>1. at' \in 1..(Len(Files) + 1)  BY <1>0, <1>1, FileNames
    <2> QED  BY <1>0, <1>3, <1>4, <2>1 DEF TypeInv, input
  <1>6. ScanInv'  BY <1>0 DEF ScanInv
  <1>7. UnionInv'
    <2> DEFINE before == {j \in DOMAIN Subscribed : j < at}
               after == {j \in DOMAIN Subscribed : j < at'}
    <2>1. union = UNION {Effective(Subscribed[i]) : i \in before}  BY DEF Inv, UnionInv
    <2>2. CASE f \in Categories
      <3>1. at \in 1..Len(Subscribed) /\ f = Subscribed[at]
        BY <2>2, <1>1, FileNames
      <3>2. after = before \cup {at}  BY <1>0, <3>1, FileNames
      <3>3. union' = UNION {Effective(Subscribed[i]) : i \in after}
        BY <1>0, <2>1, <2>2, <3>1, <3>2
      <3> QED  BY <1>0, <3>3, EntriesSame DEF UnionInv
    <2>3. CASE f \notin Categories
      <3>1. at > Len(Subscribed)  BY <2>3, <1>1, FileNames
      <3>2. after = before  BY <1>0, <1>1, <3>1, FileNames
      <3>3. union' = UNION {Effective(Subscribed[i]) : i \in after}
        BY <1>0, <2>1, <2>3, <3>2
      <3> QED  BY <1>0, <3>3, EntriesSame DEF UnionInv
    <2> QED  BY <2>2, <2>3
  <1>8. FilesInv'
    <2> SUFFICES ASSUME NEW i \in 1..Len(Files), i < at'
                 PROVE  Same(lines[Files[i]], Entries(Files[i]))'
      BY DEF FilesInv
    <2>0. Files[i] \in Outputs /\ i <= at  BY <1>0, <1>1, FileNames
    <2>1. Entries(Files[i])' = Entries(Files[i])
      <3>1. CASE Files[i] # All  BY <3>1, <1>0, EntriesSame DEF Entries, input, From
      <3>2. CASE Files[i] = All
        <4>1. i = Len(Subscribed) + 1  BY <3>2, FileNames
        <4>2. f \notin Categories  BY <4>1, <2>0, <1>1, FileNames
        <4> QED  BY <4>2, <1>0, EntriesSame
      <3> QED  BY <3>1, <3>2
    <2>2. Same(lines'[Files[i]], Entries(Files[i]))
      <3>1. CASE Files[i] = f  BY <3>1, <1>0, <1>3, KeptCovers
      <3>2. CASE Files[i] # f
        <4>1. i < at  BY <3>2, <2>0, <1>1, FileNames
        <4> QED  BY <3>2, <4>1, <2>0, <1>3 DEF Inv, FilesInv
      <3> QED  BY <3>1, <3>2
    <2> QED  BY <2>1, <2>2 DEF Same
  <1> QED  BY <1>5, <1>6, <1>7, <1>8 DEF Inv

LEMMA NextInv == Inv /\ [Next]_vars => Inv'
  <1> SUFFICES ASSUME Inv, [Next]_vars PROVE Inv'  OBVIOUS
  <1>1. CASE UNCHANGED vars
    <2>1. UNCHANGED input /\ UNCHANGED <<at, scanning, rest, kept, lastKept, union, lines>>
      BY <1>1 DEF vars
    <2> QED  BY <2>1, EntriesSame DEF Inv, TypeInv, ScanInv, UnionInv, FilesInv, Same, input
  <1>2. CASE Next
    BY <1>1, <1>2, BeginInv, ScanStepInv, EndInv DEF Next, Done
  <1> QED  BY <1>1, <1>2

LEMMA Invariance == Spec => []Inv
  BY InitInv, NextInv, PTL DEF Spec

-----------------------------------------------------------------------------
(* The results.                                                            *)

\* When all files are made, each covers what its rules cover.
LEMMA FinishedFiles ==
    ASSUME Inv, Finished
    PROVE  /\ \A c \in Categories : Same(lines[c], Effective(c))
           /\ Same(lines[All], union)
           /\ Same(lines[Allow], From(allow, Allow))
           /\ union = UNION {Effective(c) : c \in Categories}
  <1>0. TypeInv /\ at = Len(Files) + 1  BY FileNames DEF Inv, TypeInv, Finished
  <1>1. \A i \in 1..Len(Files) : Same(lines[Files[i]], Entries(Files[i]))
    BY <1>0, FileNames DEF Inv, FilesInv
  <1>2. ASSUME NEW c \in Categories PROVE Same(lines[c], Effective(c))
    <2>1. PICK i \in 1..Len(Subscribed) : c = Subscribed[i]  BY FileNames DEF Categories
    <2>2. i \in 1..Len(Files) /\ Files[i] = c  BY <2>1, FileNames
    <2>3. Same(lines[c], Entries(c))  BY <2>2, <1>1
    <2> QED  BY <2>3, <1>0, EntriesType
  <1>3. Same(lines[All], union)
    <2>1. Len(Subscribed) + 1 \in 1..Len(Files)  BY FileNames
    <2>2. Same(lines[All], Entries(All))  BY <2>1, <1>1, FileNames
    <2> QED  BY <2>2, <1>0, EntriesType
  <1>4. Same(lines[Allow], From(allow, Allow))
    <2>1. Len(Subscribed) + 2 \in 1..Len(Files)  BY FileNames
    <2>2. Same(lines[Allow], Entries(Allow))  BY <2>1, <1>1, FileNames
    <2> QED  BY <2>2, <1>0, EntriesType
  <1>5. union = UNION {Effective(c) : c \in Categories}
    <2>1. {j \in DOMAIN Subscribed : j < at} = DOMAIN Subscribed  BY <1>0, FileNames
    <2>2. union = UNION {Effective(Subscribed[i]) : i \in DOMAIN Subscribed}
      BY <2>1 DEF Inv, UnionInv
    <2> QED  BY <2>2 DEF Categories
  <1> QED  BY <1>2, <1>3, <1>4, <1>5

\* Copying the rules of a list changes nothing of what they cover.
LEMMA CopiesCover ==
    ASSUME NEW list \in SUBSET Rules, NEW c, NEW n \in Names
    PROVE  Covers(NamesOf(From(list, c)), n) <=> Wanted(list, n)
  <1>1. \A r \in list : <<r[1], r[2], c>> \in From(list, c) /\ <<r[1], r[2], c>>[1] = r[1]
    BY DEF From
  <1>2. \A i \in From(list, c) : \E r \in list : i[1] = r[1]
    BY DEF From
  <1>3. NamesOf(From(list, c)) = {r[1] : r \in list}
    <2>1. ASSUME NEW a \in NamesOf(From(list, c)) PROVE a \in {r[1] : r \in list}
      <3>1. PICK i \in From(list, c) : a = i[1]  BY DEF NamesOf
      <3>2. PICK r \in list : i[1] = r[1]  BY <1>2
      <3> QED  BY <3>1, <3>2
    <2>2. ASSUME NEW r \in list PROVE r[1] \in NamesOf(From(list, c))
      <3>1. <<r[1], r[2], c>> \in From(list, c) /\ <<r[1], r[2], c>>[1] = r[1]  BY <1>1
      <3> QED  BY <3>1 DEF NamesOf
    <2> QED  BY <2>1, <2>2
  <1> QED  BY <1>3 DEF Wanted

\* A rule is left out only if an exception covers all that is below it.
LEMMA OverridesHarmless ==
    ASSUME TypeInv, NEW c \in Categories, NEW n \in Names, ~Wanted(allow, n)
    PROVE  Covers(NamesOf(Effective(c)), n)
             <=> Wanted(base[c] \cup deny[AnyCategory] \cup deny[c], n)
  <1> DEFINE left == {r \in base[c] : ~Match(allow, r[1])}
  <1>0. base[c] \in SUBSET Rules /\ deny[AnyCategory] \in SUBSET Rules /\ deny[c] \in SUBSET Rules
        /\ left \in SUBSET Rules /\ allow \in SUBSET Rules
    BY DEF TypeInv, Keys
  <1>1. Covers(NamesOf(Effective(c)), n)
          <=> Wanted(left, n) \/ Wanted(deny[AnyCategory], n) \/ Wanted(deny[c], n)
    <2>1. Covers(NamesOf(Effective(c)), n)
            <=> \/ Covers(NamesOf(From(left, c)), n)
                \/ Covers(NamesOf(From(deny[AnyCategory], AnyCategory)), n)
                \/ Covers(NamesOf(From(deny[c], c)), n)
      BY DEF Effective, Covers, NamesOf
    <2> QED  BY <2>1, <1>0, CopiesCover
  <1>2. Wanted(base[c], n) => Wanted(left, n)
    <2> SUFFICES ASSUME NEW r \in base[c], <<r[1], n>> \in Below
                 PROVE  r \in left
      BY DEF Wanted, Covers
    <2>1. r[1] \in Names  BY <1>0, DomainAssumption
    <2>2. ASSUME NEW a \in allow, <<a[1], r[1]>> \in Below PROVE FALSE
      <3>1. a[1] \in Names  BY <1>0, DomainAssumption
      <3>2. <<a[1], n>> \in Below  BY <2>1, <2>2, <3>1, DomainAssumption
      <3> QED  BY <3>2 DEF Wanted, Covers
    <2>3. \A a \in allow : a[1] # r[1]  BY <2>1, <2>2, DomainAssumption
    <2> QED  BY <2>2, <2>3 DEF Match
  <1>3. Wanted(left, n) => Wanted(base[c], n)  BY DEF Wanted, Covers
  <1>4. Wanted(base[c] \cup deny[AnyCategory] \cup deny[c], n)
          <=> Wanted(base[c], n) \/ Wanted(deny[AnyCategory], n) \/ Wanted(deny[c], n)
    BY DEF Wanted, Covers
  <1> QED  BY <1>1, <1>2, <1>3, <1>4

\* A resolver with a category's list and allowlist.txt blocks exactly what the policy
\* and the tenant ask for, whatever the order of the sort (applyOverrides, Collapse).
THEOREM ResolversBlock == Spec => []ResolverBlocks
  <1>1. ASSUME Inv, Finished, NEW c \in Categories, NEW n \in Names
        PROVE  Blocks(c, n) <=> WantedBlocked(c, n)
    <2>1. Covers(lines[c], n) <=> Covers(NamesOf(Effective(c)), n)
      BY <1>1, FinishedFiles DEF Same
    <2>2. Covers(lines[Allow], n) <=> Wanted(allow, n)
      <3>1. allow \in SUBSET Rules  BY <1>1 DEF Inv, TypeInv
      <3> QED  BY <1>1, <3>1, FinishedFiles, CopiesCover DEF Same
    <2>3. ~Wanted(allow, n) =>
            (Covers(NamesOf(Effective(c)), n)
               <=> Wanted(base[c] \cup deny[AnyCategory] \cup deny[c], n))
      BY <1>1, OverridesHarmless DEF Inv
    <2> QED  BY <2>1, <2>2, <2>3 DEF Blocks, WantedBlocked
  <1>2. Inv => ResolverBlocks  BY <1>1 DEF ResolverBlocks
  <1> QED  BY <1>2, Invariance, PTL

\* all.txt blocks what some list of the tenant blocks (buildTenant).
THEOREM UnionBlocks == Spec => []AllIsUnion
  <1>1. ASSUME Inv, Finished, NEW n \in Names
        PROVE  Blocks(All, n) <=> \E c \in Categories : Blocks(c, n)
    <2>1. Covers(lines[All], n) <=> Covers(NamesOf(union), n)
      BY <1>1, FinishedFiles DEF Same
    <2>2. \A c \in Categories : Covers(lines[c], n) <=> Covers(NamesOf(Effective(c)), n)
      BY <1>1, FinishedFiles DEF Same
    <2>3. Covers(NamesOf(union), n) <=> \E c \in Categories : Covers(NamesOf(Effective(c)), n)
      <3>1. union = UNION {Effective(c) : c \in Categories}  BY <1>1, FinishedFiles
      <3> QED  BY <3>1 DEF Covers, NamesOf
    <2> QED  BY <2>1, <2>2, <2>3 DEF Blocks
  <1>2. Inv => AllIsUnion  BY <1>1 DEF AllIsUnion
  <1> QED  BY <1>2, Invariance, PTL

-----------------------------------------------------------------------------
(* Where superfluous lines come from.                                      *)

\* The scan goes up the order: what is kept stands before what is to come, and the
\* last rule kept stands after the others.
OrderInv ==
    scanning =>
        /\ \A k \in kept, r \in rest : Position[k[1]] <= Position[r[1]]
        /\ \A k \in kept : \E a \in lastKept : Position[k[1]] <= Position[a]

TornInv == Inv /\ OrderInv /\ SuperfluousOnlyWhenTorn

LEMMA InOrder ==
    ASSUME Inv, OrderInv, NEW r \in rest, Scan(r)
    PROVE  OrderInv'
  <1>1. /\ \A i \in Items : i[1] \in Names
        /\ rest \subseteq Items /\ kept \subseteq Items /\ lastKept \subseteq Names
        /\ \A n \in Names : Position[n] \in Nat
    BY DomainAssumption DEF Inv, TypeInv, Items
  <1>2. /\ scanning /\ scanning' = scanning /\ rest' = rest \ {r}
        /\ \A s \in rest : ~Before(s, r)
    BY DEF Scan
  <1>3. \A s \in rest : Position[r[1]] <= Position[s[1]]
    BY <1>1, <1>2 DEF Before
  <1>4. CASE Covered(r)
    BY <1>2, <1>4 DEF Scan, OrderInv
  <1>5. CASE ~Covered(r)
    <2>1. kept' = kept \cup {r} /\ lastKept' = {r[1]}  BY <1>5 DEF Scan
    <2> QED  BY <1>1, <1>2, <1>3, <2>1 DEF OrderInv
  <1> QED  BY <1>4, <1>5

\* A rule that is kept below an earlier one was torn from it: had the earlier one been
\* the last, it would have covered the rule.  So there is a last one in between, which
\* is no child of the earlier one or has been torn from it as well.
LEMMA TornApart ==
    ASSUME Inv, OrderInv, SuperfluousOnlyWhenTorn, NEW r \in rest, Scan(r)
    PROVE  SuperfluousOnlyWhenTorn'
  <1>1. /\ r[1] \in Names /\ lastKept \subseteq Names
        /\ \A k \in kept : k[1] \in Names
        /\ \A i \in Items : i[1] \in Names
        /\ \A n \in Names : Position[n] \in Nat /\ <<n, n>> \in Below
        /\ \A m, n \in Names : m # n => Position[m] # Position[n]
    BY DomainAssumption DEF Inv, TypeInv, Items
  <1>2. /\ scanning /\ scanning' = scanning /\ UNCHANGED input
        /\ at' = at /\ union' = union
    BY DEF Scan
  <1>3. \A f : Entries(f)' = Entries(f)  BY <1>2, EntriesSame
  <1>4. CASE Covered(r)
    <2>1. kept' = kept  BY <1>4 DEF Scan
    <2> QED  BY <1>2, <1>3, <2>1 DEF SuperfluousOnlyWhenTorn
  <1>5. CASE ~Covered(r)
    <2> DEFINE Torn(p, q) ==
                 \E t \in Entries(Files[at]) :
                     /\ Position[p[1]] < Position[t[1]] /\ Position[t[1]] < Position[q[1]]
                     /\ <<p[1], t[1]>> \notin Below
    <2>1. kept' = kept \cup {r}  BY <1>5 DEF Scan
    <2>2. /\ kept \subseteq Entries(Files[at])
          /\ \A a \in lastKept : \E k \in kept : k[1] = a
      BY <1>2 DEF Inv, ScanInv
    <2>3. \A a \in lastKept : <<a, r[1]>> \notin Below  BY <1>5 DEF Covered
    <2>4. \A p \in kept : Position[p[1]] <= Position[r[1]]
      BY <1>2 DEF OrderInv
    <2>5. ASSUME NEW a \in lastKept PROVE a # r[1] /\ Position[a] < Position[r[1]]
      <3>1. PICK k \in kept : k[1] = a  BY <2>2
      <3>2. a # r[1]  BY <1>1, <2>3
      <3>3. Position[a] <= Position[r[1]]  BY <2>4, <3>1
      <3>4. Position[a] # Position[r[1]]  BY <1>1, <3>2
      <3>5. Position[a] \in Nat /\ Position[r[1]] \in Nat  BY <1>1
      <3>6. Position[a] < Position[r[1]]  BY <3>3, <3>4, <3>5
      <3> QED  BY <3>2, <3>6
    <2>6. ASSUME NEW p \in kept PROVE p[1] # r[1] /\ Position[p[1]] < Position[r[1]]
      <3>1. PICK a \in lastKept : Position[p[1]] <= Position[a]
        BY <1>2 DEF OrderInv
      <3>2. Position[p[1]] \in Nat /\ Position[a] \in Nat /\ Position[r[1]] \in Nat
        BY <1>1
      <3>3. Position[a] < Position[r[1]]  BY <2>5
      <3>4. Position[p[1]] < Position[r[1]]  BY <3>1, <3>2, <3>3
      <3> QED  BY <3>2, <3>4
    <2>7. ASSUME NEW p \in kept, <<p[1], r[1]>> \in Below PROVE Torn(p, r)
      <3>1. PICK a \in lastKept : Position[p[1]] <= Position[a]
        BY <1>2 DEF OrderInv
      <3>2. PICK k \in kept : k[1] = a  BY <2>2
      <3>3. p[1] # k[1]  BY <2>3, <2>7, <3>2
      <3>4. Position[p[1]] < Position[k[1]] /\ Position[k[1]] < Position[r[1]]
        BY <1>1, <2>6, <3>1, <3>2, <3>3, DomainAssumption
      <3>5. CASE <<p[1], k[1]>> \notin Below
        BY <2>2, <3>4, <3>5
      <3>6. CASE <<p[1], k[1]>> \in Below
        <4>1. Torn(p, k)  BY <1>2, <3>3, <3>6 DEF SuperfluousOnlyWhenTorn
        <4>2. Entries(Files[at]) \subseteq Items
          BY <1>2, FileNames, EntriesType DEF Inv, TypeInv, ScanInv
        <4>3. PICK t \in Entries(Files[at]) :
                  /\ Position[p[1]] < Position[t[1]] /\ Position[t[1]] < Position[k[1]]
                  /\ <<p[1], t[1]>> \notin Below
          BY <4>1
        <4>4. /\ Position[t[1]] \in Nat /\ Position[k[1]] \in Nat
              /\ Position[r[1]] \in Nat
          BY <1>1, <4>2
        <4>5. Position[t[1]] < Position[r[1]]  BY <3>4, <4>3, <4>4
        <4> QED  BY <4>3, <4>5
      <3> QED  BY <3>5, <3>6
    <2>8. ASSUME NEW q \in kept PROVE <<r[1], q[1]>> \notin Below
      <3>1. Position[q[1]] < Position[r[1]]  BY <2>6
      <3>2. q[1] \in Names /\ Position[q[1]] \in Nat /\ Position[r[1]] \in Nat
        BY <1>1
      <3>3. ~(Position[r[1]] <= Position[q[1]])  BY <3>1, <3>2
      <3> QED  BY <1>1, <3>2, <3>3, AncestorsFirst
    <2>9. ASSUME NEW p \in kept', NEW q \in kept'
          PROVE  /\ p[1] = q[1] => p = q
                 /\ <<p[1], q[1]>> \in Below /\ p # q => Torn(p, q)
      <3>1. CASE p \in kept /\ q \in kept
        BY <1>2, <3>1 DEF SuperfluousOnlyWhenTorn
      <3>2. CASE p \in kept /\ q = r
        BY <2>6, <2>7, <3>2
      <3>3. CASE p = r /\ q \in kept
        BY <2>6, <2>8, <3>3
      <3>4. CASE p = r /\ q = r
        BY <3>4
      <3> QED  BY <2>1, <2>9, <3>1, <3>2, <3>3, <3>4
    <2> QED  BY <1>2, <1>3, <2>9 DEF SuperfluousOnlyWhenTorn
  <1> QED  BY <1>4, <1>5

\* A line is superfluous only where the byte order has put a stranger into its family,
\* and no line is repeated, for any names and rules (Collapse).
THEOREM OnlyTornIsSuperfluous == Spec => []SuperfluousOnlyWhenTorn
  <1>1. Init => TornInv
    BY InitInv DEF Init, TornInv, OrderInv, SuperfluousOnlyWhenTorn
  <1>2. TornInv /\ [Next]_vars => TornInv'
    <2> SUFFICES ASSUME TornInv, [Next]_vars PROVE TornInv'  OBVIOUS
    <2>1. Inv'  BY NextInv DEF TornInv
    <2>2. CASE Begin
      BY <2>1, <2>2 DEF TornInv, Begin, OrderInv, SuperfluousOnlyWhenTorn
    <2>3. ASSUME NEW r \in rest, Scan(r) PROVE TornInv'
      BY <2>1, <2>3, InOrder, TornApart DEF TornInv
    <2>4. CASE End
      BY <2>1, <2>4 DEF TornInv, End, OrderInv, SuperfluousOnlyWhenTorn
    <2>5. CASE UNCHANGED vars
      <3>1. UNCHANGED input /\ UNCHANGED <<at, scanning, rest, kept, lastKept, union>>
        BY <2>5 DEF vars
      <3> QED
        BY <2>1, <3>1, EntriesSame DEF TornInv, OrderInv, SuperfluousOnlyWhenTorn
    <2> QED  BY <2>2, <2>3, <2>4, <2>5 DEF Next, Done
  <1> QED  BY <1>1, <1>2, PTL DEF Spec, TornInv

-----------------------------------------------------------------------------
(* TokenCache.                                                             *)

CacheSound == cache.cached => held[cache.found] <= cache.age

CacheRecent ==
    IF cache.cached THEN cache.age <= confirmed + MaxLookup ELSE confirmed = Old

\* What a request is going to answer with; a lookup that has succeeded knows the
\* value of a moment at which the request was under way.
AnswerSound(r) ==
    LET q == req[r] IN
    /\ q.pc = "lookup" => q.stale
    /\ q.pc = "write" => q.answer # "error" /\ HeldSince(q.answer, q.age + 1)
    /\ q.pc \in {"lookup", "done"} /\ q.answer # "error" =>
          \/ HeldSince(q.answer, q.age + TTL)
          \/ q.stale /\ HeldSince(q.answer, q.age + MaxStale)
    /\ q.pc \in {"lookup", "done"} /\ q.answer = "error" =>
          q.confirmed + MaxLookup >= MaxStale

TokenInv ==
    /\ TokenTypeOK
    /\ held[valid] = 0
    /\ CacheSound
    /\ CacheRecent
    /\ \A r \in Requests : AnswerSound(r)

-----------------------------------------------------------------------------
LEMMA OldType ==
    /\ Old \in Nat /\ MaxLookup \in Nat /\ TTL \in Nat /\ MaxStale \in Nat
           /\ TTL > 0 /\ MaxStale > 0
           /\ MaxLookup + TTL <= Old /\ MaxLookup + MaxStale <= Old
           /\ 0 \in Age /\ Old \in Age
  BY TokenAssumption DEF Old, Age

LEMMA OlderType ==
    ASSUME NEW a \in Age
    PROVE  /\ Older(a) \in Age /\ a <= Older(a) /\ Older(a) <= a + 1
           /\ \A b \in Age : b <= a => Older(b) <= Older(a)
  BY OldType DEF Older, Age

\* The ages of values only grow with the clock, so what held since some age did so
\* since a later one.
LEMMA HeldLater ==
    ASSUME TokenTypeOK,
           NEW answer, NEW a \in Nat, NEW b \in Nat, a <= b, HeldSince(answer, a)
    PROVE  HeldSince(answer, b)
  <1>1. \A v \in BOOLEAN : held[v] \in Nat  BY DEF TokenTypeOK, Age
  <1> QED  BY <1>1 DEF HeldSince

RequestType == [pc : {"idle", "read", "lookup", "write", "done"}, age : 0..MaxLookup,
                answer : Answers, stale : BOOLEAN, confirmed : Age]

LEMMA TokenInitInv ==
    ASSUME TokenInit PROVE TokenInv
  <1> USE OldType
  <1>1. NoEntry \in EntryType /\ NoRequest \in RequestType
    BY DEF NoEntry, NoRequest, EntryType, RequestType, Answers, Age
  <1>2. TokenTypeOK  BY <1>1 DEF TokenInit, TokenTypeOK, RequestType
  <1>3. held[valid] = 0  BY DEF TokenInit
  <1>4. CacheSound /\ CacheRecent  BY DEF TokenInit, CacheSound, CacheRecent, NoEntry
  <1>5. \A r \in Requests : AnswerSound(r)  BY DEF TokenInit, AnswerSound, NoRequest
  <1> QED  BY <1>2, <1>3, <1>4, <1>5 DEF TokenInv

\* A step of one request leaves what the others are going to answer alone.
LEMMA OthersSound ==
    ASSUME TokenInv, NEW r \in Requests, NEW q \in RequestType,
           req' = [req EXCEPT ![r] = q], held' = held, AnswerSound(r)'
    PROVE  /\ req' \in [Requests -> RequestType]
           /\ \A s \in Requests : AnswerSound(s)'
  <1>1. req \in [Requests -> RequestType]  BY DEF TokenInv, TokenTypeOK, RequestType
  <1>2. ASSUME NEW s \in Requests, s # r PROVE AnswerSound(s)'
    <2>1. req'[s] = req[s]  BY <1>1, <1>2
    <2> QED  BY <2>1 DEF TokenInv, AnswerSound, HeldSince
  <1> QED  BY <1>1, <1>2

\* When only the cache, the database or the confirmation changes, so do all.
LEMMA RequestsSound ==
    ASSUME TokenInv, UNCHANGED <<req, held>>
    PROVE  \A r \in Requests : AnswerSound(r)'
  BY DEF TokenInv, AnswerSound, HeldSince

LEMMA RequestInRange ==
    ASSUME TokenTypeOK, NEW r \in Requests
    PROVE  /\ req[r] \in RequestType
           /\ req[r].age \in Nat /\ req[r].age <= MaxLookup
           /\ cache \in EntryType /\ cache.age \in Nat /\ cache.found \in BOOLEAN
           /\ EntryAge(r) \in Nat /\ cache.age <= EntryAge(r) + req[r].age
           /\ \A b \in BOOLEAN : held[b] \in Nat
  <1>1. req[r] \in RequestType /\ cache \in EntryType  BY DEF TokenTypeOK, RequestType
  <1>2. req[r].age \in Nat /\ req[r].age <= MaxLookup /\ cache.age \in Nat
        /\ cache.found \in BOOLEAN
    BY <1>1, OldType DEF RequestType, EntryType, Age
  <1>3. \A b \in BOOLEAN : held[b] \in Nat  BY OldType DEF TokenTypeOK, Age
  <1> QED  BY <1>1, <1>2, <1>3 DEF EntryAge

LEMMA ArriveInv ==
    ASSUME TokenInv, NEW r \in Requests, Arrive(r) PROVE TokenInv'
  <1> DEFINE q == [NoRequest EXCEPT !.pc = "read"]
  <1>0. NoRequest \in RequestType  BY OldType DEF NoRequest, RequestType, Answers
  <1>1. q \in RequestType  BY <1>0 DEF RequestType
  <1>2. req' = [req EXCEPT ![r] = q] /\ UNCHANGED <<valid, up, cache, held, confirmed>>
    BY DEF Arrive
  <1>3. req'[r] = q  BY <1>2 DEF TokenInv, TokenTypeOK
  <1>4. AnswerSound(r)'
    <2>1. q.pc = "read"  BY <1>0 DEF RequestType
    <2> QED  BY <1>3, <2>1 DEF AnswerSound
  <1>5. req' \in [Requests -> RequestType] /\ \A s \in Requests : AnswerSound(s)'
    BY <1>1, <1>2, <1>4, OthersSound
  <1>6. TokenTypeOK'  BY <1>2, <1>5 DEF TokenInv, TokenTypeOK, RequestType
  <1> QED  BY <1>2, <1>5, <1>6 DEF TokenInv, CacheSound, CacheRecent

\* The two outcomes of a look into the cache.
LEMMA ReadInv ==
    ASSUME TokenInv, NEW r \in Requests, Read(r) PROVE TokenInv'
  <1> USE RequestInRange, OldType
  <1>0. TokenTypeOK /\ UNCHANGED <<valid, up, cache, held, confirmed>> /\ confirmed \in Nat
    BY DEF TokenInv, Read, TokenTypeOK, Age
  <1>1. ASSUME NEW q \in RequestType, req' = [req EXCEPT ![r] = q], AnswerSound(r)'
        PROVE  TokenInv'
    <2>1. req' \in [Requests -> RequestType] /\ \A s \in Requests : AnswerSound(s)'
      BY <1>0, <1>1, OthersSound
    <2>2. TokenTypeOK'  BY <1>0, <2>1 DEF TokenTypeOK, RequestType
    <2> QED  BY <1>0, <2>1, <2>2 DEF TokenInv, CacheSound, CacheRecent
  <1>2. CASE cache.cached /\ Fresh(EntryAge(r))
    <2> DEFINE q == [req[r] EXCEPT !.pc = "done", !.answer = Result(cache.found)]
    <2>1. q \in RequestType  BY <1>0 DEF RequestType, Answers, Result
    <2>2. req' = [req EXCEPT ![r] = q]  BY <1>2 DEF Read
    <2>3. req'[r] = q  BY <2>2 DEF TokenInv, TokenTypeOK
    <2>4. held[cache.found] < req[r].age + TTL
      BY <1>0, <1>2 DEF Fresh, TokenInv, CacheSound
    <2>5. HeldSince(Result(cache.found), req[r].age + TTL)
      BY <2>4, <1>0 DEF HeldSince
    <2>6. q.pc = "done" /\ q.answer = Result(cache.found) /\ q.age = req[r].age
      BY <1>0 DEF RequestType
    <2>7. Result(cache.found) # "error"  BY DEF Result
    <2>8. AnswerSound(r)'
      BY <2>3, <2>5, <2>6, <2>7, <1>0 DEF AnswerSound, HeldSince
    <2> QED  BY <2>1, <2>2, <2>8, <1>1
  <1>3. CASE ~(cache.cached /\ Fresh(EntryAge(r)))
    <2> DEFINE q == [req[r] EXCEPT !.pc = "lookup", !.answer = Fallback(r),
                                   !.stale = TRUE, !.confirmed = confirmed]
    <2>1. q \in RequestType
      BY <1>0 DEF RequestType, Answers, Fallback, Result, TokenInv, TokenTypeOK
    <2>2. req' = [req EXCEPT ![r] = q]  BY <1>3 DEF Read
    <2>3. req'[r] = q  BY <2>2 DEF TokenInv, TokenTypeOK
    <2>4. q.pc = "lookup" /\ q.answer = Fallback(r) /\ q.age = req[r].age /\ q.stale
          /\ q.confirmed = confirmed
      BY <1>0 DEF RequestType
    <2>5. ASSUME Fallback(r) # "error"
          PROVE  HeldSince(Fallback(r), req[r].age + MaxStale)
      <3>1. cache.cached /\ EntryAge(r) < MaxStale /\ Fallback(r) = Result(cache.found)
        BY <2>5 DEF Fallback
      <3>2. held[cache.found] < req[r].age + MaxStale
        BY <3>1, <1>0 DEF TokenInv, CacheSound
      <3> QED  BY <3>1, <3>2, <1>0 DEF HeldSince
    <2>6. ASSUME Fallback(r) = "error"
          PROVE  confirmed + MaxLookup >= MaxStale
      <3>1. ~cache.cached \/ EntryAge(r) >= MaxStale
        BY <2>6, <1>0 DEF Fallback, Result
      <3>2. CASE ~cache.cached  BY <3>2, <1>0 DEF TokenInv, CacheRecent
      <3>3. CASE cache.cached /\ EntryAge(r) >= MaxStale
        <4>1. EntryAge(r) <= cache.age  BY <1>0 DEF EntryAge
        <4> QED  BY <3>3, <4>1, <1>0 DEF TokenInv, CacheRecent
      <3> QED  BY <3>1, <3>2, <3>3
    <2>7. AnswerSound(r)'
      BY <2>3, <2>4, <2>5, <2>6, <1>0 DEF AnswerSound, HeldSince
    <2> QED  BY <2>1, <2>2, <2>7, <1>1
  <1> QED  BY <1>2, <1>3

LEMMA LookupInv ==
    ASSUME TokenInv, NEW r \in Requests, Lookup(r) PROVE TokenInv'
  <1> USE RequestInRange, OldType
  <1> DEFINE q == [req[r] EXCEPT !.pc = "write", !.answer = Result(valid),
                                 !.stale = FALSE, !.confirmed = Old]
  <1>0. TokenTypeOK /\ UNCHANGED <<valid, up, cache, held, confirmed>>
    BY DEF TokenInv, Lookup
  <1>1. q \in RequestType  BY <1>0 DEF RequestType, Answers, Result
  <1>2. req' = [req EXCEPT ![r] = q]  BY DEF Lookup
  <1>3. req'[r] = q  BY <1>2 DEF TokenInv, TokenTypeOK
  <1>4. q.pc = "write" /\ q.answer = Result(valid) /\ q.age = req[r].age
    BY <1>0 DEF RequestType
  <1>5. valid \in BOOLEAN /\ held[valid] = 0 /\ req[r].age \in Nat
    BY <1>0 DEF TokenInv, TokenTypeOK
  <1>6. HeldSince(Result(valid), req[r].age + 1)  BY <1>5 DEF HeldSince
  <1>7. AnswerSound(r)'
    BY <1>0, <1>3, <1>4, <1>6 DEF AnswerSound, HeldSince, Result
  <1>8. req' \in [Requests -> RequestType] /\ \A s \in Requests : AnswerSound(s)'
    BY <1>0, <1>1, <1>2, <1>7, OthersSound
  <1>9. TokenTypeOK'  BY <1>0, <1>8 DEF TokenTypeOK, RequestType
  <1> QED  BY <1>0, <1>8, <1>9 DEF TokenInv, CacheSound, CacheRecent

LEMMA LookupFailsInv ==
    ASSUME TokenInv, NEW r \in Requests, LookupFails(r) PROVE TokenInv'
  <1> USE RequestInRange, OldType
  <1> DEFINE q == [req[r] EXCEPT !.pc = "done"]
  <1>0. TokenTypeOK /\ UNCHANGED <<valid, up, cache, held, confirmed>>
        /\ req[r].pc = "lookup" /\ AnswerSound(r)
    BY DEF TokenInv, LookupFails
  <1>1. q \in RequestType  BY <1>0 DEF RequestType
  <1>2. req' = [req EXCEPT ![r] = q]  BY DEF LookupFails
  <1>3. req'[r] = q  BY <1>2 DEF TokenInv, TokenTypeOK
  <1>4. q.pc = "done" /\ q.answer = req[r].answer /\ q.age = req[r].age
        /\ q.stale = req[r].stale /\ q.confirmed = req[r].confirmed
    BY <1>0 DEF RequestType
  <1>5. AnswerSound(r)'  BY <1>0, <1>3, <1>4 DEF AnswerSound, HeldSince
  <1>6. req' \in [Requests -> RequestType] /\ \A s \in Requests : AnswerSound(s)'
    BY <1>0, <1>1, <1>2, <1>5, OthersSound
  <1>7. TokenTypeOK'  BY <1>0, <1>6 DEF TokenTypeOK, RequestType
  <1> QED  BY <1>0, <1>6, <1>7 DEF TokenInv, CacheSound, CacheRecent

LEMMA WriteInv ==
    ASSUME TokenInv, NEW r \in Requests, Write(r) PROVE TokenInv'
  <1> USE RequestInRange, OldType
  <1> DEFINE q == [req[r] EXCEPT !.pc = "done"]
  <1>0. TokenTypeOK /\ UNCHANGED <<valid, up, held>> /\ confirmed' = 0
        /\ req[r].pc = "write" /\ AnswerSound(r) /\ cache' = Entry(r)
    BY DEF TokenInv, Write
  <1>1. q \in RequestType  BY <1>0 DEF RequestType
  <1>2. req' = [req EXCEPT ![r] = q]  BY DEF Write
  <1>3. req'[r] = q  BY <1>2 DEF TokenInv, TokenTypeOK
  <1>4. q.pc = "done" /\ q.answer = req[r].answer /\ q.age = req[r].age
    BY <1>0 DEF RequestType
  <1>5. req[r].answer # "error" /\ HeldSince(req[r].answer, req[r].age + 1)
    BY <1>0 DEF AnswerSound
  <1>6. HeldSince(req[r].answer, req[r].age + TTL)  BY <1>0, <1>5, HeldLater
  <1>7. AnswerSound(r)'  BY <1>0, <1>3, <1>4, <1>5, <1>6 DEF AnswerSound, HeldSince
  <1>8. req' \in [Requests -> RequestType] /\ \A s \in Requests : AnswerSound(s)'
    BY <1>0, <1>1, <1>2, <1>7, OthersSound
  <1>9. cache' \in EntryType  BY <1>0 DEF Entry, EntryType, Age
  <1>10. TokenTypeOK'  BY <1>0, <1>8, <1>9 DEF TokenTypeOK, RequestType, Age
  <1>11. CacheSound'
    <2>1. PICK b \in BOOLEAN : req[r].answer = Result(b) /\ held[b] < req[r].age + 1
      BY <1>5 DEF HeldSince
    <2>2. held[req[r].answer = "slug"] <= req[r].age
      <3>1. (req[r].answer = "slug") = b  BY <2>1 DEF Result
      <3>2. held[b] \in Nat /\ req[r].age \in Nat  BY <1>0
      <3>3. held[b] <= req[r].age  BY <2>1, <3>2
      <3> QED  BY <3>1, <3>3, Zenon
    <2>3. cache'.found = (req[r].answer = "slug") /\ cache'.age = req[r].age  BY <1>0 DEF Entry
    <2>4. held' = held  BY <1>0
    <2> QED  BY <2>2, <2>3, <2>4 DEF CacheSound
  <1>12. CacheRecent'  BY <1>0 DEF CacheRecent, Entry
  <1> QED  BY <1>0, <1>8, <1>10, <1>11, <1>12 DEF TokenInv

LEMMA ReturnInv ==
    ASSUME TokenInv, NEW r \in Requests, Return(r) PROVE TokenInv'
  <1>1. NoRequest \in RequestType  BY OldType DEF NoRequest, RequestType, Answers
  <1>2. req' = [req EXCEPT ![r] = NoRequest] /\ UNCHANGED <<valid, up, cache, held, confirmed>>
    BY DEF Return
  <1>3. req'[r] = NoRequest  BY <1>2 DEF TokenInv, TokenTypeOK
  <1>4. AnswerSound(r)'  BY <1>3 DEF AnswerSound, NoRequest
  <1>5. req' \in [Requests -> RequestType] /\ \A s \in Requests : AnswerSound(s)'
    BY <1>1, <1>2, <1>4, OthersSound
  <1>6. TokenTypeOK'  BY <1>2, <1>5 DEF TokenInv, TokenTypeOK, RequestType
  <1> QED  BY <1>2, <1>5, <1>6 DEF TokenInv, CacheSound, CacheRecent

\* A change of the database makes one value hold now and takes the past of none.
LEMMA ChangeInv ==
    ASSUME TokenInv, Change PROVE TokenInv'
  <1> USE OldType
  <1>0. TokenTypeOK /\ UNCHANGED <<up, cache, req, confirmed>> /\ valid' = ~valid
        /\ held' = [held EXCEPT ![~valid] = 0]
    BY DEF TokenInv, Change
  <1>1. held \in [BOOLEAN -> Age] /\ valid \in BOOLEAN  BY <1>0 DEF TokenTypeOK
  <1>2. held' \in [BOOLEAN -> Age] /\ held'[valid'] = 0
        /\ \A b \in BOOLEAN : held'[b] \in Nat /\ held[b] \in Nat /\ held'[b] <= held[b]
    BY <1>0, <1>1 DEF Age
  <1>3. TokenTypeOK'  BY <1>0, <1>1, <1>2 DEF TokenTypeOK
  <1>4. CacheSound' /\ CacheRecent'
    BY <1>0, <1>2 DEF TokenInv, CacheSound, CacheRecent, TokenTypeOK, EntryType, Age
  <1>5. ASSUME NEW r \in Requests PROVE AnswerSound(r)'
    <2>1. \A a \in Nat : HeldSince(req[r].answer, a) => HeldSince(req[r].answer, a)'
      BY <1>0, <1>2 DEF HeldSince
    <2>2. req[r].age \in Nat  BY <1>0, RequestInRange
    <2>3. AnswerSound(r)  BY DEF TokenInv
    <2> QED  BY <1>0, <2>1, <2>2, <2>3 DEF AnswerSound
  <1> QED  BY <1>2, <1>3, <1>4, <1>5 DEF TokenInv

LEMMA OutageInv ==
    ASSUME TokenInv, Outage PROVE TokenInv'
  <1>1. UNCHANGED <<valid, cache, req, held, confirmed>> /\ up' \in BOOLEAN
    BY DEF Outage, TokenInv, TokenTypeOK
  <1>2. \A r \in Requests : AnswerSound(r)'  BY <1>1, RequestsSound
  <1> QED  BY <1>1, <1>2 DEF TokenInv, TokenTypeOK, CacheSound, CacheRecent

LEMMA InvalidateInv ==
    ASSUME TokenInv, Invalidate PROVE TokenInv'
  <1>1. UNCHANGED <<valid, up, req, held>> /\ cache' = NoEntry /\ confirmed' = Old
    BY DEF Invalidate
  <1>2. \A r \in Requests : AnswerSound(r)'  BY <1>1, RequestsSound
  <1>3. TokenTypeOK'  BY <1>1, OldType DEF TokenInv, TokenTypeOK, NoEntry, EntryType
  <1> QED  BY <1>1, <1>2, <1>3 DEF TokenInv, CacheSound, CacheRecent, NoEntry

LEMMA RestartInv ==
    ASSUME TokenInv, Restart PROVE TokenInv'
  <1>1. UNCHANGED <<valid, up, held>> /\ cache' = NoEntry /\ confirmed' = Old
        /\ req' = [r \in Requests |-> NoRequest]
    BY DEF Restart
  <1>2. \A r \in Requests : AnswerSound(r)'  BY <1>1 DEF AnswerSound, NoRequest
  <1>3. NoRequest \in RequestType  BY OldType DEF NoRequest, RequestType, Answers
  <1>4. TokenTypeOK'
    BY <1>1, <1>3, OldType DEF TokenInv, TokenTypeOK, NoEntry, EntryType, RequestType
  <1> QED  BY <1>1, <1>2, <1>4 DEF TokenInv, CacheSound, CacheRecent, NoEntry

\* Everything that is under way ages by the same tick.
LEMMA TickInv ==
    ASSUME TokenInv, Tick PROVE TokenInv'
  <1> USE OldType
  <1>0. TokenTypeOK /\ UNCHANGED <<valid, up>> /\ confirmed' = Older(confirmed)
        /\ confirmed \in Age /\ valid \in BOOLEAN /\ cache \in EntryType
        /\ held \in [BOOLEAN -> Age]
    BY DEF TokenInv, Tick, TokenTypeOK
  <1>1. held' = [b \in BOOLEAN |-> IF b = valid THEN 0 ELSE Older(held[b])]
    BY DEF Tick
  <1>2. held' \in [BOOLEAN -> Age] /\ held'[valid] = 0
    BY <1>0, <1>1, OlderType
  <1>3. \A b \in BOOLEAN : /\ held[b] \in Age /\ held'[b] \in Nat /\ held[b] \in Nat
                           /\ held'[b] <= Older(held[b]) /\ held'[b] <= held[b] + 1
    <2> SUFFICES ASSUME NEW b \in BOOLEAN
                 PROVE  /\ held[b] \in Age /\ held'[b] \in Nat /\ held[b] \in Nat
                        /\ held'[b] <= Older(held[b]) /\ held'[b] <= held[b] + 1
      OBVIOUS
    <2>1. held[b] \in Age  BY <1>0
    <2>2. Older(held[b]) \in Age /\ held[b] <= Older(held[b]) /\ Older(held[b]) <= held[b] + 1
      BY <2>1, OlderType
    <2>3. held'[b] = 0 \/ held'[b] = Older(held[b])  BY <1>1
    <2> QED  BY <2>1, <2>2, <2>3 DEF Age
  <1>4. cache' \in EntryType /\ cache'.cached = cache.cached /\ cache'.found = cache.found
        /\ (cache.cached => cache'.age = Older(cache.age)) /\ cache.age \in Age
        /\ cache.found \in BOOLEAN
    BY <1>0, OlderType DEF Tick, EntryType
  <1>5. CacheSound'
    <2> SUFFICES ASSUME cache.cached PROVE held'[cache.found] <= Older(cache.age)
      BY <1>4 DEF CacheSound
    <2>1. held[cache.found] \in Age /\ held[cache.found] <= cache.age
      BY <1>3, <1>4 DEF TokenInv, CacheSound
    <2>2. Older(held[cache.found]) <= Older(cache.age)  BY <2>1, <1>4, OlderType
    <2>3. held'[cache.found] <= Older(held[cache.found])  BY <1>3, <1>4
    <2>4. Older(cache.age) \in Nat /\ Older(held[cache.found]) \in Nat /\ held'[cache.found] \in Nat
      BY <1>3, <1>4, <2>1, OlderType DEF Age
    <2> QED  BY <2>2, <2>3, <2>4
  <1>6. CacheRecent'
    <2>1. CASE ~cache.cached
      <3>1. confirmed' = Old  BY <2>1, <1>0 DEF TokenInv, CacheRecent, Older
      <3> QED  BY <2>1, <3>1, <1>4 DEF CacheRecent
    <2>2. CASE cache.cached
      <3>1. cache.age <= confirmed + MaxLookup  BY <2>2 DEF TokenInv, CacheRecent
      <3>2. Older(cache.age) <= Older(confirmed) + MaxLookup
        BY <3>1, <1>0, <1>4 DEF Older, Age
      <3> QED  BY <2>2, <3>2, <1>0, <1>4 DEF CacheRecent
    <2> QED  BY <2>1, <2>2, <1>4 DEF EntryType
  <1>7. ASSUME NEW r \in Requests
        PROVE  req'[r] \in RequestType /\ AnswerSound(r)'
    <2>0. AnswerSound(r) /\ req[r] \in RequestType /\ req[r].age \in Nat
      BY <1>0, RequestInRange DEF TokenInv
    <2>1. CASE req[r].pc = "idle"
      <3>1. req'[r] = req[r]  BY <2>1 DEF Tick
      <3> QED  BY <2>0, <2>1, <3>1 DEF AnswerSound
    <2>2. CASE req[r].pc # "idle"
      <3>1. req'[r] = [req[r] EXCEPT !.age = req[r].age + 1] /\ req[r].age < MaxLookup
        BY <2>2 DEF Tick
      <3>2. req'[r] \in RequestType /\ req'[r].age = req[r].age + 1
            /\ req'[r].pc = req[r].pc /\ req'[r].answer = req[r].answer
            /\ req'[r].stale = req[r].stale /\ req'[r].confirmed = req[r].confirmed
        BY <2>0, <3>1 DEF RequestType
      <3>3. \A a \in Nat : HeldSince(req[r].answer, a) =>
                \E b \in BOOLEAN : req[r].answer = Result(b) /\ held'[b] < a + 1
        BY <1>3 DEF HeldSince
      <3>4. /\ HeldSince(req[r].answer, req[r].age + 1) => HeldSince(req[r].answer, req[r].age + 1)'
            /\ HeldSince(req[r].answer, req[r].age + TTL) => HeldSince(req[r].answer, req[r].age + TTL)'
            /\ HeldSince(req[r].answer, req[r].age + MaxStale)
                  => HeldSince(req[r].answer, req[r].age + MaxStale)'
        <4> DEFINE H(a) == \E b \in BOOLEAN : req'[r].answer = Result(b) /\ held'[b] < a
        <4>1. \A a \in Nat : HeldSince(req[r].answer, a) => H(a + 1)
          BY <3>2, <3>3
        <4>2. /\ (req[r].age + 1) + 1 = req'[r].age + 1
              /\ (req[r].age + TTL) + 1 = req'[r].age + TTL
              /\ (req[r].age + MaxStale) + 1 = req'[r].age + MaxStale
          BY <2>0, <3>2
        <4>3. /\ HeldSince(req[r].answer, req[r].age + 1) => H(req'[r].age + 1)
              /\ HeldSince(req[r].answer, req[r].age + TTL) => H(req'[r].age + TTL)
              /\ HeldSince(req[r].answer, req[r].age + MaxStale) => H(req'[r].age + MaxStale)
          BY <2>0, <4>1, <4>2
        <4> QED  BY <3>2, <4>3 DEF HeldSince
      <3> QED  BY <2>0, <3>2, <3>4 DEF AnswerSound
    <2> QED  BY <2>1, <2>2
  <1>8. DOMAIN req' = Requests /\ req' = [r \in Requests |-> req'[r]]  BY DEF Tick
  <1>9. TokenTypeOK'
    <2>1. req' \in [Requests -> RequestType]  BY <1>7, <1>8
    <2>2. confirmed' \in Age  BY <1>0, OlderType
    <2> QED  BY <1>0, <1>2, <1>4, <2>1, <2>2 DEF TokenTypeOK, RequestType
  <1> QED  BY <1>0, <1>2, <1>5, <1>6, <1>7, <1>9 DEF TokenInv

LEMMA TokenNextInv ==
    ASSUME TokenInv, [TokenNext]_tokenVars PROVE TokenInv'
  <1>1. CASE UNCHANGED tokenVars
    <2>1. UNCHANGED <<valid, up, cache, req, held, confirmed>>  BY <1>1 DEF tokenVars
    <2>2. \A r \in Requests : AnswerSound(r)'  BY <2>1, RequestsSound
    <2> QED  BY <2>1, <2>2 DEF TokenInv, TokenTypeOK, CacheSound, CacheRecent
  <1>2. CASE TokenNext
    BY <1>2, ArriveInv, ReadInv, LookupInv, LookupFailsInv, WriteInv, ReturnInv, ChangeInv,
       OutageInv, InvalidateInv, RestartInv, TickInv
       DEF TokenNext, Resolve
  <1> QED  BY <1>1, <1>2

LEMMA TokenInvariance ==
    TokenSpec => []TokenInv
  <1>1. TokenInit => TokenInv  BY TokenInitInv
  <1>2. TokenInv /\ [TokenNext]_tokenVars => TokenInv'  BY TokenNextInv
  <1> QED  BY <1>1, <1>2, PTL DEF TokenSpec

\* Every variable of the resolver keeps its type.
THEOREM TokenTypeCorrect ==
    TokenSpec => []TokenTypeOK
  BY TokenInvariance, PTL DEF TokenInv

\* An answer is never older than ttl, or than maxStale in an outage, measured from
\* the request's arrival, for any number of requests that overtake each other in the
\* cache (token.go, Resolve: the entry carries the time of before the lookup).
THEOREM Freshness ==
    TokenSpec => []AnswersAreFresh
  <1>1. TokenInv => AnswersAreFresh  BY DEF TokenInv, AnswerSound, AnswersAreFresh
  <1> QED  BY <1>1, TokenInvariance, PTL

\* A request fails only if no lookup had been cached for maxStale less the longest
\* lookup, however older answers have overwritten newer ones (Resolve).
THEOREM OutageTolerance ==
    TokenSpec => []OutageBridged
  <1>1. TokenInv => OutageBridged  BY DEF TokenInv, AnswerSound, OutageBridged
  <1> QED  BY <1>1, TokenInvariance, PTL
=============================================================================
