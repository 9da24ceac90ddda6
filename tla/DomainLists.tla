------------------------------ MODULE DomainLists ------------------------------
(***************************************************************************)
(* How the files of one tenant come about: the rules that policy-engine    *)
(* has decided to block, less what the tenant allows and with what it      *)
(* denies, category by category, then all.txt and allowlist.txt            *)
(* (buildTenant and applyOverrides in internal/builder, Tenants in         *)
(* internal/store, internal/match), each of them sorted and collapsed in   *)
(* one pass (Collapse in internal/render).  A resolver that loads them     *)
(* takes a line for the name and all that is below it.                     *)
(***************************************************************************)
EXTENDS Naturals, Sequences, FiniteSets

CONSTANTS
    Names,      \* domain names, canonical
    Below,      \* <<a, n>>: n is a, or ends in "." followed by a
    Position,   \* place of a name in the byte order of its reversed labels
    Rules,      \* the rules there are: a name and a match type
    Subscribed, \* the tenant's categories, in the order of their names
    MaxRules,   \* bound on the rules of a category
    MaxAllowed, \* bound on what the tenant allows
    MaxDenied   \* bound on what the tenant denies

Exact == 0
Wildcard == 1

ASSUME DomainAssumption ==
    /\ Below \subseteq Names \X Names
    /\ \A n \in Names : <<n, n>> \in Below
    /\ \A a, b, c \in Names : <<a, b>> \in Below /\ <<b, c>> \in Below => <<a, c>> \in Below
    /\ Position \in [Names -> Nat]
    /\ \A m, n \in Names : m # n => Position[m] # Position[n]
    /\ Rules \subseteq Names \X {Exact, Wildcard}
    /\ MaxRules \in Nat /\ MaxAllowed \in Nat /\ MaxDenied \in Nat

\* A name below another is longer by a prefix of its own, so it sorts after it.
ASSUME AncestorsFirst ==
    \A a, n \in Names : <<a, n>> \in Below => Position[a] <= Position[n]

AnyCategory == ""   \* the key of what a tenant denies in every category
All == "all"
Allow == "allowlist"
ASSUME FileAssumption ==
    /\ Subscribed \in Seq(STRING)
    /\ {AnyCategory, All, Allow} \cap {Subscribed[i] : i \in DOMAIN Subscribed} = {}

Categories == {Subscribed[i] : i \in DOMAIN Subscribed}
Keys == Categories \cup {AnyCategory}
Files == Subscribed \o <<All, Allow>>
Outputs == Categories \cup {All, Allow}

VARIABLES
    base,       \* base[c]: the rules of BlockedRules(c)
    allow,      \* AllowRules, and the Matcher made of them
    deny,       \* deny[c], and deny[AnyCategory]
    at,         \* place of the file being made in Files
    scanning,   \* Collapse is under way
    rest,       \* the rules it has not come to; a copy of a rule for each list it is from
    kept,
    lastKept,   \* its name, in a set that is empty before the first rule is kept
    union,      \* what all.txt is made of
    lines       \* lines[f]: the names in file f

input == <<base, allow, deny>>
vars == <<input, at, scanning, rest, kept, lastKept, union, lines>>

Few(bound) == {list \in SUBSET Rules : Cardinality(list) <= bound}

Init ==
    /\ base \in [Categories -> Few(MaxRules)]
    /\ allow \in Few(MaxAllowed)
    /\ deny \in [Keys -> Few(MaxDenied)]
    /\ Cardinality({d \in Keys \X Rules : d[2] \in deny[d[1]]}) <= MaxDenied
    /\ at = 1
    /\ scanning = FALSE
    /\ rest = {} /\ kept = {} /\ lastKept = {}
    /\ union = {}
    /\ lines = [f \in Outputs |-> {}]

-----------------------------------------------------------------------------
(* Matching.                                                               *)

\* Variant: a rule matches what is above it.
MatchUpwards(rules, n) ==
    \E r \in rules : r[1] = n \/ (r[2] = Wildcard /\ <<n, r[1]>> \in Below)

\* Match: an exact rule at the name, or a wildcard at it or above it.
Match(rules, n) ==
    \E r \in rules : r[1] = n \/ (r[2] = Wildcard /\ <<r[1], n>> \in Below)

-----------------------------------------------------------------------------
(* buildTenant.                                                            *)

From(list, c) == {<<r[1], r[2], c>> : r \in list}

\* applyOverrides: a rule goes when the allowlist matches its name; denied names
\* are added as they are.
Effective(c) ==
    From({r \in base[c] : ~Match(allow, r[1])}, c)
        \cup From(deny[AnyCategory], AnyCategory) \cup From(deny[c], c)

Entries(f) ==
    CASE f = All -> union
      [] f = Allow -> From(allow, Allow)
      [] OTHER -> Effective(f)

\* Render of the next file.
Begin ==
    /\ at <= Len(Files)
    /\ ~scanning
    /\ scanning' = TRUE
    /\ rest' = Entries(Files[at])
    /\ kept' = {} /\ lastKept' = {}
    /\ UNCHANGED <<input, at, union, lines>>

\* Variant: the longest names first.
BeforeReversed(r, s) == Position[r[1]] > Position[s[1]]

\* The order of the sort; a wildcard comes before the exact rule of its name.
Before(r, s) ==
    \/ Position[r[1]] < Position[s[1]]
    \/ r[1] = s[1] /\ r[2] > s[2]

\* The rule is the last one kept, or below it.
Covered(r) == \E a \in lastKept : <<a, r[1]>> \in Below

Scan(r) ==
    /\ scanning
    /\ r \in rest
    /\ \A s \in rest : ~Before(s, r)
    /\ rest' = rest \ {r}
    /\ IF Covered(r)
       THEN UNCHANGED <<kept, lastKept>>
       ELSE kept' = kept \cup {r} /\ lastKept' = {r[1]}
    /\ UNCHANGED <<input, at, scanning, union, lines>>

\* Variant: the union starts again with every category.
EndRestarting ==
    /\ scanning
    /\ rest = {}
    /\ scanning' = FALSE
    /\ lines' = [lines EXCEPT ![Files[at]] = {r[1] : r \in kept}]
    /\ union' = IF Files[at] \in Categories THEN Effective(Files[at]) ELSE union
    /\ at' = at + 1
    /\ UNCHANGED <<input, rest, kept, lastKept>>

\* The file is done; all.txt gets the rules of a category as they were before they
\* were collapsed.
End ==
    /\ scanning
    /\ rest = {}
    /\ scanning' = FALSE
    /\ lines' = [lines EXCEPT ![Files[at]] = {r[1] : r \in kept}]
    /\ union' = IF Files[at] \in Categories THEN union \cup Effective(Files[at]) ELSE union
    /\ at' = at + 1
    /\ UNCHANGED <<input, rest, kept, lastKept>>

Done == at > Len(Files) /\ UNCHANGED vars

Next == Begin \/ (\E r \in rest : Scan(r)) \/ End \/ Done

Spec == Init /\ [][Next]_vars

-----------------------------------------------------------------------------
(* Properties.                                                             *)

\* What a resolver answers for the name: it knows names, and takes each for its
\* whole subtree.
Covers(list, n) == \E a \in list : <<a, n>> \in Below
Blocks(file, n) == Covers(lines[file], n) /\ ~Covers(lines[Allow], n)

Finished == at > Len(Files)

\* What was asked for: a rule that blocks the name or something above it, and none
\* of the tenant's exceptions doing so.
Wanted(list, n) == Covers({r[1] : r \in list}, n)
WantedBlocked(c, n) ==
    /\ Wanted(base[c] \cup deny[AnyCategory] \cup deny[c], n)
    /\ ~Wanted(allow, n)

\* A resolver with a category's list and allowlist.txt blocks what the policy and the
\* tenant ask for, no more and no less: neither the exceptions, of which only some
\* can be applied by leaving rules out ("gỡ rule cha sẽ mở toang cả nhánh",
\* applyOverrides), nor the collapsing, which takes lines away, shows.
ResolverBlocks ==
    Finished => \A c \in Categories, n \in Names : Blocks(c, n) <=> WantedBlocked(c, n)

\* all.txt blocks what some list of the tenant blocks.
AllIsUnion ==
    Finished => \A n \in Names :
                    Blocks(All, n) <=> \E c \in Categories : Blocks(c, n)

\* A line is superfluous only where the sort has torn a family apart: between the two
\* lines there is a rule that is not below the first one.  Lines are never repeated.
SuperfluousOnlyWhenTorn ==
    scanning => \A r, s \in kept :
        /\ r[1] = s[1] => r = s
        /\ <<r[1], s[1]>> \in Below /\ r # s =>
              \E t \in Entries(Files[at]) :
                  /\ Position[r[1]] < Position[t[1]] /\ Position[t[1]] < Position[s[1]]
                  /\ <<r[1], t[1]>> \notin Below

\* "Kết quả là tập tối tiểu" (Collapse): no line is below another one.
Minimal ==
    \A f \in Outputs : \A a, n \in lines[f] : <<a, n>> \in Below => a = n
=============================================================================
