SPECIFICATION Spec
CONSTANTS
    Names <- MCNames
    Below <- MCBelow
    Position <- MCPosition
    Rules <- MCRules
    Subscribed <- MCSubscribed
    MaxRules = 2
    MaxAllowed = 1
    MaxDenied = 1
INVARIANTS
    ResolverBlocks
    AllIsUnion
    SuperfluousOnlyWhenTorn
