\* Every template of up to three resources or two variables, every path to a
\* resource of up to three types, and recurrences on a short calendar.
SPECIFICATION AllSpec
CONSTANTS
    Paths = {"p1", "p2", "p3"}
    MaxResources = 3
    ParameterNames = {"p"}
    VariableNames = {"v", "w"}
    Literals = {"a", "b"}
    Templates <- MCTemplates
    TypeOf <- MCTypeOf
    Tokens <- MCTokens
    Types <- MCTypes
    Names = {"x", "servers"}
    Spellings = {"canonical", "other"}
    Units <- MCUnits
    Intervals = {1, 2, 5, 10}
    Anchors = {0, 2, 4, 8}
    MonthDays <- MCMonthDays
    MaxDuration = 14
    Late = 2
    MaxTime = 20
INVARIANTS DependenciesFirst VerdictIsRight ResolutionIsRight TypesListed IdsRoundTrip NextIsTheFollowing
PROPERTY TemplatesAnswered
\* The computations end.
CHECK_DEADLOCK FALSE
