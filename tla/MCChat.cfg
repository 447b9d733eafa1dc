\* Two tool calls side by side, one retry, two requests of an attempt; snippets of three
\* sections and five characters, two documents of a search.
SPECIFICATION FairSpec
CONSTANTS
    docA = docA
    docB = docB
    docC = docC
    Resources = {docA, docB, docC}
    FullText = FullText
    NoResource = NoResource
    Question = "question"
    Glossary <- GlossaryTried
    Expansions <- ExpansionsTried
    Plans <- PlansTried
    HitLists <- HitListsTried
    Rankings <- RankingsTried
    Findings <- FindingsTried
    ScoreThreshold = 1
    TopN = 2
    MaxSnippet = 5
    MaxSections = 3
    SeparatorLength = 1
    MaxQueries = 4
    MaxSearches = 3
    Slots = {1, 2}
    MaxRetries = 1
    RequestLimit = 2
    MaxSources = 1
INVARIANTS
    CitationsStable
    MergedFairly
    EvidenceKept
PROPERTIES
    Grounded
    QuestionSettled
CHECK_DEADLOCK FALSE
