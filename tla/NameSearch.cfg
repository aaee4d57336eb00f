\* Every search over every pool of up to three entries.
SPECIFICATION Spec
CONSTANTS
    LowerOf <- MCLowerOf
    Separators <- MCSeparators
    WordChars <- MCWordChars
    BadBytes <- MCBadBytes
    StrippedOf <- MCStrippedOf
    Paths <- MCPaths
    Fillers <- MCFillers
    SearchTexts <- MCSearchTexts
    OptionSets <- MCOptionSets
    Tiers = {0, 2, 3}
    kMaxSearchResults = 2
    MaxEntries = 3
INVARIANTS
    EntriesAreWhatWasAdded
    ResultsAreTheMatches
    HighlightIsFirst
