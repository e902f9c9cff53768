SPECIFICATION MCSpec
CONSTANTS
    c1 = c1
    c2 = c2
    c3 = c3
    s1 = s1
    s2 = s2
    Co = {c1, c2, c3}
    Stack = {s1, s2}
    Values = {0, 1}
    Sizes = {0, 1, 8, 9, 11, 12}
    Guards = {TRUE, FALSE}
    MinSize = 8
    DefaultSize = 16
    PageSize = 4
    InlineWords = 3
    SaveSize = 1
    MaxDepth = 3
    Sources <- CsvSources
    OptSets <- CsvOpts
    BlkSizes = {1, 2, 4}
    SIZE_MAX = 4
    MayFail = TRUE
    Callers <- CsvCallers
    Strings <- TokStrings
    Delims <- AnyForm
    Limits = {0, 1, 2}
    DefaultNum = 2
    Step = 1
    NoMemory = TRUE
SYMMETRY Symmetry
INVARIANTS
    ParseSound
    TokensSplit
    TextRight
    StacksIntact
