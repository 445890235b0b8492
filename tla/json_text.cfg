SPECIFICATION TextSpec
CONSTANTS
    Strings = {"a", "b"}
    MaxDepth = 4
    MaxTokens = 9
    StackSize = 6
    TabsMod = 256
    Formats = {"compact", "pretty"}
    Behind <- Terminator
    I64Max = 100
    Chars <- StringChars
    Spaces <- Space
    Block = 4
    Header = 2
    Slack = 1
    Inputs <- StringInputs
    Sources <- StringSources
    Garbage <- Tails
    Reread <- Stale
    Patterns <- Replacements
    MaxLen = 5
    MaxBlocks = 3
INVARIANTS ParserSafe AcceptsTheLenientGrammar PrintsWhatItParsed
    ReadsWhatIsMeant StaysInBuffer SelectsPath WritesInBlock ReplacementsRight
PROPERTY KeepsTexts
CHECK_DEADLOCK FALSE
