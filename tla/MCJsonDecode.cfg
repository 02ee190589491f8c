\* Every text of a document with up to five nodes, of every kind of lexeme.
SPECIFICATION TSpec
CONSTANTS
    WordSize = 1024
    DOCUMENT_BYTES = 11
    CONFIG_BYTES = 11
    REQUEST_BYTES = 11
    NODES = 5
    DEPTH = 2
    Lexemes <- SmallLexemes
    StringParts <- SmallStringParts
    NumberParts <- SmallNumberParts
    MaxToken = 5
    SpelledAfter <- SmallSpelledAfter
    NumberSize = 22
INVARIANTS
    TokenIsLexeme
    ReadsExactlyJson
    RefusalsAreTruthful
    DoneIsWritten
CHECK_DEADLOCK FALSE
