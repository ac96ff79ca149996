\* Hash slots: all keys of one byte, and those of up to five of braces and two
\* other bytes.  Hash table: five keys.  Strings up to six characters.  Formats
\* up to five characters, numerals up to four.
CONSTANTS
    Byte <- AnyByte
    MaxLen = 1
    Sample = {97, 123, 125, 255}
    MaxSample = 5
    Key = {1, 2, 3, 4, 5}
    Val = {1, 2}
    Hash <- Hashes
    InitialSize = 2
    MaxEntries = 5
    LLONG_MAX = 127
    FormatBuf = 6
    INT_MAX = 20
    MaxAlloc = 64
    StackSize = 3
    Discard = 4
    Modulus <- Moduli
    MaxPrealloc = 4
    MaxText = 6
    Piece <- Pieces
    Passed <- Positions
    FormatChars <- Letters
    MaxFormat = 5
    NumeralChars <- Signs
    MaxNumeral = 4
    Lists <- Values
SPECIFICATION DataSpec
CHECK_DEADLOCK FALSE
INVARIANTS
    CrcCorrect
    TagDecides
    SdsSound
    SplitsBack
    DictIsMap
    FormatSound
    NumbersCanonical
