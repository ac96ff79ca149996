------------------------------ MODULE Commands ------------------------------
(***************************************************************************)
(* What Resp and ReplyReader say of each other: the state machine only     *)
(* enumerates formats and numerals, character by character.  The values of *)
(* the conversions are taken from one of the lists.                        *)
(***************************************************************************)
EXTENDS ReplyReader

CONSTANTS
    FormatChars,   \* the characters of formats
    MaxFormat,     \* bound: the length of a format
    NumeralChars,  \* the characters of numerals
    MaxNumeral,    \* bound: the length of a numeral
    Lists          \* lists of values, of MaxFormat values each

VARIABLE input

CommandsInit == input = [kind |-> "none", chars |-> <<>>]

Longer(kind, chars, max) ==
    /\ input.kind \in {"none", kind} /\ Len(input.chars) < max
    /\ \E c \in chars : input' = [kind |-> kind, chars |-> Append(input.chars, c)]
CommandsNext ==
    \/ Longer("format", FormatChars, MaxFormat)
    \/ Longer("numeral", NumeralChars, MaxNumeral)
CommandsSpec == CommandsInit /\ [][CommandsNext]_input

-----------------------------------------------------------------------------
(* The reply that argv would be. *)
AsReply(argv) ==
    [p \in {<<>>} \cup {<<i - 1>> : i \in DOMAIN argv} |->
        IF p = <<>> THEN Node("array", <<>>, Len(argv)) ELSE Node("string", argv[p[1] + 1], 0)]

(* A server that reads the command as hiredis reads replies finds argv.    *)
IsReply(got, argv) == got.ok /\ got.reply = AsReply(argv)
Reads(command, argv) ==
    /\ command.len = Len(command.cmd)
    /\ IsReply(redisReaderGetReply(redisReaderFeed(NewReader, command.cmd)), argv)

(* The values replaced by marks, and the marks in argv by values. *)
Mark(i) == "mark" \o ToString(i)
Marks == [i \in 1 .. MaxFormat |-> <<Mark(i)>>]
Filled(argv, values) ==
    [a \in DOMAIN argv |-> FlattenSeq([c \in DOMAIN argv[a] |->
        IF \E i \in DOMAIN values : Mark(i) = argv[a][c]
        THEN values[CHOOSE i \in DOMAIN values : Mark(i) = argv[a][c]]
        ELSE <<argv[a][c]>>])]

(* The arguments of a command come from its format alone: the values fill  *)
(* them, and no value, with spaces, %, line ends, NUL or nothing in it,    *)
(* splits, ends, adds or removes one; and what is sent is read back as     *)
(* these arguments, its length announced right, by each of the functions   *)
(* that write commands.                                                    *)
Written(argv, values) ==
    \A command \in {redisFormatCommand(input.chars, values),
                     redisFormatCommandArgv(argv, TRUE), redisFormatSdsCommandArgv(argv, TRUE)} :
        Reads(command, argv)
Fits(parsed) ==
    ~parsed.err => \A values \in Lists :
        ("s" \notin ToSet(input.chars) \/ \A i \in DOMAIN values : NUL \notin ToSet(values[i]))
            => Written(Filled(parsed.argv, values), values)
FormatSound ==
    input.kind = "format" /\ ~Unterminated(input.chars) => Fits(Parsed(input.chars, Marks))

(* string2ll takes exactly the texts that sdsll2str writes, up to both     *)
(* ends of long long: no overflow, no leading zero, no second spelling.    *)
Numerals == {sdsll2str(n) : n \in -LLONG_MAX - 1 .. LLONG_MAX}
NumbersCanonical ==
    input.kind = "numeral" =>
        LET v == string2ll(input.chars)
        IN  /\ v.ok <=> input.chars \in Numerals
            /\ v.ok => sdsll2str(v.value) = input.chars
=============================================================================
