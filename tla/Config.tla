-------------------------------- MODULE Config --------------------------------
(* kae::Config (include/kae/config.h, src/config.cpp): a map of options that  *)
(* the program sets and clears, and that command lines and configuration      *)
(* files change.  parse_args reads the command line in place: it scans it,    *)
(* and takes what it has used out of argv with two running indexes.  One      *)
(* thread uses the object.                                                    *)
EXTENDS ConfigText

CONSTANTS
    Names,         \* the names keys are made of
    Values,        \* the values the program and command lines give
    ProgramKeys,   \* the keys the program sets
    CommandLines,  \* sequences of arguments, the program's name being the first
    Texts,         \* the contents given to parse_file_content
    Disk,          \* the contents configuration files have
    Samples,       \* the contents whose reading is compared with Reference
    Null           \* the null pointer that ends argv

Keys       == {k \in Seq(Names) : k # <<>>}
ValueRange == Values \cup {Implicit, Empty, RawText}

LegalOption(x) == x.kind = "option" => x.key \in Keys /\ x.value \in ValueRange
LegalLine(x)   == /\ LegalOption(x)
                  /\ x.kind = "bare"    => x.key \in Keys
                  /\ x.kind = "section" => x.path \in Seq(Names)

IsSequence(s) == s \in Seq(Range(s))

ASSUME ProgramAssumption == ProgramKeys \subseteq Keys
ASSUME ArgumentsAssumption == \A line \in CommandLines :
    IsSequence(line) /\ Null \notin Range(line) /\ \A arg \in Range(line) : LegalOption(arg)
ASSUME TextsAssumption == \A text \in Texts \cup Disk \cup Samples :
    IsSequence(text.lines) /\ \A line \in Range(text.lines) : LegalLine(line)

VARIABLES
    options,  \* options_
    argv,     \* the array of the program, from 0
    argc,
    frame,    \* the locals of parse_args; pc is where it is
    given,    \* history: argv up to the null when parse_args was called
    before,   \* history: the options then
    result    \* how the last call of parse_args on argv ended

vars == <<options, argv, argc, frame, given, before, result>>

Arguments == UNION {Range(line) : line \in CommandLines}
NoFrame   == [pc |-> "idle"]
NoArray   == [n \in {0} |-> Null]

\* What the locals are is seen by parse_args only while it runs.
InCall == frame.pc # "idle"

ArrayOf(line) == [n \in 0 .. Len(line) |-> IF n = Len(line) THEN Null ELSE line[n + 1]]

Init == /\ options = <<>>
        /\ argv = NoArray /\ argc = 0
        /\ frame = NoFrame
        /\ given = NoArray /\ before = <<>>
        /\ result = "none"
-----------------------------------------------------------------------------
(* The program                                                                *)

\* The program has an array of arguments, as main gets it or as it builds it.
Provide(line) == /\ ~InCall
                 /\ argv' = ArrayOf(line) /\ argc' = Len(line)
                 /\ given' = NoArray /\ before' = <<>>
                 /\ result' = "none"
                 /\ UNCHANGED <<options, frame>>

\* A call that changes the options only.
Change(opts) == /\ ~InCall
                /\ options' = opts
                /\ given' = NoArray /\ before' = <<>>
                /\ result' = "none"
                /\ UNCHANGED <<argv, argc, frame>>

DoSet    == \E k \in ProgramKeys, v \in Values : Change(With(options, k, v))
DoRemove == \E k \in DOMAIN options : Change(Restrict(options, DOMAIN options \ {k}))
DoClear  == Change(<<>>)

DoParseFileContent == \E text \in Texts, allow \in BOOLEAN :
    Change(ParseFileContent(text, options, allow).options)

\* parse_file: the file cannot be opened, or has one of the contents.
FileOutcomes(opts, allow) ==
    {Outcome(opts, TRUE)} \cup {ParseFileContent(text, opts, allow) : text \in Disk}

DoParseFile == \E allow \in BOOLEAN :
    \E out \in FileOutcomes(options, allow) : Change(out.options)

\* A file of parse_global_config that does not exist is passed over.
IfExists(opts, allow) == {Outcome(opts, FALSE)} \cup FileOutcomes(opts, allow)

DoParseGlobalConfig == \E allow \in BOOLEAN :
    \E app \in IfExists(options, allow) :
        IF app.failed THEN Change(app.options)
        ELSE \E here \in IfExists(app.options, allow) : Change(here.options)
-----------------------------------------------------------------------------
(* parse_args                                                                 *)

Return(how) == frame' = NoFrame /\ result' = how

CallParseArgs(allow) ==
    /\ ~InCall
    /\ given' = Restrict(argv, 0 .. argc) /\ before' = options
    /\ IF argc = 0 THEN Return("thrown")   \* reserve(argc - 1) of no argument
       ELSE /\ frame' = [pc |-> "scan", allow |-> allow, i |-> 1, used |-> <<>>]
            /\ result' = "none"
    /\ UNCHANGED <<options, argv, argc>>

Scanning(kind) == frame.pc = "scan" /\ frame.i < argc /\ argv[frame.i].kind = kind

Use(n) == [frame EXCEPT !.used = Append(@, n), !.i = n + 1]

\* An argument has been read with an outcome; an exception leaves parse_args.
Take(out) == /\ options' = out.options
             /\ IF out.failed THEN Return("thrown")
                ELSE frame' = Use(frame.i) /\ UNCHANGED result
             /\ UNCHANGED <<argv, argc, given, before>>

ScanOption == /\ Scanning("option")
              /\ LET arg == argv[frame.i]
                 IN Take(SetParsedOption(options, arg.key, arg.value, frame.allow))

ScanFile == Scanning("file") /\ \E out \in FileOutcomes(options, frame.allow) : Take(out)

ScanPlain == /\ Scanning("plain")
             /\ frame' = [frame EXCEPT !.i = @ + 1]
             /\ UNCHANGED <<options, argv, argc, given, before, result>>

\* --help returns at once: nothing is taken out of argv.
ScanHelp == /\ Scanning("help")
            /\ Return("help")
            /\ UNCHANGED <<options, argv, argc, given, before>>

ScanEnd == frame.pc = "scan" /\ (frame.i = argc \/ Scanning("separator"))

\* Mutant of Removal: the first used argument is kept.
RemovalAfter(used) == [pc |-> "remove", used |-> used, u |-> 2,
                       old |-> used[1] + 1, new |-> used[1] + 1]

Removal(used) == [pc |-> "remove", used |-> used, u |-> 2,
                  old |-> used[1] + 1, new |-> used[1]]

\* The scan is over, at the end of argv or at "--": the indexes of the removal.
StartRemoval ==
    /\ ScanEnd
    /\ LET used == IF frame.i < argc THEN Use(frame.i).used ELSE frame.used
       IN IF used = <<>> THEN Return("parsed") /\ UNCHANGED argc
          ELSE /\ argc' = argc - Len(used)
               /\ frame' = Removal(used)
               /\ UNCHANGED result
    /\ UNCHANGED <<options, argv, given, before>>

CopyOne == /\ argv' = [argv EXCEPT ![frame.new] = argv[frame.old]]
           /\ frame' = [frame EXCEPT !.old = @ + 1, !.new = @ + 1]

MoreUsed == frame.u <= Len(frame.used)

CopyGap == /\ frame.pc = "remove" /\ MoreUsed
           /\ frame.old < frame.used[frame.u]
           /\ CopyOne
           /\ UNCHANGED <<options, argc, given, before, result>>

SkipUsed == /\ frame.pc = "remove" /\ MoreUsed
            /\ frame.old >= frame.used[frame.u]
            /\ frame' = [frame EXCEPT !.old = @ + 1, !.u = @ + 1]
            /\ UNCHANGED <<options, argv, argc, given, before, result>>

\* Mutant of InTail: the null after the last argument is not copied.
InTailNoNull == frame.new < argc

InTail == frame.new <= argc

CopyTail == /\ frame.pc = "remove" /\ ~MoreUsed /\ InTail
            /\ CopyOne
            /\ UNCHANGED <<options, argc, given, before, result>>

Finish == /\ frame.pc = "remove" /\ ~MoreUsed /\ ~InTail
          /\ Return("parsed")
          /\ UNCHANGED <<options, argv, argc, given, before>>
-----------------------------------------------------------------------------
Step == \/ ScanOption \/ ScanFile \/ ScanPlain \/ ScanHelp
        \/ StartRemoval \/ CopyGap \/ SkipUsed \/ CopyTail \/ Finish

Program == \/ \E line \in CommandLines : Provide(line)
           \/ DoSet \/ DoRemove \/ DoClear
           \/ DoParseFileContent \/ DoParseFile \/ DoParseGlobalConfig
           \/ \E allow \in BOOLEAN : CallParseArgs(allow)

Next == Program \/ Step

Spec == Init /\ [][Next]_vars
-----------------------------------------------------------------------------
(* Properties                                                                 *)

\* The indexes of given that parse_args looks at: up to and with the first "--".
Argument(n)  == n \in DOMAIN given \ {0} /\ given[n] # Null
Separators   == {n \in DOMAIN given : Argument(n) /\ given[n].kind = "separator"}
Scanned      == {n \in DOMAIN given : Argument(n) /\ \A s \in Separators : n <= s}
ToRemove     == {n \in Scanned : given[n].kind # "plain"}
ToKeep       == DOMAIN given \ ToRemove

\* Type invariant: options have legal keys (at least one name, whatever sections
\* they were read in), argc stays inside argv, and the locals of parse_args are
\* indexes of argv.
TypeOK ==
    /\ DOMAIN options \subseteq Keys /\ Range(options) \subseteq ValueRange
    /\ argc \in DOMAIN argv
    /\ Range(argv) \subseteq Arguments \cup {Null}
    /\ frame.pc \in {"idle", "scan", "remove"}
    /\ frame.pc = "scan"   => /\ frame.i \in 1 .. argc
                              /\ frame.allow \in BOOLEAN
    /\ frame.pc = "remove" => {frame.u, frame.old, frame.new} \subseteq Nat
    /\ InCall => Range(frame.used) \subseteq DOMAIN given
    /\ result \in {"none", "parsed", "help", "thrown"}

\* After parse_args (config.cpp:87-101) argv holds the arguments that were not
\* parsed, each one once and in their order, then the null at argv[argc].
ArgumentsCompacted == result = "parsed" =>
    /\ argc = Cardinality(ToKeep) - 1
    /\ \A n \in ToKeep : argv[Cardinality({k \in ToKeep : k < n})] = given[n]

\* The variables have their types, and while the arguments are moved no place is
\* read after it was written: the index read is inside the array, and ahead of the
\* one written (config.cpp:87-101).
ReadsAhead ==
    /\ TypeOK
    /\ frame.pc = "remove" =>
          /\ frame.new < frame.old
          /\ \A n \in frame.old .. Cardinality(DOMAIN given) - 1 : argv[n] = given[n]
          /\ (MoreUsed \/ InTail) => frame.old \in DOMAIN given

\* A command line without files gives each option the value of its last
\* argument, also when the scan stops at --help or at an unknown option
\* (config.cpp:63-85), and touches no other.
LastArgumentWins ==
    LET count == CHOOSE n \in 0 .. Cardinality(DOMAIN given) :
                    \A m \in DOMAIN given \ {0} :
                        m <= n <=> /\ m \in Scanned
                                   /\ \A k \in Scanned : k <= m =>
                                        /\ given[k].kind # "help"
                                        /\ given[k].kind = "option"
                                             => given[k].key \in DOMAIN options
        set(k) == {n \in Scanned : n <= count /\ given[n].kind = "option" /\ given[n].key = k}
        files  == {n \in DOMAIN given : Argument(n) /\ given[n].kind = "file"}
    IN result # "none" /\ files = {} =>
         /\ \A k \in DOMAIN options :
               options[k] = IF set(k) # {} THEN given[Max(set(k))].value ELSE before[k]
         /\ DOMAIN before \subseteq DOMAIN options

\* "Parsed arguments will be removed", also when the call returns true because the
\* application should show help (config.h:28-29): argc tells that none of those
\* parsed before --help is left.
ParsedArgumentsRemoved ==
    LET parsed == {n \in ToRemove : \A k \in Scanned : k <= n => given[k].kind # "help"}
    IN result \in {"parsed", "help"} =>
         argc + Cardinality(parsed) < Cardinality(DOMAIN given)

\* The states in which every sample is read: the options are any, and the program has
\* no command line yet.
Compared == given = NoArray /\ argv = NoArray

\* Every text is read as its lines say (config.cpp:129-216), whatever the options are:
\* the sections a line is in prefix its key, the last line about a key wins, the
\* first bad line ends the reading and what was read stays.  The code
\* takes an end of line that follows a bare key for a '=' (ValueFollowsEquals): if it
\* takes no line behind it for the value, that spoils the value of this key, which
\* is empty and not the implicit one, and nothing else.
TextsReadAsWritten == Compared =>
    \A text \in Samples, allow \in BOOLEAN :
        LET read == ParseFileContent(text, options, allow)
            said == Reference(text, options, allow)
        IN /\ BareKeysEndTheText(text) => read = said
           /\ BareKeysTakeNoLine(text) =>
                /\ read.failed = said.failed
                /\ DOMAIN read.options = DOMAIN said.options
                /\ \A k \in DOMAIN said.options : read.options[k] # said.options[k] =>
                      \E n \in Options(text) : IsKind(text, n, "bare") /\ FullKey(text, n) = k

\* A key gets a value from the text only where there is a '=', as the comment
\* of config.cpp:188 has it ("*ptr is '='"): a bare key takes no text for its
\* value.
ValueFollowsEquals == \A k \in DOMAIN options : options[k] # RawText
=============================================================================
