----------------------------- MODULE ConfigText -----------------------------
(* The text of a configuration file and the way kae::Config reads it          *)
(* (src/config.cpp, parse_file_content and set_parsed_option).                *)
(*                                                                            *)
(* A text is [lines, eol, ended]: its lines, the characters that end a line   *)
(* ("LF" or "CRLF") and whether the last line is ended as well.  A line is an *)
(* option "key = value", a bare key, a section header, a comment or blank.    *)
(* What stands behind the ']' of a header is a line of its own here: blanks   *)
(* and ends of lines are passed over alike before the next one begins.  A key *)
(* is the sequence of the names that dots separate in it, so that prefixing a *)
(* key is concatenation.                                                      *)
EXTENDS Integers, SequencesExt, Functions, FiniteSetsExt

Implicit == "true"   \* implicit_value
Empty    == ""
RawText  == "line"   \* the whole text of a line, read as a value

Outcome(opts, fail) == [options |-> opts, failed |-> fail]

With(opts, key, value) ==
    [k \in DOMAIN opts \cup {key} |-> IF k = key THEN value ELSE opts[k]]

\* Mutant of SetParsedOption: an option that exists keeps its value.
SetOnce(opts, key, value, allow) ==
    IF key \in DOMAIN opts THEN Outcome(opts, FALSE)
    ELSE IF allow THEN Outcome(With(opts, key, value), FALSE)
    ELSE Outcome(opts, TRUE)

SetParsedOption(opts, key, value, allow) ==
    IF key \in DOMAIN opts \/ allow THEN Outcome(With(opts, key, value), FALSE)
                                    ELSE Outcome(opts, TRUE)

\* Mutant of Enter: a relative section replaces the prefix.
EnterAbsolute(prefix, section) == section.path

Enter(prefix, section) == IF section.relative THEN prefix \o section.path
                                              ELSE section.path

TextOf(line) == IF line.kind = "blank" THEN Empty ELSE RawText

IsLast(text, n)      == n = Len(text.lines) /\ ~text.ended
SwallowsNext(text, n) == text.eol = "LF" /\ n < Len(text.lines)

\* The value of a bare key.  At the end of the text it is the implicit one.
\* Otherwise the line feed after the key is taken for '=': what follows it up to
\* the next end of line is the value.
BareValue(text, n) ==
    IF IsLast(text, n) THEN Implicit
    ELSE IF SwallowsNext(text, n) THEN TextOf(text.lines[n + 1])
    ELSE Empty

\* What has been read is [prefix, options, skip, failed]; skip: the next line
\* has been taken for a value.
ReadOption(read, key, value, allow) ==
    LET set == SetParsedOption(read.options, read.prefix \o key, value, allow)
    IN [read EXCEPT !.options = set.options, !.failed = set.failed]

ReadSection(read, section, last) ==
    IF last /\ ~section.closed THEN [read EXCEPT !.failed = TRUE]
    ELSE [read EXCEPT !.prefix = Enter(read.prefix, section)]

ReadLine(text, n, read, allow) ==
    LET line == text.lines[n]
    IN IF read.failed THEN read
       ELSE IF read.skip THEN [read EXCEPT !.skip = FALSE]
       ELSE CASE line.kind = "option"  -> ReadOption(read, line.key, line.value, allow)
              [] line.kind = "bare"    ->
                   [ReadOption(read, line.key, BareValue(text, n), allow)
                       EXCEPT !.skip = SwallowsNext(text, n)]
              [] line.kind = "section" -> ReadSection(read, line, IsLast(text, n))
              [] OTHER                 -> read

ParseFileContent(text, opts, allow) ==
    LET read[n \in 0 .. Len(text.lines)] ==
            IF n = 0 THEN [prefix |-> <<>>, options |-> opts,
                           skip |-> FALSE, failed |-> FALSE]
                     ELSE ReadLine(text, n, read[n - 1], allow)
        end == read[Len(text.lines)]
    IN Outcome(end.options, end.failed)
-----------------------------------------------------------------------------
(* The same, said of the lines and not of the reading: a reference            *)

IsKind(text, n, kind) == text.lines[n].kind = kind
Options(text) == {n \in DOMAIN text.lines : text.lines[n].kind \in {"option", "bare"}}
Sections(text) == {n \in DOMAIN text.lines : IsKind(text, n, "section")}

\* The sections a line is in: from the last one before it that is not relative.
Around(text, n) ==
    LET before == {s \in Sections(text) : s < n}
    IN {s \in before : \A a \in before : a > s => text.lines[a].relative}

FullKey(text, n) ==
    FlattenSeq([s \in 1 .. n |-> IF s = n THEN text.lines[n].key
                                 ELSE IF s \in Around(text, n) THEN text.lines[s].path
                                 ELSE <<>>])

\* What stands behind the '=', and the implicit value where there is none.
ValueAt(text, n) == IF IsKind(text, n, "option") THEN text.lines[n].value ELSE Implicit

\* The lines that make the reading fail.
BadLines(text, opts, allow) ==
    {n \in Options(text)  : ~allow /\ FullKey(text, n) \notin DOMAIN opts}
    \cup {n \in Sections(text) : IsLast(text, n) /\ ~text.lines[n].closed}

\* The last good line about a key gives its value.
Reference(text, opts, allow) ==
    LET bad  == BadLines(text, opts, allow)
        good == {n \in Options(text) : \A b \in bad : n < b}
        keys == {FullKey(text, n) : n \in good}
    IN Outcome([k \in DOMAIN opts \cup keys |->
                   IF k \in keys
                   THEN ValueAt(text, Max({n \in good : FullKey(text, n) = k}))
                   ELSE opts[k]],
               bad # {})

\* No end of line follows a bare key.
BareKeysEndTheText(text) == \A n \in DOMAIN text.lines :
    IsKind(text, n, "bare") => IsLast(text, n)

\* No line feed with a line behind it follows a bare key.
BareKeysTakeNoLine(text) == \A n \in DOMAIN text.lines :
    IsKind(text, n, "bare") => text.eol = "CRLF" \/ n = Len(text.lines)
=============================================================================
