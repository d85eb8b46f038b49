------------------------------ MODULE MCConfig ------------------------------
(* Keys of two names, command lines of up to three arguments, two of which may *)
(* give one key different values, and texts of up to three lines; the          *)
(* constants of Config.                                                        *)
EXTENDS Config

Arg(kind)         == [kind |-> kind]
Option(key, v)    == [kind |-> "option", key |-> key, value |-> v]
Bare(key)         == [kind |-> "bare", key |-> key]
Header(path, rel, closed) ==
    [kind |-> "section", path |-> path, relative |-> rel, closed |-> closed]

MCNames  == {"a", "b"}
MCValues == {"x", "y"}

MCProgramKeys == {<<"a">>, <<"b">>, <<"a", "b">>}

ArgumentKinds == {Option(<<"a">>, "x"), Option(<<"a">>, "y"), Option(<<"b">>, Implicit),
                  Arg("separator"), Arg("help"), Arg("file"), Arg("plain")}

MCCommandLines == {<<>>} \cup {<<Arg("plain")>> \o s : s \in BoundedSeq(ArgumentKinds, 3)}

Lines == {Option(<<"b">>, "x"), Option(<<"b">>, Empty), Bare(<<"a">>),
          Header(<<"a">>, FALSE, TRUE), Header(<<"b">>, TRUE, FALSE),
          Header(<<>>, FALSE, TRUE), Arg("comment"), Arg("blank")}

TextsOf(n) == [lines: BoundedSeq(Lines, n), eol: {"LF", "CRLF"}, ended: BOOLEAN]

Plain(lines) == [lines |-> lines, eol |-> "LF", ended |-> FALSE]

MCDisk == {Plain(<<Option(<<"b">>, "x")>>), Plain(<<Bare(<<"a">>), Bare(<<"b">>)>>)}

MCTexts == MCDisk \cup {Plain(<<Header(<<"a">>, FALSE, TRUE), Header(<<"b">>, TRUE, TRUE),
                                Bare(<<"a">>)>>)}

MCSamples == TextsOf(3)
=============================================================================
