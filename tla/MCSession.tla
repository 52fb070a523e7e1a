------------------------------ MODULE MCSession ------------------------------
(***************************************************************************)
(* Session with two hosts, one of them with a scheme, one JSON path for    *)
(* both, and a wordlist of two words.  Of the files some are in order;     *)
(* one has a refused line after good ones, one is missing, and two have    *)
(* the keys of the manual that are not the parsers'.  A file of another    *)
(* format is tried as an .rso one.                                         *)
(***************************************************************************)
EXTENDS Session

Line(key, value) == [key |-> key, value |-> value]
File(ext, lines) == [ext |-> ext, exists |-> TRUE, lines |-> lines]

MCHosts == {"a", "b"}
Words == <<"file", "words", ".txt">>
MCWordlists == {Words}

Scheme1 == File("rfo", <<Skipped, Line("target", <<"url", "a">>), Line("port", <<"number", 9051>>)>>)
Target2 == File("rfo", <<Line("target", <<"text", "a">>), Line("target", <<"text", "b">>)>>)

Scan1 == File("rso", <<Line("timeout", <<"number", 0>>), Line("wordlist_path", Words),
                       Line("json_file_path", <<"file", "out", ".json">>),
                       Line("html_file_save", <<"file", "body", ".txt">>)>>)
\* The keys as the manual has them.
Manual == File("rso", <<Line("wordlist_path", Words),
                        Line("json_file_path", <<"file", "out", ".json">>),
                        Line("html_file", <<"file", "body", ".html">>)>>)

Key1 == File("rxo", <<Line("db_password", <<"text", "one">>), Line("num_trees", <<"number", 2>>)>>)
Comment == File("rxo", <<Line("db_password", <<"text", "two">>), Line("# old", <<"number", 1>>)>>)

Missing == [ext |-> "rso", exists |-> FALSE, lines |-> <<>>]

MCConfigs == {Scheme1, Target2, Scan1, Manual, Key1, Comment, Missing}
MCLoads == {<<"rfo", Scheme1>>, <<"rfo", Target2>>,
            <<"rso", Scan1>>, <<"rso", Manual>>, <<"rso", Missing>>, <<"rso", Key1>>,
            <<"rxo", Key1>>, <<"rxo", Comment>>}

Sig == <<"signature">>
Text == <<"text">>
MCReplies ==
    {[status |-> 200, body |-> <<Rule, Sig>>],
     [status |-> 200, body |-> <<Text, Blank, Sig>>],
     [status |-> 404, body |-> <<Text, Blank, Text, Rule, <<"code", 200>>, Rule, Sig>>]}
==============================================================================
