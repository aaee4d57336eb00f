--------------------------- MODULE MCSettingsFile ---------------------------
(* SettingsFile with folders whose names hold a blank, a backslash, a newline,
   a dash (which sorts before the slash), a link with a slash behind it, and
   three mount tables: a home of its own under a name that is written in
   octal, a root that is a tmpfs, and lines the parser leaves out. *)
EXTENDS SettingsFile

MCFolders == {
    <<"/", "a">>, <<"/", "a", "/", "b">>, <<"/", "a", "-", "b">>, <<"/", "b", " ">>,
    <<"/", "\\", "n">>, <<"/", "a", NL, "b">>, <<"/", "l", "/">> }

MCRealPath == [p \in {<<"/", "l">>} |-> <<"/", "a", "/", "b">>]
MCHomeDir == <<"/", "h", " ", "\\", "/", "u">>
MCDefaults == << <<"/", "p">>, <<"~", "/", "c">> >>
MCCharOrder == <<NL, " ", "-", "/", "0", "1", "3", "4", "\\", "a", "b", "c", "h", "l", "n", "p", "u">>

Line(point, type) == << <<"1">>, <<"1">>, <<"0">>, <<"/">>, point, <<"rw">>, <<"-">>,
                        <<type>>, <<"dev">> >>
Tagged(point, type) == << <<"1">>, <<"1">>, <<"0">>, <<"/">>, point, <<"rw">>, <<"shared">>, <<"-">>,
                          <<type>>, <<"dev">> >>
Home == <<"/", "h", "\\", "0", "4", "0", "\\", "1", "3", "4">>

MCMountTables == {
    << Line(<<"/">>, "ext4"), Tagged(Home, "ext4"), Line(<<"/", "p">>, "proc") >>,
    << Tagged(<<"/">>, "ext4"), Line(<<"/", "h">>, "ext4"), SubSeq(Line(Home, "ext4"), 1, 8) >>,
    << Line(<<"/">>, "tmpfs"), Line(<<"/", "b">>, "ext4"), Line(<<"/", "b">>, "ext4") >> }

\* A file of before the first start: none, or one that holds a key of its own.
MCFirstFiles == { Nothing,
    [k \in {"FirstRunComplete", "Other"} |->
       IF k = "Other" THEN <<"\\", "n", "\\", "a", "\\">> ELSE <<"1">>] }
=============================================================================
