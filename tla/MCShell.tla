------------------------------ MODULE MCShell ------------------------------
EXTENDS Shell, TLC

Short == UNION {[1..n -> Symbols \cup {"a"}] : n \in 0..3}

\* Pipes of three, blocks, lists and redirections in pipes, background jobs.
Long == {<<"a", "|", "a", "|", "a">>,
         <<"a", "|", "a", ">", "a", "&">>,
         <<"a", "|", "|", "a", "&">>,
         <<"a", "<", "a", "|", "a", ">", ">", "a">>,
         <<"(", "a", ";", "a", ")", "|", "a">>,
         <<"a", "|", "(", "a", "&", ")", "<", "a">>,
         <<"a", "&", ";", "a", "|", "a">>}

\* Lines that are typed while jobs of earlier ones run in the background, until
\* the shell itself cannot fork; and a shell after the end of input.
Several == {<< <<"a", "&">>, <<"a", "&">>, <<"a", ">", "a">> >>,
            << <<"a", "|", "a", "&">>, <<"a">> >>,
            << <<"a", "&">>, EOF, <<"a", ";", "a">> >>}

MCSessions == {<<s>> : s \in Short \cup Long} \cup Several
MCBusy == {0, 3}
=============================================================================
