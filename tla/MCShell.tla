------------------------------- MODULE MCShell -------------------------------
(***************************************************************************)
(* Scripts with and without an interpreter, with empty lines, and one that *)
(* does not end in a newline; lines with single and double spaces; two     *)
(* directories with a program of the same name, and a path that is         *)
(* replaced by a shorter one; an environment with a path of its own, and a *)
(* script that adds two names to it.                                       *)
(***************************************************************************)
EXTENDS Shell

SomeScripts ==
  { <<>>,
    <<"#", "!", "adsh", NL, NL, "setenv", " ", "k", " ", "v", NL, "ls", NL, NL>>,
    <<"setenv", " ", "n", " ", "v", NL, "setenv", " ", "m", " ", "v", NL, "ls", NL>>,
    <<"a", "b", NL, "ls", " ", "&", NL>>,
    <<NL, "ls">>,
    <<" ", "#", "!", "b", "/", "echosh", NL, "ls", NL>> }
SomeLines ==
  { <<"ls">>, <<"echosh">>, <<"ls", " ", "k", "v", " ", "&">>, <<"ls", " ", " ">>,
    <<"ls", " ", " ", "k", "v", " ", "v">>,
    <<"setenv", " ", "k", " ", "v", "v">>, <<"setenv", " ", "k">>,
    <<"setenv", " ", "path", " ", "c", "/">>,
    <<"setenv", " ", "path", " ", "d", "/", ":", "b", "/">>,
    <<"getenv", " ", "k", "v">>, <<"cd", " ", "d", "/">>, <<"cd", " ", "ls">> }
SomeCommands == { <<<<"ls">>, <<"k">>>>, <<<<"x">>, <<"&">>>> }
SomeDirectories == { <<"d", "/">> }
SomeRegulars == { <<"ls">> }
SomePrograms == { <<"b", "/", "ls">>, <<"c", "/", "ls">>, <<"b", "/", "echosh">> }
SomePath == <<"d", "d", "/", ":", "b", "/">>
SomeEnv == << <<"k", "k", "=", "v">>, <<"k", "=", "v">>, <<"path", "=", "c", "/">> >>
=============================================================================
