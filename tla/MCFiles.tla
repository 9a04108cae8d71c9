------------------------------- MODULE MCFiles -------------------------------
(***************************************************************************)
(* An archive with nested directories, files of zero, of whole and of      *)
(* broken numbers of blocks, and three programs.  Two are loaded: a        *)
(* segment of more than a page from the beginning of one, and one smaller  *)
(* than a page in the middle of one.  The third, of more than a page from  *)
(* the middle of one, is the case LoadedExact leaves out.                  *)
(***************************************************************************)
EXTENDS Files

Dir(n) == [name |-> n, dir |-> TRUE, data |-> <<>>]
Regular(n, d) == [name |-> n, dir |-> FALSE, data |-> d]
SomeArchive ==
  << Regular(<<"ls">>, <<127, 1, 8, 3>>),
     Dir(<<"bin">>),
     Dir(<<"bin", "sub">>),
     Regular(<<"bin", "sub", "x">>, <<127, 1, 9, 3>>),
     Regular(<<"bin", "sub", "z">>, <<>>),
     Regular(<<"bin", "w">>, <<127, 3, 5, 1>>),
     Dir(<<"etc">>),
     Regular(<<"etc", "rc">>, <<51>>) >>

SomePaths == {<<"bin">>, <<"ls">>}
SomePrograms == {<<"ls">>, <<"bin", "w">>}
SomeSeeks == {[whence |-> "SEEK_SET", offset |-> 1], [whence |-> "SEEK_CUR", offset |-> 1]}
=============================================================================
