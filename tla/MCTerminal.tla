------------------------------ MODULE MCTerminal ------------------------------
(***************************************************************************)
(* The readers of Terminal are interchangeable: none of its definitions    *)
(* and none of the safety properties checked with this names one of them.  *)
(***************************************************************************)
EXTENDS Terminal, TLC

ReaderSymmetry == Permutations(Reader)
=============================================================================
