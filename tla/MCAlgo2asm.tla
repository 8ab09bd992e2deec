----------------------------- MODULE MCAlgo2asm -----------------------------
(* Small instances of Algo2asm for TLC. *)
EXTENDS Algo2asm

\* "a" is a prefix of "ab": \END{a} closes \BEGIN{ab}.
MCPackages == {"a", "ab"}
MCPrefix == {<<"a", "a">>, <<"a", "ab">>, <<"ab", "ab">>}
MCPackage == {"a"}
MCOnePrefix == {<<"a", "a">>}
=============================================================================
