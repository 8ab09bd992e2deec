------------------------------ MODULE MCAsipro ------------------------------
(* A small instance of Asipro for TLC: two labels, lines of one, two and     *)
(* three bytes so that even and odd cells both occur.                        *)
EXTENDS Asipro

LinesWith(names) ==
    [t : {"label"}, sym : names] \cup [t : {"const"}, reg : {5}, sym : names]
    \cup [t : {"number"}, reg : {4}, val : {7}]
    \cup {[t |-> "bytes", bytes |-> <<102>>],
          [t |-> "data", bytes |-> <<0, 7>>],
          [t |-> "data", bytes |-> <<65, 66, 0>>]}
    \cup [t : {"skip", "unknown", "wrong"}]
MCLines == LinesWith(Symbols)
=============================================================================
