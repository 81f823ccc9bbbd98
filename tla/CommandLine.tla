---------------------------- MODULE CommandLine ----------------------------
(***************************************************************************)
(* How both programs look for flags: get_arg and has_flag of               *)
(* client/src/main.cpp, which server/src/main.cpp repeats.                 *)
(***************************************************************************)
EXTENDS Integers, Sequences, FiniteSetsExt

Positions(line, word) == {n \in 1..Len(line) : line[n] = word}

\* Mutant of First: searching from the end.
FromTheEnd(S) == Max(S)

First(S) == Min(S)

HasFlag(line, flag) == Positions(line, flag) # {}

\* Mutant of GetArg: the search stops a word too early.
GetArgEarly(line, flag, default) ==
    LET at == Positions(line, flag) \ {Len(line) - 1, Len(line)}
    IN  IF at = {} THEN default ELSE line[First(at) + 1]

\* The word after the first occurrence of the flag that is not the last word,
\* whatever that word is.
GetArg(line, flag, default) ==
    LET at == Positions(line, flag) \ {Len(line)}
    IN  IF at = {} THEN default ELSE line[First(at) + 1]
=============================================================================
