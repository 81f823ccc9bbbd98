---------------------------- MODULE FileSystem -----------------------------
(***************************************************************************)
(* What a file holds when programs truncate it in place and then write it, *)
(* as every writer of this repository does: what was written and how many  *)
(* bytes of it there are.                                                  *)
(***************************************************************************)
EXTENDS Naturals

Contents(of, size) == [of |-> of, size |-> size]
Empty == Contents(<<"nothing">>, 0)
Torn(size) == Contents(<<"garbage">>, size)

\* A write over longer contents leaves their tail, and the result is no file
\* that any reader accepts.
Overlay(old, new) == IF old.size > new.size THEN Torn(old.size) ELSE new
=============================================================================
