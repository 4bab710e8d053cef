---------------------------- MODULE MC_KeyBackup ----------------------------
(***************************************************************************)
(* Model-checking instance of KeyBackup: two devices, passwords that share *)
(* or differ in their 32-byte prefix.                                      *)
(***************************************************************************)
EXTENDS KeyBackup

CONSTANTS d1, d2

MCDevice == {d1, d2}

\* Two passwords with the same first 32 bytes, and one with another prefix.
MCPassword == {<<"pfxA", "x">>, <<"pfxA", "y">>, <<"pfxB", "x">>}
MCPassword1 == {<<"pfxA", "x">>}

\* The tools run on d1; the file is one full 16-byte chunk and a short one.
MCToolDevice == {d1}
MCFileShape == <<"full", "short">>

\* A file of exactly one 16-byte chunk: the loop reads once more and gets 0.
MCFileShapeFull == <<"full">>
=============================================================================
