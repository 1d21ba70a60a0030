------------------------------- MODULE FileCopy -------------------------------
(***************************************************************************)
(* What a file transfer promises the client: its copy grows along the      *)
(* file, byte by byte and in order, until the transfer ends, and nothing   *)
(* changes it afterwards.                                                  *)
(***************************************************************************)
EXTENDS Naturals, Sequences

CONSTANT File       \* the bytes of the file

VARIABLES
    copy,           \* what the client has of it
    over            \* the client has stopped

vars == <<copy, over>>

Init ==
    /\ copy = <<>>
    /\ over = FALSE

Grow ==
    /\ ~over
    /\ \E n \in Len(copy) + 1 .. Len(File) : copy' = SubSeq(File, 1, n)
    /\ UNCHANGED over

Stop ==
    /\ ~over
    /\ over' = TRUE
    /\ UNCHANGED copy

Next == Grow \/ Stop

Spec == Init /\ [][Next]_vars
=============================================================================
