------------------------------- MODULE Language -------------------------------
(***************************************************************************)
(* What a process promises its user: the lines that the inputs mean, in    *)
(* order, every one of them and nothing else.                              *)
(***************************************************************************)
EXTENDS Naturals, Sequences

VARIABLES
    promised,  \* the lines the inputs mean
    log        \* the lines that have been written

lines == <<promised, log>>

Init == log = <<>>

\* The next line that was promised is written.
Write ==
    /\ Len(log) < Len(promised)
    /\ log' = Append(log, promised[Len(log) + 1])
    /\ UNCHANGED promised

Spec == Init /\ [][Write]_lines /\ WF_lines(Write)
=============================================================================
