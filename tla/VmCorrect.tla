------------------------------- MODULE VmCorrect -------------------------------
(***************************************************************************)
(* What the compiler and the virtual machine together have to do: carry    *)
(* out the meaning of every session (Language).                            *)
(***************************************************************************)
EXTENDS VmFlow, Meaning

VARIABLE promised  \* history: what the session means, fixed

L == INSTANCE Language

PromisedInit == Init /\ promised = MeaningOf(session)
PromisedNext == Next /\ UNCHANGED promised

\* The fairness of Spec: eval does not stop between two instructions.
PromisedSpec ==
    /\ PromisedInit /\ [][PromisedNext]_<<vars, promised>>
    /\ WF_<<vars, promised>>(PromisedNext)

\* Every session is carried out as the language says, to its last line: the
\* machine implements Language, its liveness included.
Promise == L!Spec

\* At any time what was written is the beginning of what was promised.
NothingElseWritten == IsPrefix(log, promised)
=============================================================================
