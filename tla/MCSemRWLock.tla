----------------------------- MODULE MCSemRWLock ----------------------------
(* SemRWLock for TLC: model values for the processes, and their symmetry.  *)
EXTENDS SemRWLock, TLC

CONSTANT Watched    \* whom the liveness run follows: the processes are alike

ProcSymmetry == Permutations(Proc)

\* Under PreferRead no sleeping reader starves, if no P fails.
ReaderServed == \A p \in Watched : ReaderServedAt(p)

\* Under PreferWrite no sleeping writer starves, if no P fails.
WriterServed == \A p \in Watched : WriterServedAt(p)

=============================================================================
