----------------------------- MODULE MCSysfile -----------------------------
(* File system calls for TLC.                                              *)
EXTENDS Sysfile

CONSTANTS a, b

Abs(elems) == [abs |-> TRUE, elems |-> elems]
Rel(elems) == [abs |-> FALSE, elems |-> elems]

\* With these a process can be in a directory when it is removed.
TreePaths == {Abs(<<>>), Abs(<<a>>), Rel(<<b>>), Rel(<<"..", b>>)}

\* With these several files can be open.  The names are interchangeable.
FlatPaths == {Abs(<<a>>), Abs(<<b>>)}
FlatSymmetry == Permutations(Name)
=============================================================================
