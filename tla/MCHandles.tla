----------------------------- MODULE MCHandles -----------------------------
EXTENDS IoHandle, TLC

CONSTANTS p1, p2, f1, f2

(* a reader that lets others read only, and a writer that truncates and    *)
(* lets others do anything                                                 *)
Reader == [ops |-> {"read"}, share |-> {"read"}, trunc |-> FALSE]
Writer == [ops |-> {"read", "write"}, share |-> Access, trunc |-> TRUE]

MCModes == {Reader, Writer}

Symm == Permutations(Proc)
=============================================================================
