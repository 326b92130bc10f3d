---------------------------- MODULE MCSliceServer ----------------------------
(***************************************************************************)
(* Small sessions for TLC: two tables joined by a foreign key, and one     *)
(* name that is not in the schema.                                         *)
(***************************************************************************)
EXTENDS SliceServer, TLC

CONSTANTS orders, users, ghost

MCNames    == {orders, users, ghost}
MCEntities == {orders, users}
MCEdges    == {[from |-> orders, to |-> users], [from |-> users, to |-> users]}

\* A refused argument, one table, both tables, a table with an unknown name.
MCRequests == {{}, {users}, {orders, users}, {users, ghost}}

\* Slice calls are interchangeable.
CallSymmetry == Permutations(Slices)
=============================================================================
