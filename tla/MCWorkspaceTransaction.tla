----------------------- MODULE MCWorkspaceTransaction -----------------------
(* WorkspaceTransaction for TLC: a file to create, to delete, to modify.   *)
EXTENDS WorkspaceTransaction

CONSTANT Kinds  \* the changes a plan of this instance may hold

Old == [content |-> "old", mode |-> "open"]
New == [content |-> "new", mode |-> "open"]
ReadOnly(value) == [value EXCEPT !.mode = "readonly"]
MCChanges == {c \in [before : {Old, ReadOnly(Old), None}, after : {New, ReadOnly(New), None}] :
                \/ "create" \in Kinds /\ c.before = None /\ c.after = New
                \/ "delete" \in Kinds /\ c.before = Old /\ c.after = None
                \/ "modify" \in Kinds /\ c.before = Old /\ c.after = New
                \/ "readonly" \in Kinds /\ c.before = ReadOnly(Old) /\ c.after = ReadOnly(New)}
=============================================================================
