--------------------------- MODULE MCContentTree ---------------------------
(* Bounded instances of ContentTree for TLC. *)
EXTENDS ContentTreeProps, TLC

CONSTANTS c1, c2, f1, f2, f3, r1

cmd(k, i, c, f) == [kind |-> k, id |-> i, coll |-> c, folder |-> f]

Creates ==
  {cmd("create", c, None, None) : c \in Collection}
    \cup {d \in [kind: {"create"}, id: Folder \cup Request,
                 coll: Collection, folder: Folder \cup {None}] : d.folder # d.id}
Deletes == {cmd("delete", i, None, Keep) : i \in Item}
Renames == {cmd("update", c, None, Keep) : c \in Collection}
FolderMoves == {cmd("update", f, None, g) : f \in Folder, g \in Folder \cup {None}}
RequestMoves ==
  {cmd("update", r, c, f) : r \in Request, c \in Collection \cup {None},
                            f \in Folder \cup {None, Keep}}

AllCommands == Creates \cup Deletes \cup Renames \cup FolderMoves \cup RequestMoves
FolderDeletes == {d \in Deletes : d.id \in Folder}
FoldersOnly == {d \in Creates : d.id \notin Request} \cup FolderMoves \cup FolderDeletes
MovesAndFolderDeletes == Creates \cup RequestMoves \cup FolderMoves \cup FolderDeletes

Ids == [f \in Folder |-> CASE f = f1 -> 1 [] f = f2 -> 2 [] OTHER -> 3]

\* Ids of one kind, and slots, are interchangeable: the command sets are closed
\* under their permutation, and no step looks at the order of folder ids.  Only
\* OrphansOnlyInPassing does, for the folders of a deleted collection, where its
\* value is the same in every order.
Symmetry == {a @@ b @@ c : a \in Permutations(Collection), b \in Permutations(Folder),
                           c \in Permutations(Slot)}
=============================================================================
