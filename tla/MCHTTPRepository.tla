-------------------------- MODULE MCHTTPRepository --------------------------
(* HTTPRepository for TLC: a root with a file and a directory, which holds  *)
(* an archive, a directory, and a directory that the new index does not     *)
(* list: it is removed, with its object if an earlier sync has looked into  *)
(* it, while the other directory waits for its task.                        *)
EXTENDS HTTPRepository, TLC

CONSTANTS root, dir, file, sub, archive, gone

MCDirs == {root, dir, sub, gone}
MCFiles == {file, archive}
MCEntries == MCDirs \cup MCFiles
MCArchives == {archive}
MCParent == (dir :> root) @@ (file :> root) @@ (sub :> dir) @@ (archive :> dir) @@ (gone :> dir)
MCOnlyOld == {gone}
MCOnlyNew == {archive}
=============================================================================
