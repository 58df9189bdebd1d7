------------------------ MODULE MCDirectoryMutations ------------------------
(* Programs for the runs of DirectoryMutations: a file renamed, a directory  *)
(* captured and made anew, and a recursive mkdir.                            *)
EXTENDS DirectoryMutations, TLC

MCParent == "a" :> Top @@ "b" :> Top @@ "d" :> Top @@ "q" :> Top @@ "m" :> Top @@ "m/n" :> "m"

At(kind, ino) == [kind |-> kind, ino |-> ino]
MCInitially == "a" :> At("file", 1) @@ "d" :> At("directory", 2)
               @@ [p \in {"b", "q", "m", "m/n"} |-> At("absent", 0)]

Step(op, path, to) == [op |-> op, path |-> path, to |-> to]
Make(path) == Step("make", path, path)
Rename == <<Step("rename", "a", "b")>>
Exchange == <<Step("capture", "d", "q"), Make("d")>>
Recursive == <<Make("m"), Make("m/n")>>

MCPrograms == {Rename, Exchange, Recursive}
=============================================================================
