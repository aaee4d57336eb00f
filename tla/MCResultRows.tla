---------------------------- MODULE MCResultRows ----------------------------
(* ResultRows with two files and one whose path is not valid UTF-8, names and *)
(* sizes that sort them differently, and a file that is listed twice.         *)
EXTENDS ResultRows, TLC

CONSTANTS a, b, u, name, size

Name == (a :> 0) @@ (b :> 1) @@ (u :> 1)
Size == (a :> 1) @@ (b :> 2) @@ (u :> 0)

Entry(path) == [path |-> path, key |-> (name :> Name[path]) @@ (size :> Size[path])]

List(paths) == [i \in DOMAIN paths |-> Entry(paths[i])]

ResultLists == {List(paths) : paths \in {<<b, a>>, <<a, u>>, <<b, a, b>>, <<u>>}}
=============================================================================
