--------------------------- MODULE MCV1Controller ---------------------------
(* One declaration for each way the two passes can treat a dependency, and a *)
(* tree with a kustomization at its root and one below: alone, and next to a *)
(* symbolic link to an empty file, to another one, and to nothing.           *)
EXTENDS V1Controller, TLC

Plain == [valid |-> TRUE, file |-> "none", tgz |-> FALSE, dir |-> "none",
          remote |-> "available"]

MCDeclared ==
    {Plain,
     [Plain EXCEPT !.remote = "unavailable"],
     [Plain EXCEPT !.valid = FALSE],
     [Plain EXCEPT !.file = "same"],
     [Plain EXCEPT !.file = "other"],
     [Plain EXCEPT !.file = "broken"],
     [Plain EXCEPT !.tgz = TRUE],
     [Plain EXCEPT !.dir = "same"],
     [Plain EXCEPT !.dir = "other"]}

NodeOf(kind, content) == [kind |-> kind, content |-> content]

MCTrees ==
    LET plain == <<"kustomization.yaml">> :> NodeOf("file", "root")
                 @@ <<"base", "kustomization.yaml">> :> NodeOf("file", "base")
                 @@ <<"base", "app">> :> NodeOf("file", "app")
    IN  {plain} \cup {(<<"link">> :> NodeOf("link", content)) @@ plain :
                         content \in {"", "base", "missing"}}

On(path, injections) == [path |-> path, injections |-> injections]
Put(name, content) == [name |-> name, content |-> content]

\* At the root, in a directory, and in one that does not exist: files that
\* replace others or each other, and names that are refused or no files.  And
\* an absolute path, and one that names a file.
MCRequests ==
    {On(<<"/">>, <<>>), On(<<"base", "app">>, <<Put("new", "x")>>)}
    \cup {On(path, injections) :
            path \in {<<>>, <<"base">>, <<"new">>},
            injections \in {
                <<>>,
                <<Put("app", "x"), Put("app", "y")>>,
                <<Put("kustomization.yaml", "x"), Put("new", "y")>>,
                <<Put(".", "x")>>,
                <<Put("..", "x")>>,
                <<Put("app", "x"), Put("", "x")>>,
                <<Put("a/b", "x")>>}}
=============================================================================
