--------------------------- MODULE Kustomization ---------------------------
(***************************************************************************)
(* Rendering a kustomization of a git repository.                          *)
(*   internal/service/kustomize, pkg/targz, pkg/filesystem                 *)
(*   internal/service/cache/gitrepositorycache.go (fetchAsTarball,         *)
(*   RetrieveRepositoryToFileSystem)                                       *)
(*                                                                         *)
(* The tree of a commit is packed file by file into an archive, which is   *)
(* cached and unpacked file by file into a file system of the request;     *)
(* the request's manifests are written over it, and kustomize runs on the  *)
(* result.  Requests for the commit follow each other: the archive is all  *)
(* that one leaves to the next.                                            *)
(*                                                                         *)
(* A path is the sequence of its names, after filepath.Clean.              *)
(***************************************************************************)
EXTENDS Sequences, SequencesExt

CONSTANTS
    Trees,     \* trees a commit can have: functions from paths to nodes
    Requests,  \* requests for a kustomization: a path, and injections
    None

Here == "."
Parent == ".."
Nested == "a/b"  \* any name with a separator
Absolute == <<"/">>  \* any absolute path

\* A symbolic link counts as what is found at its end: "missing" stands for
\* nothing at all and for a directory.
Node == [kind : {"file", "link"}, content : STRING]

\* The paths of files: none is a directory on the way to another.
IsTree(t) ==
    /\ t \in [DOMAIN t -> Node]
    /\ \A p \in DOMAIN t :
        /\ p \in Seq(STRING) /\ p # <<>>
        /\ Last(p) \notin {Here, Parent}
        /\ \A q \in DOMAIN t : ~IsStrictPrefix(p, q)

Request ==
    [path : Seq(STRING), injections : Seq([name : STRING, content : STRING])]

VARIABLES
    tree,      \* the tree of the commit
    archive,   \* the cached archive: the paths it has
    stage,     \* how far the request has come
    request,   \* its path and injections
    left,      \* paths that are still to be packed or unpacked
    tarball,   \* the archive it packs or unpacks
    files,     \* fileSystem: the content of each file
    injected,  \* how many injections have been written
    failure    \* why it has failed

vars == <<tree, archive, stage, request, left, tarball, files, injected,
          failure>>

TypeOK ==
    /\ tree \in Trees
    /\ archive \in (SUBSET DOMAIN tree) \cup {None}
    /\ stage \in {"idle", "retrieve", "pack", "unpack", "inject", "rendered",
                  "failed"}
    /\ request \in Requests \cup {None}
    /\ left \subseteq DOMAIN tree
    /\ tarball \subseteq DOMAIN tree
    /\ \A p \in DOMAIN files : p \in Seq(STRING) /\ files[p] \in STRING
    /\ request # None => injected \in 0..Len(request.injections)
    /\ failure \in {None, "absolute", "source", "tree", "render"}

Init ==
    /\ tree \in Trees
    /\ archive = None
    /\ stage = "idle"
    /\ request = None
    /\ left = {}
    /\ tarball = {}
    /\ files = <<>>
    /\ injected = 0
    /\ failure = None

Fail(why) ==
    /\ stage' = "failed"
    /\ failure' = why

\* The directories of a file system exist because of the files below them.
IsDirectory(path) ==
    path = <<>> \/ \E p \in DOMAIN files : IsStrictPrefix(path, p)

\* What the files are after one has been written.
Written(path, content) ==
    [p \in DOMAIN files \cup {path} |->
        IF p = path THEN content ELSE files[p]]

\* filepath.Join of the target path and a file name.
Join(path, name) ==
    IF name = Here THEN path
    ELSE IF name # Parent THEN Append(path, name)
    ELSE IF path = <<>> THEN path ELSE Front(path)

-----------------------------------------------------------------------------
\* Mutant: the file system belongs to the provider.
BeginWithOldFiles ==
    /\ stage \in {"idle", "rendered", "failed"}
    /\ request' \in Requests
    /\ injected' = 0
    /\ IF request'.path = Absolute
       THEN Fail("absolute")
       ELSE stage' = "retrieve" /\ failure' = None
    /\ left' = {}
    /\ tarball' = {}
    /\ UNCHANGED <<tree, archive, files>>

\* Mutant: injections are counted on from the request before.
BeginWithOldCount ==
    /\ stage \in {"idle", "rendered", "failed"}
    /\ request' \in Requests
    /\ files' = <<>>
    /\ IF request'.path = Absolute
       THEN Fail("absolute")
       ELSE stage' = "retrieve" /\ failure' = None
    /\ left' = {}
    /\ tarball' = {}
    /\ UNCHANGED <<tree, archive, injected>>

\* A request gets a file system of its own.
Begin ==
    /\ stage \in {"idle", "rendered", "failed"}
    /\ request' \in Requests
    /\ injected' = 0
    /\ files' = <<>>
    /\ IF request'.path = Absolute
       THEN Fail("absolute")
       ELSE stage' = "retrieve" /\ failure' = None
    /\ left' = {}
    /\ tarball' = {}
    /\ UNCHANGED <<tree, archive>>

\* The repository, the reference or the cache fails, see GitRepositoryCache.
FailToRetrieve ==
    /\ stage = "retrieve"
    /\ Fail("source")
    /\ UNCHANGED <<tree, archive, request, left, tarball, files, injected>>

Hit ==
    /\ stage = "retrieve" /\ archive # None
    /\ stage' = "unpack"
    /\ tarball' = archive
    /\ left' = archive
    /\ UNCHANGED <<tree, archive, request, files, injected, failure>>

Miss ==
    /\ stage = "retrieve" /\ archive = None
    /\ stage' = "pack"
    /\ left' = DOMAIN tree
    /\ UNCHANGED <<tree, archive, request, tarball, files, injected, failure>>

\* A file, or a link to an empty one, whose header fits its content.
PackFile ==
    /\ stage = "pack"
    /\ \E p \in left :
        /\ tree[p].kind = "file" \/ tree[p].content = ""
        /\ tarball' = tarball \cup {p}
        /\ left' = left \ {p}
    /\ UNCHANGED <<tree, archive, stage, request, files, injected, failure>>

\* Mutant: files that cannot be packed are left out.
SkipFile ==
    /\ stage = "pack"
    /\ \E p \in left :
        /\ tree[p].kind = "link" /\ tree[p].content # ""
        /\ left' = left \ {p}
    /\ UNCHANGED <<tree, archive, stage, request, tarball, files, injected,
                   failure>>

\* The header of a link announces no content, so that what is at its end does
\* not fit; or there is nothing at its end to be opened.
FailToPack ==
    /\ stage = "pack"
    /\ \E p \in left : tree[p].kind = "link" /\ tree[p].content # ""
    /\ Fail("tree")
    /\ UNCHANGED <<tree, archive, request, left, tarball, files, injected>>

\* Set may fail, which is logged.
StoreArchive ==
    /\ stage = "pack" /\ left = {}
    /\ archive' \in {tarball, archive}
    /\ stage' = "unpack"
    /\ left' = tarball
    /\ UNCHANGED <<tree, request, tarball, files, injected, failure>>

UnpackFile ==
    /\ stage = "unpack"
    /\ \E p \in left :
        /\ tree[p].kind = "file"
        /\ files' = Written(p, tree[p].content)
        /\ left' = left \ {p}
    /\ UNCHANGED <<tree, archive, stage, request, tarball, injected, failure>>

\* The entry of a link is of an unsupported type.
FailToUnpack ==
    /\ stage = "unpack"
    /\ \E p \in left : tree[p].kind = "link"
    /\ Fail("tree")
    /\ UNCHANGED <<tree, archive, request, left, tarball, files, injected>>

EndUnpack ==
    /\ stage = "unpack" /\ left = {}
    /\ stage' = "inject"
    /\ UNCHANGED <<tree, archive, request, left, tarball, files, injected,
                   failure>>

-----------------------------------------------------------------------------
Current == request.injections[injected + 1]

Pending == stage = "inject" /\ injected < Len(request.injections)

InjectedPath == Join(request.path, Current.name)

Legal == Current.name \notin {"", Nested}

\* WriteFile makes the directories it needs; no file can be one of them.
Inject ==
    /\ Pending /\ Legal
    /\ ~IsDirectory(InjectedPath)
    /\ \A p \in DOMAIN files : ~IsStrictPrefix(p, InjectedPath)
    /\ files' = Written(InjectedPath, Current.content)
    /\ injected' = injected + 1
    /\ UNCHANGED <<tree, archive, stage, request, left, tarball, failure>>

\* "." and ".." name directories: what is written there is no file.
InjectIntoDirectory ==
    /\ Pending /\ Legal
    /\ IsDirectory(InjectedPath)
    /\ injected' = injected + 1
    /\ UNCHANGED <<tree, archive, stage, request, left, tarball, files,
                   failure>>

FailToInject ==
    /\ Pending
    /\ \/ ~Legal
       \/ IsDirectory(InjectedPath)
       \/ \E p \in DOMAIN files : IsStrictPrefix(p, InjectedPath)
    /\ Fail("render")
    /\ UNCHANGED <<tree, archive, request, left, tarball, files, injected>>

\* kustomizer.Run finds a kustomization, and its output can be parsed.
Run ==
    /\ stage = "inject" /\ ~Pending
    /\ Append(request.path, "kustomization.yaml") \in DOMAIN files
    /\ stage' = "rendered"
    /\ UNCHANGED <<tree, archive, request, left, tarball, files, injected,
                   failure>>

FailToRun ==
    /\ stage = "inject" /\ ~Pending
    /\ Fail("render")
    /\ UNCHANGED <<tree, archive, request, left, tarball, files, injected>>

\* The cache loses the archive, see ByteCache.
Expire ==
    /\ archive # None
    /\ archive' = None
    /\ UNCHANGED <<tree, stage, request, left, tarball, files, injected,
                   failure>>

Step ==
    \/ FailToRetrieve
    \/ Hit
    \/ Miss
    \/ PackFile
    \/ FailToPack
    \/ StoreArchive
    \/ UnpackFile
    \/ FailToUnpack
    \/ EndUnpack
    \/ Inject
    \/ InjectIntoDirectory
    \/ FailToInject
    \/ Run
    \/ FailToRun

Next == Begin \/ Step \/ Expire

Spec == Init /\ [][Next]_vars

-----------------------------------------------------------------------------
\* What has been injected under a name: the last wins (kustomizationrenderer.go
\* writes them one after the other).
InjectionsOf(name) ==
    {i \in 1..injected : request.injections[i].name = name}

\* Kustomize runs on the tree of the commit, changed only where this request
\* has injected a file, and that is directly below its path: no injection of an
\* earlier request is left, none reaches another directory, and no file of the
\* tree is missing.
KustomizeSeesTheTree ==
    stage = "rendered" =>
        \A p \in DOMAIN tree \cup DOMAIN files :
            LET mine == IF p # <<>> /\ Front(p) = request.path
                        THEN InjectionsOf(Last(p)) ELSE {}
            IN  /\ p \in DOMAIN files
                /\ IF mine # {}
                   THEN \E i \in mine :
                            /\ \A j \in mine : j <= i
                            /\ files[p] = request.injections[i].content
                   ELSE p \in DOMAIN tree /\ files[p] = tree[p].content

\* An archive that is cached has the whole tree: a tree that cannot be packed
\* to its end (a symbolic link is enough, targz.go:192) is not served in part
\* to this request or to any after it.
ArchivesAreWhole ==
    /\ archive # None => archive = DOMAIN tree
    /\ stage \in {"unpack", "inject", "rendered"} => tarball = DOMAIN tree
=============================================================================
