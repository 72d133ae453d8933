------------------------------ MODULE FileTree ------------------------------
(***************************************************************************)
(* The tree of the files of the repository (filesystem/layerfile.go): how  *)
(* a FileStore grows line by line from the list of the repository, and     *)
(* what collectRepoVersionList makes of it: the versions shown on the web  *)
(* site and the files the monitor asks the mirrors for.                    *)
(*                                                                         *)
(* A path is the tuple of its components.  A node of the tree is known by  *)
(* the path under which it was created, the address of the LayerFile; its  *)
(* content holds the path (Dir and Name) the node says it is about and its *)
(* ModTime.                                                                *)
(***************************************************************************)
EXTENDS Naturals, Sequences, SequencesExt, FiniteSets, Functions

CONSTANTS
    SecondDir, ThirdDir,   \* RepositoryFilter: scenarios and architectures
    SourcePath,            \* the paths of its particular files
    Endings, Beginnings,   \* <<n, m>>: the name n ends, or begins, with m # n
    Iso,                   \* the names that end in .iso
    PreReleaseVersion,     \* the version that is not shown yet
    Maintained             \* a ModTime after this one is less than seven months old

\* A line of the list: a path and its time, 0 if the time cannot be parsed.
\* (Sizes and hashes go the way of the time.)
Line == [path : Seq(STRING), mod : Nat]

\* The rules of the filter, as InitPathFilter makes them.
pathFilter == {<<v1, v2>> : v1 \in SecondDir, v2 \in ThirdDir} \cup SourcePath

ASSUME FileTreeAssumption == \A rule \in SourcePath : rule \in Seq(STRING) /\ Len(rule) >= 2

\* strings.Contains: a rule is found anywhere in a path, and its first and its last
\* name may be the end and the beginning of names of the path.
Matches(path, rule) ==
    \E i \in 0..(Len(path) - Len(rule)) : \A j \in DOMAIN rule :
        \/ path[i + j] = rule[j]
        \/ j = 1 /\ <<path[i + j], rule[j]>> \in Endings
        \/ j = Len(rule) /\ <<path[i + j], rule[j]>> \in Beginnings

\* Filter, and the prefix of the version that is not released.  A directory that
\* contains a rule passes like a file, except in the scenarios where only .iso
\* files do.  (Paths that are not below a version and names that end in .sha256,
\* which Filter rejects first, are left out of the lists.)
Filter(path) ==
    /\ path[1] # PreReleaseVersion
    /\ \E rule \in pathFilter : Matches(path, rule)
    /\ path[2] \in {"ISO", "edge_img"} => Last(path) \in Iso

\* The paths of the files that a list puts into the index.
Indexed(list) == {line.path : line \in {l \in Range(list) : Filter(l.path)}}

\* The path and the directories above it.
Ancestry(path) == Prefixes(path) \ {<< >>}

\* An empty FileStore.  Besides Mapping and SelectorMap it keeps the order in
\* which nodes were created, which is the order of every Sub; the list holds the
\* content of a directory in one piece, so a depth-first walk keeps it too.
NoFiles == [mapping |-> << >>, order |-> << >>, selector |-> << >>]

\* The elements of seq that are in S.
Among(seq, S) ==
    FoldLeft(LAMBDA kept, x : IF x \in S THEN Append(kept, x) ELSE kept, << >>, seq)

\* A node is a directory for the code if it has something in its Sub.  The type in
\* the line is not kept: an empty directory that passes the filter is a file.
IsDir(store, p) == \E q \in DOMAIN store.mapping : Len(q) > 1 /\ Front(q) = p

-----------------------------------------------------------------------------
\* setRecentFile, if the time was parsed.
setRecentFile(store, path, mod) ==
    LET v == path[1]
    IN IF mod = 0 \/ (v \in DOMAIN store.selector /\ mod < store.mapping[store.selector[v]].mod)
       THEN store.selector
       ELSE [u \in DOMAIN store.selector \cup {v} |-> IF u = v THEN path ELSE store.selector[u]]

\* layeringPath and setFileData: the nodes of the path that are missing are
\* created and appended to their parents; the last one gets the data of the line.
\* (No path is listed twice, and a directory is listed before what it holds.)
BuildFileTree(store, line) ==
    LET missing == Ancestry(line.path) \ DOMAIN store.mapping
        node(p) == [path |-> p, mod |-> IF p = line.path THEN line.mod ELSE 0]
    IN [mapping |-> [p \in missing \cup DOMAIN store.mapping |->
                        IF p \in missing THEN node(p) ELSE store.mapping[p]],
        order |-> store.order
                  \o Among([i \in DOMAIN line.path |-> SubSeq(line.path, 1, i)], missing),
        selector |-> setRecentFile(store, line.path, line.mod)]

-----------------------------------------------------------------------------
\* The files below some directories, in the order dfsEveryFile meets them.
Leaves(store, dirs) ==
    Among(store.order, {q \in DOMAIN store.mapping :
                            ~IsDir(store, q) /\ \E d \in dirs : IsPrefix(d, q)})

dfsFirstFile(store, p) == Head(Leaves(store, {p}))

\* dfsEveryFile(file): *file = *ft for every file ft that is later, so that the
\* node of file ends up with the content of the latest one.
Newest(store, files, file) ==
    LET mod(q) == store.mapping[q].mod
        latest == {i \in DOMAIN files : \A j \in DOMAIN files : mod(files[j]) <= mod(files[i])}
        q == files[CHOOSE i \in latest : \A j \in latest : i <= j]
    IN IF files # << >> /\ mod(q) > mod(file)
       THEN [store EXCEPT !.mapping[file] = store.mapping[q]]
       ELSE store

checkRepoScenario(store, v) == {s \in SecondDir : <<v, s>> \in DOMAIN store.mapping}
checkRepoArch(store, v) ==
    {a \in ThirdDir : \E s \in checkRepoScenario(store, v) : <<v, s, a>> \in DOMAIN store.mapping}

selectEveryScenarioArchDir(store, v) ==
    {<<v, s, a>> : s \in SecondDir, a \in ThirdDir} \cap DOMAIN store.mapping

\* Mutant: the most recent entry is selected, file or directory.
CollectVersionEntry(acc, v) ==
    IF v \notin DOMAIN acc.store.selector THEN acc
    ELSE [store |-> acc.store,
          selected |-> acc.selected \o <<acc.store.selector[v]>>
                       \o Leaves(acc.store, selectEveryScenarioArchDir(acc.store, v))]

\* What the loop of collectRepoVersionList does for the version v: the most
\* recent entry, or the most recent file in it if it is a directory, is p and
\* is selected first; then every file of a version that is maintained, and p
\* once per directory of another one (dfsFirstFile of p, a file, is p).
CollectVersion(acc, v) ==
    LET entry == acc.store.selector[v]
        p == dfsFirstFile(acc.store, entry)
        store == IF IsDir(acc.store, entry)
                 THEN Newest(acc.store, Leaves(acc.store, {entry}), p) ELSE acc.store
        dirs == selectEveryScenarioArchDir(store, v)
        files == Leaves(store, dirs)
    IN IF v \notin DOMAIN acc.store.selector THEN acc
       ELSE IF store.mapping[p].mod > Maintained
       THEN [store |-> store, selected |-> acc.selected \o <<p>> \o files]
       ELSE [store |-> Newest(store, files, p),
             selected |-> acc.selected \o <<p>> \o [i \in 1..Cardinality(dirs) |-> p]]

\* The nodes of the versions with an architecture.
Versions(store) ==
    {p \in DOMAIN store.mapping : Len(p) = 1 /\ checkRepoArch(store, Head(p)) # {}}

\* What is shown of them; the website shows x86-64 as x86_64.  (The scenarios and
\* architectures that particular files add are shown too, and used for nothing.)
RepoVersionList(store) ==
    {[version |-> Head(p), scenario |-> checkRepoScenario(store, Head(p)),
      arch |-> {IF a = "x86-64" THEN "x86_64" ELSE a : a \in checkRepoArch(store, Head(p))}] :
        p \in Versions(store)}

\* collectRepoVersionList: the store, which it may change, and selectorList.
collectRepoVersionList(store) ==
    FoldLeft(LAMBDA acc, p : CollectVersion(acc, Head(p)),
             [store |-> store, selected |-> << >>], Among(store.order, Versions(store)))
=============================================================================
