------------------------------ MODULE LayerMerge ------------------------------
(***************************************************************************)
(* mergeLayerWithWhiteouts and copyFile (cmd/aetheria-agent/oci.go): one   *)
(* layer, extracted to a directory of its own, is walked in lexical order  *)
(* and merged into the rootfs, whiteouts included.                         *)
(*                                                                         *)
(* A path is a sequence of names, a name a number that is its place in the *)
(* lexical order; all files that start with ".wh." come at place Wh, so    *)
(* that ".bashrc" is a name before Wh, and "bin" one after it.             *)
(***************************************************************************)
EXTENDS Naturals, Sequences, SequencesExt

CONSTANTS
    Paths,    \* closed under parents; the root is <<>>
    Wh,
    LinkTo    \* what every symbolic link points to: never a directory

ASSUME LayerAssumption ==
    /\ Wh \in Nat /\ Paths \subseteq Seq(Nat \ {Wh}) /\ <<>> \notin Paths
    /\ \A p \in Paths : \A i \in 1..Len(p) : SubSeq(p, 1, i) \in Paths
    /\ LinkTo \in Paths

VARIABLES
    base,  \* history: the rootfs before the merge
    layer, \* the layer's tree, what it has whiteouts for, its opaque directories
    fs,    \* the rootfs
    todo,  \* what is left of the walk
    failed \* the walk returned an error

mergeVars == <<base, layer, fs, todo, failed>>

\* What a path can be: nothing, a directory, a link, or a file: the rootfs's
\* own ("old") or the layer's ("new").
Nodes == {"none", "dir", "link", "old", "new"}
Files == {"old", "new"}

Below(d) == {p \in Paths : IsStrictPrefix(d, p)}
Children(d) == {p \in Below(d) : Front(p) = d}
Trees(nodes) ==
    {t \in [Paths -> nodes] :
       /\ t[LinkTo] # "dir"
       /\ \A p \in Paths : t[p] # "none" => \A d \in Paths : p \in Below(d) => t[d] = "dir"}

-----------------------------------------------------------------------------
\* Whiteouts and opaque markers stand in directories of the layer.
Dirs(t) == {p \in Paths : t[p] = "dir"} \cup {<<>>}
LayerTrees ==
    UNION {[node : {t}, wh : SUBSET UNION {Children(d) : d \in Dirs(t)}, opq : SUBSET Dirs(t)]
             : t \in Trees(Nodes \ {"old"})}

\* What the markers of a layer hide of the rootfs.
Hidden(l) == (UNION {{p} \cup Below(p) : p \in l.wh}) \cup (UNION {Below(d) : d \in l.opq})

\* Does the walk meet the markers before what they would hide of the layer?
MarkersBefore(l) ==
    \A p \in Paths : /\ l.node[p] # "none"
                     /\ p \in l.wh \/ Front(p) \in l.opq
                     => Last(p) > Wh

\* The layer replaces files with files, directories with directories...
SameKinds(b, l) ==
    \A p \in Paths \ Hidden(l) :
        l.node[p] = "none" \/ b[p] \in {"none", l.node[p]} \/ {b[p], l.node[p]} = Files

\* The walk: the layer's nodes, and its markers where they stand in the order.
Entries(l) ==
    {[kind |-> "node", path |-> p] : p \in {q \in Paths : l.node[q] # "none"}}
      \cup {[kind |-> "wh", path |-> p] : p \in l.wh}
      \cup {[kind |-> "opq", path |-> d] : d \in l.opq}

Key(e) ==
    CASE e.kind = "wh"   -> Front(e.path) \o <<Wh, Last(e.path)>>
      [] e.kind = "opq"  -> Append(e.path, Wh)
      [] e.kind = "node" -> e.path

\* Lexical order, a directory before what is in it.
Precedes(a, b) ==
    \/ IsStrictPrefix(a, b)
    \/ \E i \in 1..Len(a) : /\ i <= Len(b) /\ a[i] < b[i]
                            /\ SubSeq(a, 1, i - 1) = SubSeq(b, 1, i - 1)

MergeInit ==
    /\ base \in Trees(Nodes \ {"new"})
    /\ layer \in LayerTrees
    /\ fs = base /\ todo = Entries(layer) /\ failed = FALSE

-----------------------------------------------------------------------------
\* The entry that the walk comes to, and what is left of the walk after it.
At(e) ==
    /\ e \in todo /\ ~failed
    /\ \A f \in todo \ {e} : Precedes(Key(e), Key(f))
    /\ todo' = todo \ {e}

Removed(S) == [p \in Paths |-> IF p \in S THEN "none" ELSE fs[p]]

\* What an opaque marker removes.  (mutants: its files only;
\* the directory too)
OpaqueFiles(d) == {p \in Children(d) : fs[p] # "dir"}
OpaqueSelf(d) == {d} \cup Below(d)
OpaqueAll(d) == Below(d)

\* What a whiteout removes.  (mutant: os.Remove, of a file or an empty directory)
WhiteoutOne(p) == IF \E q \in Below(p) : fs[q] # "none" THEN {} ELSE {p}
WhiteoutAll(p) == {p} \cup Below(p)

Opaque(d) ==
    /\ At([kind |-> "opq", path |-> d])
    /\ fs' = Removed(OpaqueAll(d))
    /\ UNCHANGED <<base, layer, failed>>

Whiteout(p) ==
    /\ At([kind |-> "wh", path |-> p])
    /\ fs' = Removed(WhiteoutAll(p))
    /\ UNCHANGED <<base, layer, failed>>

Fails ==
    /\ failed' = TRUE
    /\ UNCHANGED <<base, layer, fs>>

\* os.MkdirAll: what is there must be a directory.
MakeDir(p) ==
    /\ layer.node[p] = "dir" /\ At([kind |-> "node", path |-> p])
    /\ fs[p] \in {"none", "dir"}
    /\ fs' = [fs EXCEPT ![p] = "dir"]
    /\ UNCHANGED <<base, layer, failed>>

MakeDirFails(p) ==
    /\ layer.node[p] = "dir" /\ At([kind |-> "node", path |-> p])
    /\ fs[p] \notin {"none", "dir"}
    /\ Fails

\* os.Remove spares a directory with something in it, and os.Symlink fails
\* when something is left.  (mutant: no os.Remove)
InTheWayAny(p) == fs[p] # "none"
InTheWay(p) == \E q \in Below(p) : fs[q] # "none"

MakeLink(p) ==
    /\ layer.node[p] = "link" /\ At([kind |-> "node", path |-> p])
    /\ ~InTheWay(p)
    /\ fs' = [fs EXCEPT ![p] = "link"]
    /\ UNCHANGED <<base, layer, failed>>

MakeLinkFails(p) ==
    /\ layer.node[p] = "link" /\ At([kind |-> "node", path |-> p])
    /\ InTheWay(p)
    /\ Fails

\* os.OpenFile: a link is followed; a directory is refused, and a path without one.
Opened(p) == IF fs[p] = "link" THEN LinkTo ELSE p
Opens(p) ==
    /\ fs[Opened(p)] \notin {"dir", "link"}
    /\ \A d \in Paths : Opened(p) \in Below(d) => fs[d] = "dir"

CopyFile(p) ==
    /\ layer.node[p] = "new" /\ At([kind |-> "node", path |-> p])
    /\ Opens(p)
    /\ fs' = [fs EXCEPT ![Opened(p)] = "new"]
    /\ UNCHANGED <<base, layer, failed>>

CopyFileFails(p) ==
    /\ layer.node[p] = "new" /\ At([kind |-> "node", path |-> p])
    /\ ~Opens(p)
    /\ Fails

MergeNext ==
    \/ \E d \in Paths \cup {<<>>} : Opaque(d)
    \/ \E p \in Paths :
         \/ Whiteout(p)
         \/ MakeDir(p) \/ MakeDirFails(p)
         \/ MakeLink(p) \/ MakeLinkFails(p)
         \/ CopyFile(p) \/ CopyFileFails(p)

MergeSpec == MergeInit /\ [][MergeNext]_mergeVars

-----------------------------------------------------------------------------
\* The rootfs remains a tree; the walk is what is left of the layer's.
MergeTypeOK ==
    /\ fs \in Trees(Nodes)
    /\ todo \in SUBSET Entries(layer) /\ failed \in BOOLEAN

\* What the rootfs becomes by the image specification: the layer's nodes,
\* and of the rootfs what no marker hides and no file or link replaces.
Merged(b, l) ==
    [p \in Paths |->
       IF l.node[p] # "none" THEN l.node[p]
       ELSE IF p \in Hidden(l)
               \/ \E q \in Paths : p \in Below(q) /\ l.node[q] \in {"link", "new"}
            THEN "none"
       ELSE b[p]]

\* A layer is merged as the image specification says: nothing of the rootfs that
\* it hides is left, nothing else is lost. Not so a layer with a name that the
\* walk comes to before the marker beside it, or one that changes what a path is
\* without a marker (oci.go:533, oci.go:567).
MergeCorrect ==
    todo = {} /\ ~failed /\ MarkersBefore(layer) /\ SameKinds(base, layer)
        => fs = Merged(base, layer)

\* A step of the walk fails only on a layer that turns what is in the rootfs
\* into something else without a marker that the walk came to before; each such
\* failure is one of the image's pull, for ever (oci.go:523).
FailsByKind == failed => ~(MarkersBefore(layer) /\ SameKinds(base, layer))
==============================================================================
