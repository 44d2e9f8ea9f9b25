----------------------------- MODULE ImageProofs -----------------------------
(***************************************************************************)
(* Proofs about the two modules of a pull.                                 *)
(*                                                                         *)
(* ImageStore: types, and: every container runs on a complete image,       *)
(* except where the code takes a broken one for complete, and a new        *)
(* container gets what was pulled last, whatever the number of tags,       *)
(* digests, layers, containers and restarts.  A pull writes only a         *)
(* directory without marker; a marker is written only on a complete one;   *)
(* and whatever is looked up, registered or mounted bears a marker, is the *)
(* built-in image, or broken.                                              *)
(*                                                                         *)
(* LayerMerge: for all paths, layers and rootfs, the rootfs stays a tree,  *)
(* and a layer that keeps the kinds of what it replaces, its markers       *)
(* first, is merged as Merged says.  The walk has met all that comes       *)
(* before what is left of it; a marker's place is before all or after all  *)
(* of what it hides; so a node finds what it replaces in place or hidden,  *)
(* in directories that the walk has made.                                  *)
(***************************************************************************)
EXTENDS ImageStore, LayerMerge, SequenceTheorems, TLAPS

PullPcs == {"idle", "pull", "layers", "fetch", "merge", "unpack", "mount"}
LayerPcs == {"layers", "fetch", "merge"}
Ops == [pc : PullPcs, name : Names \cup {NoName}, ctr : Containers \cup {NoContainer},
        base : Bases \cup {NoBase}, dest : Bases \cup {NoBase}, layer : 1..Layers + 1]

\* TypeOK with a name for the operations, and what each stage of one has.
OpTypes ==
    /\ op \in Ops
    /\ op.pc # "idle" => op.name \in Names
    /\ op.pc \in LayerPcs =>
          op.name \in Tags /\ op.dest \in Digests /\ content[op.dest] <= op.layer
    /\ op.pc \in {"fetch", "merge"} => op.layer <= Layers
    /\ op.pc = "unpack" => op.dest \in Bases
    /\ op.pc = "mount" => op.ctr \in Containers

Types ==
    /\ TypeOK
    /\ OpTypes

\* The first directory of a listing is one of it.
LEMMA FirstIsListed ==
    ASSUME NEW D \in SUBSET Digests, D # {}
    PROVE  FirstOf(D) \in D
  BY ListingAssumption DEF FirstOf

\* What is looked up is a directory of the cache, or none.
LEMMA LookupTypes ==
    ASSUME TypeOK, NEW n
    PROVE  /\ Lookup \in Digests \cup {NoBase}
           /\ ExtractPath(n) \in Bases \cup {NoBase}
           /\ ExtractPath(Builtin) \in Bases
  BY FirstIsListed DEF TypeOK, Lookup, ExtractPath, Bases

\* A full rootfs is within the type of content.
LEMMA FullTypes ==
    ASSUME NEW b \in Bases
    PROVE  /\ Full(b) \in 0..Layers + 1
           /\ 1 \in 0..Layers + 1
           /\ Full(b) > 1
  BY ImageAssumption, SMT DEF Full

\* The idle operation is one, and every image has a first layer.
LEMMA IdleTypes ==
    /\ 1 \in 1..Layers + 1
    /\ Idle \in Ops
<1>1. 1 \in 1..Layers + 1
  BY ImageAssumption
<1> QED
  BY <1>1 DEF Idle, Ops, PullPcs

\* The idle operation, and the one with which a pull goes on, are operations.
LEMMA ContinueTypes ==
    ASSUME Types, op.pc # "idle"
    PROVE  /\ Idle \in Ops
           /\ Continue \in Ops
           /\ Continue.pc \in {"idle", "mount"}
           /\ Continue.pc = "mount" => Continue.ctr \in Containers /\ Continue.name \in Names
           /\ Continue.base \in {op.base, NoBase}
  BY IdleTypes DEF Types, OpTypes, Ops, PullPcs, Idle, Continue

\* The bases that are complete as far as the code can tell.
Sound == marker \cup broken \cup {NoBase}

\* While a pull merges layers, its directory bears no marker, and has the
\* layers before the one at hand; an empty rootfs is one of before the first.
Begun == op.pc = "merge" \/ op.layer > 1
Merging ==
    op.pc \in LayerPcs =>
        /\ op.dest \notin marker
        /\ Begun => content[op.dest] > 0
        /\ Begun /\ op.dest \notin broken => content[op.dest] = op.layer
        /\ op.pc = "merge" => files[op.dest][op.layer] = "whole"

\* No layer is there in part.
FilesWhole == \A d \in Digests, i \in 1..Layers : files[d][i] \in {"none", "whole"}

\* Markers are true, and all that is in use bears one or is broken.
Backed ==
    /\ \A d \in marker : content[d] > 0 /\ (d \in broken \/ content[d] = Full(d))
    /\ entry \in Sound
    /\ op.base \in Sound \cup {Builtin}
    /\ op.pc = "unpack" => op.dest \notin marker
    /\ FilesWhole
    /\ Merging
    /\ \A c \in Containers : lower[c] \in Sound \cup {Builtin}

\* The built-in image, which bears no marker, is complete where it has been
\* unpacked and where it is mounted, or about to be.
Unpacking == op.pc = "unpack" /\ op.dest = Builtin
BuiltinBacked ==
    /\ Builtin \notin broken /\ ~Unpacking => content[Builtin] \in {0, Full(Builtin)}
    /\ \A c \in Containers : Builtin \notin broken /\ lower[c] = Builtin
                                => content[Builtin] = Full(Builtin)
    /\ op.base = Builtin => op.name = Builtin
    /\ op.base = Builtin /\ op.pc = "pull" => ExtractPath(Builtin) = Builtin
    /\ op.base = Builtin /\ op.pc = "unpack" => op.dest = Builtin
    /\ op.base = Builtin /\ op.pc = "mount" /\ Builtin \notin broken
          => content[Builtin] = Full(Builtin)

Inv == Types /\ Backed /\ BuiltinBacked
-----------------------------------------------------------------------------
\* Every step keeps the types.
LEMMA TypesStep ==
    ASSUME Types, [Next]_vars
    PROVE  Types'
<1> USE ImageAssumption
<1>1. CASE UNCHANGED vars
  BY <1>1 DEF Types, TypeOK, OpTypes, vars, Full
<1>2. ASSUME NEW n \in Names, PullRpc(n) PROVE Types'
  BY <1>2 DEF PullRpc, Types, TypeOK, OpTypes, Ops, PullPcs, LayerPcs, Idle, cacheVars, ctrVars,
              envVars, history, Names, Bases
<1>3. ASSUME NEW c \in Containers, NEW n \in Names, Prepare(c, n) PROVE Types'
  <2>1. op' \in Ops /\ op'.pc \in {"mount", "pull"} /\ op'.name = n /\ op'.ctr = c
    BY <1>3, LookupTypes, IdleTypes DEF Prepare, Types, Ops, PullPcs, Idle, Bases
  <2>2. entry' \in Digests \cup {NoBase}
    BY <1>3, LookupTypes DEF Prepare, Types, TypeOK
  <2>3. UNCHANGED <<content, marker, token, files, tarball, lower, image, registry, restarts,
                    pushes, pulled, broken>>
    BY <1>3 DEF Prepare, ctrVars, envVars, history
  <2> QED
    BY <2>1, <2>2, <2>3 DEF Types, TypeOK, OpTypes, Ops, PullPcs, LayerPcs
<1>4. CASE PullCached
  <2>1. op' \in Ops /\ op'.pc \in {"idle", "mount"}
          /\ (op'.pc = "mount" => op'.ctr \in Containers /\ op'.name \in Names)
    BY <1>4, ContinueTypes DEF PullCached
  <2>2. entry' \in Digests \cup {NoBase} /\ pulled' \in Digests \cup {NoBase}
    BY <1>4 DEF PullCached, Cached, Registered, Types, TypeOK
  <2>3. UNCHANGED <<content, marker, token, files, tarball, lower, image, broken, registry, restarts, pushes>>
    BY <1>4 DEF PullCached, ctrVars, envVars
  <2> QED
    BY <2>1, <2>2, <2>3 DEF Types, TypeOK, OpTypes, Ops, PullPcs, LayerPcs
<1>5. CASE PullFresh
  <2>1. /\ op' \in Ops /\ op'.pc = "layers" /\ op'.dest \in Digests /\ op'.name \in Tags
        /\ op'.layer = 1 /\ content'[op'.dest] = 0
    <3>1. /\ op \in Ops /\ op.pc = "pull" /\ op.name \in Tags
          /\ Manifest(op.name) \in Digests /\ Digests \subseteq Bases
          /\ op' = [op EXCEPT !.pc = "layers", !.dest = Manifest(op.name), !.layer = 1]
          /\ content' = [content EXCEPT ![Manifest(op.name)] = 0]
      BY <1>5 DEF PullFresh, Manifest, Types, TypeOK, OpTypes, Bases
    <3>2. op' \in Ops /\ op'.pc = "layers" /\ op'.dest = Manifest(op.name)
            /\ op'.name = op.name /\ op'.layer = 1
      BY <3>1, IdleTypes DEF Ops, PullPcs
    <3> QED
      BY <3>1, <3>2 DEF Types, TypeOK
  <2>2. content' \in [Bases -> 0..Layers + 1]
    BY <1>5, 0 \in 0..Layers + 1 DEF PullFresh, Types, TypeOK
  <2>3. UNCHANGED <<marker, token, files, tarball, entry, lower, image, registry,
                    restarts, pushes, pulled, broken>>
    BY <1>5 DEF PullFresh, ctrVars, envVars, history
  <2>4. TypeOK'
    BY <2>1, <2>2, <2>3 DEF Types, TypeOK, Ops, PullPcs
  <2>5. OpTypes'
    BY <2>1, <2>3 DEF OpTypes, LayerPcs, Names
  <2> QED
    BY <2>4, <2>5 DEF Types
<1>6. CASE MergeLayer
  <2>1. /\ op.dest \in Bases /\ op.dest \in Digests /\ op.name \in Tags
        /\ content[op.dest] \in Nat /\ content[op.dest] <= op.layer
        /\ op.layer \in 1..Layers
    BY <1>6 DEF MergeLayer, Types, TypeOK, OpTypes, Ops, LayerPcs, Bases
  <2>2. content[op.dest] + 1 \in 0..Layers + 1 /\ op.layer + 1 \in 1..Layers + 1
    BY <2>1
  <2>3. content' \in [Bases -> 0..Layers + 1] /\ content'[op.dest] <= op.layer + 1
    <3>1. \/ UNCHANGED content
          \/ content' = [content EXCEPT ![op.dest] = content[op.dest] + 1]
      BY <1>6 DEF MergeLayer
    <3>2. content \in [Bases -> 0..Layers + 1]
      BY DEF Types, TypeOK
    <3> QED
      BY <2>1, <2>2, <3>1, <3>2
  <2>4. /\ op' \in Ops /\ op'.pc = "layers" /\ op'.dest = op.dest
        /\ op'.name = op.name /\ op'.layer = op.layer + 1
    BY <1>6, <2>2 DEF MergeLayer, Types, OpTypes, Ops, PullPcs
  <2>5. broken' \in SUBSET Bases
    BY <1>6, <2>1 DEF MergeLayer, Types, TypeOK
  <2>6. UNCHANGED <<marker, token, files, tarball, entry, lower, image, registry,
                    restarts, pushes, pulled>>
    BY <1>6 DEF MergeLayer, ctrVars, envVars
  <2>7. TypeOK'
    BY <2>3, <2>4, <2>5, <2>6 DEF Types, TypeOK, Ops, PullPcs
  <2>8. OpTypes'
    BY <2>1, <2>3, <2>4 DEF OpTypes, LayerPcs, Names
  <2> QED
    BY <2>7, <2>8 DEF Types
<1>7. CASE PullDone
  <2>1. op' \in Ops /\ op'.pc \in {"idle", "mount"}
          /\ (op'.pc = "mount" => op'.ctr \in Containers /\ op'.name \in Names)
    BY <1>7, ContinueTypes DEF PullDone
  <2>2. op.dest \in Digests /\ op.name \in Tags
    BY <1>7 DEF PullDone, Types, OpTypes, LayerPcs
  <2>3. entry' \in Digests \cup {NoBase} /\ pulled' \in Digests \cup {NoBase}
    BY <1>7, <2>2 DEF PullDone, Registered, Types, TypeOK
  <2>4. marker' \in SUBSET Digests /\ broken' \in SUBSET Bases
    BY <1>7, <2>2 DEF PullDone, Types, TypeOK, Bases
  <2>5. UNCHANGED <<content, token, files, tarball, lower, image, registry, restarts, pushes>>
    BY <1>7 DEF PullDone, ctrVars, envVars
  <2> QED
    BY <2>1, <2>3, <2>4, <2>5 DEF Types, TypeOK, OpTypes, Ops, PullPcs, LayerPcs
<1>8. CASE Download
  BY <1>8 DEF Download, Types, TypeOK, OpTypes, ctrVars, envVars, history, Full
<1>9. CASE Extract
  <2>1. entry' \in Digests \cup {NoBase}
    BY <1>9, LookupTypes DEF Extract, Types, TypeOK
  <2>2. UNCHANGED <<marker, token, files, tarball, lower, image, registry, restarts, pushes, pulled, broken>>
    BY <1>9 DEF Extract, ctrVars, envVars, history
  <2>3. CASE HasBin(ExtractPath(Builtin))
    <3>1. op' = Continue /\ UNCHANGED content /\ op.pc # "idle"
      BY <1>9, <2>3 DEF Extract
    <3>2. op' \in Ops /\ op'.pc \in {"idle", "mount"}
            /\ (op'.pc = "mount" => op'.ctr \in Containers /\ op'.name \in Names)
      BY <3>1, ContinueTypes
    <3> QED
      BY <2>1, <2>2, <3>1, <3>2 DEF Types, TypeOK, OpTypes, Ops, PullPcs, LayerPcs
  <2>4. CASE ~HasBin(ExtractPath(Builtin))
    <3> DEFINE b == ExtractPath(Builtin)
    <3>1. b \in Bases
      BY LookupTypes DEF Types
    <3> HIDE DEF b
    <3>2. /\ op' = [op EXCEPT !.pc = "unpack", !.dest = b]
          /\ content' = [content EXCEPT ![b] = 1]
          /\ op.pc = "pull"
      BY <1>9, <2>4 DEF Extract, b
    <3>3. op' \in Ops /\ op'.pc = "unpack" /\ op'.dest = b /\ op'.name \in Names
      BY <3>1, <3>2 DEF Types, OpTypes, Ops, PullPcs, LayerPcs
    <3>4. content' \in [Bases -> 0..Layers + 1] /\ content'[b] = 1
      BY <3>1, <3>2, FullTypes DEF Types, TypeOK
    <3>5. content'[b] <= Full(b)
      BY <3>1, <3>4, FullTypes
    <3>6. TypeOK'
      BY <2>1, <2>2, <3>3, <3>4 DEF Types, TypeOK, Ops, PullPcs
    <3>7. OpTypes'
      BY <3>1, <3>3, <3>5 DEF OpTypes, LayerPcs
    <3> QED BY <3>6, <3>7 DEF Types
  <2> QED BY <2>3, <2>4
<1>10. CASE Extracted
  <2>1. op' \in Ops /\ op'.pc \in {"idle", "mount"}
          /\ (op'.pc = "mount" => op'.ctr \in Containers /\ op'.name \in Names)
    BY <1>10, ContinueTypes DEF Extracted
  <2>2. content' \in [Bases -> 0..Layers + 1] /\ broken' \in SUBSET Bases
    <3>1. op.dest \in Bases /\ Full(op.dest) \in 0..Layers + 1
      BY <1>10, FullTypes DEF Extracted, Types, OpTypes
    <3> QED
      BY <1>10, <3>1 DEF Extracted, Types, TypeOK
  <2>3. UNCHANGED <<marker, token, files, tarball, entry, lower, image, registry, restarts, pushes, pulled>>
    BY <1>10 DEF Extracted, ctrVars, envVars
  <2> QED
    BY <2>1, <2>2, <2>3 DEF Types, TypeOK, OpTypes, Ops, PullPcs, LayerPcs
<1>11. CASE PullFails
  <2>1. broken' \in SUBSET Bases
    BY <1>11 DEF PullFails, CutOff, Types, TypeOK, OpTypes
  <2> QED
    BY <1>11, <2>1 DEF PullFails, Types, TypeOK, OpTypes, Ops, PullPcs, LayerPcs, Idle, cacheVars,
                       ctrVars, envVars
<1>12. CASE Mount
  <2>1. op.ctr \in Containers /\ op.base \in Bases /\ op.name \in Names
    BY <1>12 DEF Mount, Types, OpTypes, Ops
  <2>2. /\ lower' \in [Containers -> Bases \cup {NoBase}]
        /\ image' \in [Containers -> Names \cup {NoName}]
    BY <1>12, <2>1 DEF Mount, Types, TypeOK
  <2>3. op' \in Ops /\ op'.pc = "idle"
    BY <1>12 DEF Mount, Ops, PullPcs, Idle
  <2>4. UNCHANGED <<content, marker, token, files, tarball, entry, registry, restarts, pushes, pulled, broken>>
    BY <1>12 DEF Mount, cacheVars, envVars, history
  <2> QED
    BY <2>2, <2>3, <2>4 DEF Types, TypeOK, OpTypes, Ops, PullPcs, LayerPcs
<1>13. CASE MountFails
  BY <1>13 DEF MountFails, Types, TypeOK, OpTypes, Ops, PullPcs, LayerPcs, Idle, cacheVars, ctrVars,
               envVars, history
<1>14. CASE AgentRestart \/ VMRestart
  <2>1. broken' \in SUBSET Bases
    BY <1>14 DEF AgentRestart, VMRestart, Restart, CutOff, Types, TypeOK, OpTypes
  <2>2. op' = Idle /\ op' \in Ops /\ op'.pc = "idle"
    BY <1>14 DEF AgentRestart, VMRestart, Restart, Ops, PullPcs, Idle
  <2>3. lower' \in [Containers -> Bases \cup {NoBase}]
    BY <1>14 DEF AgentRestart, VMRestart, Types, TypeOK
  <2>4. /\ UNCHANGED <<content, marker, files, tarball, image, registry, pushes>>
        /\ entry' = NoBase /\ pulled' = NoBase /\ token' = "none"
        /\ restarts < MaxRestarts /\ restarts' = restarts + 1
    BY <1>14 DEF AgentRestart, VMRestart, Restart
  <2>5. restarts' \in 0..MaxRestarts
    BY <2>4 DEF Types, TypeOK
  <2> QED
    BY <2>1, <2>2, <2>3, <2>4, <2>5 DEF Types, TypeOK, OpTypes, Ops, PullPcs, LayerPcs
<1>15. ASSUME NEW t \in Tags, NEW d \in Digests, Push(t, d) PROVE Types'
  BY <1>15 DEF Push, Types, TypeOK, OpTypes, Ops, PullPcs, LayerPcs, cacheVars, ctrVars, history
<1>16. CASE GetToken \/ Expire
  BY <1>16 DEF GetToken, Expire, Types, TypeOK, OpTypes, ctrVars, envVars, history
<1>17. CASE Fetch \/ Fetched
  <2>1. /\ op.dest \in Digests /\ op.layer \in 1..Layers /\ op.name \in Tags
        /\ content[op.dest] <= op.layer
    BY <1>17 DEF Fetch, Fetched, Types, OpTypes, Ops, LayerPcs
  <2>2. files' \in [Digests -> [1..Layers -> {"none", "part", "whole"}]]
    <3>1. \A f \in {"none", "part", "whole"} :
            File(f) \in [Digests -> [1..Layers -> {"none", "part", "whole"}]]
      BY <2>1 DEF File, Types, TypeOK
    <3>2. files[op.dest] \in [1..Layers -> {"none", "part", "whole"}]
      BY <2>1 DEF Types, TypeOK
    <3>3. files[op.dest][op.layer] \in {"none", "part", "whole"}
      BY <2>1, <3>2
    <3> QED
      BY <1>17, <3>1, <3>3 DEF Fetch, Fetched, Aside
  <2>3. /\ op' \in Ops /\ op'.pc \in {"layers", "fetch"} /\ op'.dest = op.dest
        /\ op'.name = op.name /\ op'.layer = op.layer
    BY <1>17 DEF Fetch, Fetched, Types, OpTypes, Ops, PullPcs
  <2>4. UNCHANGED <<content, marker, token, tarball, entry, lower, image, registry,
                    restarts, pushes, pulled, broken>>
    BY <1>17 DEF Fetch, Fetched, ctrVars, envVars, history
  <2>5. TypeOK'
    BY <2>2, <2>3, <2>4 DEF Types, TypeOK, Ops, PullPcs
  <2>6. OpTypes'
    BY <2>1, <2>3, <2>4 DEF OpTypes, LayerPcs, Names
  <2> QED
    BY <2>5, <2>6 DEF Types
<1>18. CASE Extracts
  <2>1. /\ op.dest \in Digests /\ op.layer \in 1..Layers /\ op.name \in Tags
        /\ content[op.dest] <= op.layer
    BY <1>18 DEF Extracts, Types, OpTypes, Ops, LayerPcs
  <2>2. content' \in [Bases -> 0..Layers + 1] /\ content'[op.dest] <= op.layer
    <3>1. 1 \in 0..Layers + 1 /\ 1 <= op.layer
      BY <2>1
    <3> QED
      BY <1>18, <2>1, <3>1 DEF Extracts, Types, TypeOK, Bases
  <2>3. /\ op' \in Ops /\ op'.pc = "merge" /\ op'.dest = op.dest
        /\ op'.name = op.name /\ op'.layer = op.layer
    BY <1>18 DEF Extracts, Types, OpTypes, Ops, PullPcs
  <2>4. UNCHANGED <<marker, token, files, tarball, entry, lower, image, registry,
                    restarts, pushes, pulled, broken>>
    BY <1>18 DEF Extracts, ctrVars, envVars, history
  <2>5. TypeOK'
    BY <2>2, <2>3, <2>4 DEF Types, TypeOK, Ops, PullPcs
  <2>6. OpTypes'
    BY <2>1, <2>2, <2>3 DEF OpTypes, LayerPcs, Names
  <2> QED
    BY <2>5, <2>6 DEF Types
<1> QED
  BY <1>1, <1>2, <1>3, <1>4, <1>5, <1>6, <1>7, <1>8, <1>9, <1>10, <1>11, <1>12, <1>13,
     <1>14, <1>15, <1>16, <1>17, <1>18 DEF Next

\* The initial state has the types.
LEMMA TypesInit == Init => Types
  <1> SUFFICES ASSUME Init PROVE Types
    OBVIOUS
  <1>1. op \in Ops /\ op.pc = "idle"
    BY IdleTypes DEF Init, Idle
  <1>2. 0 \in 0..Layers + 1 /\ 0 \in 0..MaxRestarts /\ 0 \in 0..MaxPushes
    BY ImageAssumption
  <1> QED
    BY <1>1, <1>2 DEF Init, Types, TypeOK, OpTypes, Ops, PullPcs, LayerPcs

\* TypeOK holds in every reachable state, whatever the faults and the names
\* asked for: the cache, the operation under way and the containers have
\* their types.
THEOREM ImageTypes == Spec => []TypeOK
<1>1. Types => TypeOK
  BY DEF Types
<1> QED
  BY <1>1, TypesInit, TypesStep, PTL DEF Spec
-----------------------------------------------------------------------------

\* What imageExtractPath finds bears a marker or is in use, or is the built-in
\* image's own directory.
LEMMA LookupBacked ==
    ASSUME Types, Backed, NEW n \in Names
    PROVE  /\ Lookup \in Sound
           /\ ExtractPath(n) \in Sound \cup {Builtin}
           /\ n \in Tags => ExtractPath(n) \in Sound
           /\ n \in Tags => ExtractPath(n) # Builtin
<1> USE ImageAssumption
<1>1. Lookup \in Sound /\ Lookup \in Digests \cup {NoBase}
  BY FirstIsListed DEF Types, TypeOK, Backed, Sound, Lookup
<1>2. NoBase \in Sound /\ NoBase # Builtin
  BY DEF Sound
<1> QED BY <1>1, <1>2 DEF ExtractPath, Names

\* A base with a bin/ that is under a marker is not taken for empty.
LEMMA MarkedHasBin ==
    ASSUME Types, Backed, NEW d \in marker
    PROVE  HasBin(d)
<1>1. d \in Bases /\ d # NoBase
  BY ImageAssumption DEF Types, TypeOK, Bases
<1>2. content[d] > 0
  BY DEF Backed
<1> QED BY <1>1, <1>2 DEF HasBin

\* Every step keeps what is in use backed.
LEMMA BackedStep ==
    ASSUME Types, Backed, [Next]_vars
    PROVE  Backed'
<1> USE ImageAssumption
<1>1. CASE UNCHANGED vars
  BY <1>1 DEF Backed, Sound, Merging, Begun, FilesWhole, vars, Full
<1>2. ASSUME NEW n \in Names, PullRpc(n) PROVE Backed'
  BY <1>2 DEF PullRpc, Backed, Sound, Merging, LayerPcs, FilesWhole, Idle, cacheVars, ctrVars, history, Full
<1>3. ASSUME NEW c \in Containers, NEW n \in Names, Prepare(c, n) PROVE Backed'
  <2>1. Lookup \in Sound /\ ExtractPath(n) \in Sound \cup {Builtin}
    BY LookupBacked
  <2>2. op'.base \in Sound \cup {Builtin} /\ op'.pc \in {"mount", "pull"}
    BY <1>3, <2>1 DEF Prepare, Idle
  <2>3. entry' \in Sound
    BY <1>3, <2>1 DEF Prepare, Backed
  <2>4. UNCHANGED <<content, marker, files, broken, lower>>
    BY <1>3 DEF Prepare, ctrVars, history
  <2> QED
    BY <2>2, <2>3, <2>4 DEF Backed, Sound, Merging, LayerPcs, FilesWhole, Full
<1>4. CASE PullCached
  <2>1. op'.pc \in {"idle", "mount"} /\ op'.base \in Sound \cup {Builtin}
    BY <1>4, ContinueTypes DEF PullCached, Backed, Sound
  <2>2. entry' \in marker
    BY <1>4 DEF PullCached, Registered, Cached
  <2>3. UNCHANGED <<content, marker, files, broken, lower>>
    BY <1>4 DEF PullCached, ctrVars
  <2> QED
    BY <2>1, <2>2, <2>3 DEF Backed, Sound, Merging, LayerPcs, FilesWhole, Full
<1>5. CASE PullFresh
  <2> DEFINE d == Manifest(op.name)
  <2>1. /\ d \notin marker /\ op'.pc = "layers" /\ op'.dest = d /\ op'.base = op.base
        /\ op'.layer = 1
    BY <1>5 DEF PullFresh, Cached, Types, OpTypes, Ops
  <2>2. \A e \in marker : content'[e] = content[e]
    BY <1>5, <2>1 DEF PullFresh, Types, TypeOK, Bases
  <2>3. UNCHANGED <<marker, files, broken, entry, lower>>
    BY <1>5 DEF PullFresh, ctrVars, history
  <2> HIDE DEF d
  <2>4. Merging'
    BY <2>1, <2>3 DEF Merging, Begun
  <2> QED
    BY <2>1, <2>2, <2>3, <2>4 DEF Backed, Sound, FilesWhole, Full
<1>6. CASE MergeLayer
  <2>1. /\ op.pc = "merge" /\ op.dest \notin marker /\ op.dest \in Digests
        /\ op.layer \in 1..Layers
        /\ content[op.dest] \in Nat /\ content[op.dest] > 0
        /\ op.dest \notin broken => content[op.dest] = op.layer
    BY <1>6 DEF MergeLayer, Backed, Merging, Begun, LayerPcs, Types, TypeOK, OpTypes, Ops, Bases
  <2>2. \A e \in marker : content'[e] = content[e]
    BY <1>6, <2>1 DEF MergeLayer, Types, TypeOK, Bases
  <2>3. UNCHANGED <<marker, files, entry, lower>> /\ broken \subseteq broken'
    BY <1>6 DEF MergeLayer, ctrVars
  <2>4. /\ op'.pc = "layers" /\ op'.base = op.base /\ op'.dest = op.dest
        /\ op'.layer = op.layer + 1
    BY <1>6 DEF MergeLayer, Types, OpTypes, Ops
  <2>5. \/ op.dest \in broken' /\ content' = content
        \/ content'[op.dest] = content[op.dest] + 1
    <3>1. files[op.dest][op.layer] = "whole"
      BY <2>1 DEF Backed, Merging, LayerPcs
    <3> QED
      BY <1>6, <2>1, <3>1 DEF MergeLayer, Types, TypeOK, Bases
  <2>6. Merging'
    BY <2>1, <2>3, <2>4, <2>5 DEF Merging, Begun
  <2> QED
    BY <2>2, <2>3, <2>4, <2>6 DEF Backed, Sound, FilesWhole, Full
<1>7. CASE PullDone
  <2>1. /\ op.pc = "layers" /\ op.dest \in Digests /\ op.layer = Layers + 1 /\ Begun
    BY <1>7 DEF PullDone, Types, OpTypes, Ops, LayerPcs, Begun
  <2>2. /\ content[op.dest] > 0
        /\ op.dest \notin broken => content[op.dest] = Full(op.dest)
    BY <2>1 DEF Backed, Merging, LayerPcs, Full
  <2>3. /\ marker' \in {marker, marker \cup {op.dest}} /\ broken \subseteq broken'
        /\ Sound' = Sound \cup {op.dest} /\ entry' = op.dest
    BY <1>7 DEF PullDone, Registered, Sound
  <2>4. op'.pc \in {"idle", "mount"} /\ op'.base \in Sound \cup {Builtin}
    BY <1>7, <2>1, ContinueTypes DEF PullDone, Backed, Sound
  <2>5. UNCHANGED <<content, files, lower>>
    BY <1>7 DEF PullDone, ctrVars
  <2>6. \A d \in marker' : content'[d] > 0 /\ (d \in broken' \/ content'[d] = Full(d))
    BY <2>2, <2>3, <2>5 DEF Backed
  <2> QED
    BY <2>3, <2>4, <2>5, <2>6 DEF Backed, Merging, LayerPcs, FilesWhole, Full
<1>8. CASE Download
  BY <1>8 DEF Download, Backed, Sound, Merging, Begun, FilesWhole, ctrVars, history, Full
<1>9. CASE Extract
  <2> DEFINE b == ExtractPath(Builtin)
  <2>1. entry' \in Sound /\ b \in Bases
    BY <1>9, LookupBacked, LookupTypes DEF Extract, Backed, Types, Names
  <2>2. UNCHANGED <<marker, files, broken, lower>>
    BY <1>9 DEF Extract, ctrVars, history
  <2>3. CASE HasBin(b)
    <3>1. op' = Continue /\ UNCHANGED content
      BY <1>9, <2>3 DEF Extract
    <3>2. op'.pc \in {"idle", "mount"} /\ op'.base \in Sound \cup {Builtin}
      BY <1>9, <3>1, ContinueTypes DEF Extract, Backed, Sound
    <3> QED
      BY <2>1, <2>2, <3>1, <3>2 DEF Backed, Sound, Merging, LayerPcs, FilesWhole, Full
  <2>4. CASE ~HasBin(b)
    <3>1. b \notin marker
      BY <2>4, MarkedHasBin
    <3>2. /\ op' = [op EXCEPT !.pc = "unpack", !.dest = b]
          /\ content' = [content EXCEPT ![b] = 1]
      BY <1>9, <2>4 DEF Extract
    <3>3. op'.dest = b /\ op'.base = op.base
      BY <3>2 DEF Types, OpTypes, Ops
    <3>4. \A e \in marker : content'[e] = content[e]
      BY <3>1, <3>2 DEF Types, TypeOK, Bases
    <3> HIDE DEF b
    <3> QED
      BY <2>1, <2>2, <3>1, <3>2, <3>3, <3>4 DEF Types, OpTypes, Ops, Backed, Sound, Merging, LayerPcs, FilesWhole, Full
  <2> QED BY <2>3, <2>4
<1>10. CASE Extracted
  <2>1. op.pc = "unpack" /\ op.dest \notin marker
    BY <1>10 DEF Extracted, Backed
  <2>2. \A e \in marker : content'[e] = content[e]
    BY <1>10, <2>1 DEF Extracted, Types, TypeOK, Bases
  <2>3. op'.pc \in {"idle", "mount"} /\ op'.base \in Sound \cup {Builtin}
    BY <1>10, <2>1, ContinueTypes DEF Extracted, Backed, Sound
  <2>4. UNCHANGED <<marker, files, entry, lower>> /\ broken \subseteq broken'
    BY <1>10 DEF Extracted, ctrVars
  <2> QED
    BY <2>2, <2>3, <2>4 DEF Backed, Sound, Merging, LayerPcs, FilesWhole, Full
<1>11. CASE PullFails
  <2>1. op' = Idle /\ broken \subseteq broken' /\ UNCHANGED <<content, marker, files, entry, lower>>
    BY <1>11 DEF PullFails, CutOff, cacheVars, ctrVars
  <2> QED
    BY <2>1 DEF Backed, Sound, Merging, LayerPcs, FilesWhole, Idle, Full
<1>12. CASE Mount
  <2>1. \A c \in Containers : lower'[c] \in {lower[c], op.base}
    BY <1>12 DEF Mount, Types, TypeOK
  <2>2. op' = Idle /\ UNCHANGED <<content, marker, files, entry, broken>>
    BY <1>12 DEF Mount, cacheVars, history
  <2> QED
    BY <2>1, <2>2 DEF Backed, Sound, Merging, LayerPcs, FilesWhole, Idle, Full
<1>13. CASE MountFails
  BY <1>13 DEF MountFails, Backed, Sound, Merging, LayerPcs, FilesWhole, Idle, cacheVars, ctrVars, history, Full
<1>14. CASE AgentRestart \/ VMRestart
  <2>1. /\ op' = Idle /\ entry' = NoBase /\ broken \subseteq broken'
        /\ UNCHANGED <<content, marker, files>>
    BY <1>14 DEF AgentRestart, VMRestart, Restart, CutOff
  <2>2. \A c \in Containers : lower'[c] \in {lower[c], NoBase}
    BY <1>14 DEF AgentRestart, VMRestart
  <2> QED
    BY <2>1, <2>2 DEF Backed, Sound, Merging, LayerPcs, FilesWhole, Idle, Full
<1>15. ASSUME NEW t \in Tags, NEW d \in Digests, Push(t, d) PROVE Backed'
  BY <1>15 DEF Push, Backed, Sound, Merging, Begun, FilesWhole, cacheVars, ctrVars, history,
               Full
<1>16. CASE GetToken \/ Expire
  BY <1>16 DEF GetToken, Expire, Backed, Sound, Merging, Begun, FilesWhole, ctrVars, history, Full
<1>17. CASE Fetch \/ Fetched
  <2>1. op.dest \in Digests /\ op.layer \in 1..Layers /\ op.pc \in LayerPcs
    BY <1>17 DEF Fetch, Fetched, Types, OpTypes, Ops, LayerPcs
  <2>2. /\ op'.pc \in {"layers", "fetch"} /\ op'.base = op.base /\ op'.dest = op.dest
        /\ op'.layer = op.layer /\ op.pc \in {"layers", "fetch"}
    BY <1>17 DEF Fetch, Fetched, Types, OpTypes, Ops
  <2>3. UNCHANGED <<content, marker, broken, entry, lower>>
    BY <1>17 DEF Fetch, Fetched, ctrVars, history
  <2>4. FilesWhole'
    <3>1. \A f \in {"none", "whole"}, d \in Digests, i \in 1..Layers :
            File(f)[d][i] \in {f, files[d][i]}
      BY <2>1 DEF File, Types, TypeOK
    <3>2. files[op.dest][op.layer] \in {"none", "whole"}
      BY <2>1 DEF Backed, FilesWhole
    <3>3. \E f \in {"none", "whole"} : files' = File(f)
      BY <1>17, <3>2 DEF Fetch, Fetched, Aside
    <3> QED
      BY <3>1, <3>3 DEF Backed, FilesWhole
  <2>5. Merging'
    BY <2>1, <2>2, <2>3 DEF Backed, Merging, Begun
  <2> QED
    BY <2>2, <2>3, <2>4, <2>5 DEF Backed, Sound, Full
<1>18. CASE Extracts
  <2>1. /\ op.dest \in Digests /\ op.pc = "layers" /\ op.layer \in 1..Layers
        /\ op.dest \notin marker
        /\ content[op.dest] \in Nat /\ content[op.dest] <= op.layer
        /\ op.layer > 1 => content[op.dest] > 0
        /\ op.layer > 1 /\ op.dest \notin broken => content[op.dest] = op.layer
    BY <1>18 DEF Extracts, Types, TypeOK, OpTypes, Ops, LayerPcs, Bases, Backed, Merging, Begun
  <2>2. /\ op'.pc = "merge" /\ op'.base = op.base /\ op'.dest = op.dest
        /\ op'.layer = op.layer
    BY <1>18 DEF Extracts, Types, OpTypes, Ops
  <2>3. UNCHANGED <<marker, files, broken, entry, lower>>
    BY <1>18 DEF Extracts, ctrVars, history
  <2>4. content'[op.dest] = IF content[op.dest] = 0 THEN 1 ELSE content[op.dest]
    BY <1>18, <2>1 DEF Extracts, Types, TypeOK, Bases
  <2>5. \A e \in marker : content'[e] = content[e]
    BY <1>18, <2>1 DEF Extracts, Types, TypeOK, Bases
  <2>6. files[op.dest][op.layer] = "whole"
    BY <1>18, <2>1 DEF Extracts, LayerOnDisk, Backed, FilesWhole
  <2>7. Merging'
    BY <2>1, <2>2, <2>3, <2>4, <2>6 DEF Merging, Begun
  <2> QED
    BY <2>2, <2>3, <2>5, <2>7 DEF Backed, Sound, FilesWhole, Full
<1> QED
  BY <1>1, <1>2, <1>3, <1>4, <1>5, <1>6, <1>7, <1>8, <1>9, <1>10, <1>11, <1>12, <1>13,
     <1>14, <1>15, <1>16, <1>17, <1>18 DEF Next
-----------------------------------------------------------------------------
\* Every step keeps the built-in image complete where it is in use.
LEMMA BuiltinStep ==
    ASSUME Types, Backed, BuiltinBacked, [Next]_vars
    PROVE  BuiltinBacked'
<1> USE ImageAssumption
<1>b. Builtin \in Bases /\ Builtin # NoBase /\ Full(Builtin) = 2 /\ Builtin \notin Digests
  BY DEF Bases, Full
<1>p. /\ UNCHANGED <<entry, marker>> => UNCHANGED ExtractPath(Builtin)
      /\ op.base = Builtin => op.name \notin Tags
  <2>1. UNCHANGED <<entry, marker>> => Lookup' = Lookup
    BY DEF Lookup
  <2>2. Lookup' = Lookup => ExtractPath(Builtin)' = ExtractPath(Builtin)
    BY DEF ExtractPath, InRepo
  <2>3. op.base = Builtin => op.name \notin Tags
    BY DEF BuiltinBacked
  <2> QED BY <2>1, <2>2, <2>3
<1>1. CASE UNCHANGED vars
  BY <1>1, <1>p DEF BuiltinBacked, Unpacking, vars, Full
<1>2. ASSUME NEW n \in Names, PullRpc(n) PROVE BuiltinBacked'
  <2>1. /\ op = Idle /\ op'.base = NoBase /\ op'.pc = "pull"
        /\ UNCHANGED <<content, broken, lower>>
    BY <1>2 DEF PullRpc, Idle, cacheVars, ctrVars, history
  <2> QED
    BY <2>1, <1>b DEF BuiltinBacked, Unpacking, Idle, Full
<1>3. ASSUME NEW c \in Containers, NEW n \in Names, Prepare(c, n) PROVE BuiltinBacked'
  <2>1. /\ op = Idle /\ op'.base = ExtractPath(n) /\ op'.name = n
        /\ op'.pc = IF HasBin(ExtractPath(n)) THEN "mount" ELSE "pull"
        /\ entry' = IF InRepo(n) THEN Lookup ELSE entry
        /\ UNCHANGED <<content, marker, broken, lower>>
    BY <1>3 DEF Prepare, Idle, ctrVars, history
  <2>2. ExtractPath(n) = Builtin => n = Builtin
    BY LookupBacked DEF Names
  <2>3. ExtractPath(n) = Builtin /\ n = Builtin => ExtractPath(Builtin)' = Builtin
    BY <2>1, <1>b, LookupTypes DEF ExtractPath, Lookup, InRepo, FirstOf, Types
  <2>4. content[Builtin] \in {0, Full(Builtin)} \/ Builtin \in broken
    BY <2>1 DEF BuiltinBacked, Unpacking, Idle
  <2>5. HasBin(Builtin) => content[Builtin] # 0
    BY <1>b DEF HasBin
  <2> QED
    BY <2>1, <2>2, <2>3, <2>4, <2>5 DEF BuiltinBacked, Unpacking, Full
<1>4. CASE PullCached \/ PullDone
  <2>1. /\ op.pc \in {"pull", "layers"} /\ op.name \in Tags
        /\ op' = Continue /\ UNCHANGED <<content, lower>>
        /\ broken \subseteq broken' /\ (Builtin \in broken' => Builtin \in broken)
    BY <1>4, <1>b DEF PullCached, PullDone, ctrVars, LayerPcs, Types, OpTypes
  <2>2. op.base # Builtin /\ op'.base # Builtin /\ op'.pc \in {"idle", "mount"}
    BY <2>1, <1>p, <1>b, ContinueTypes
  <2> QED
    BY <2>1, <2>2 DEF BuiltinBacked, Unpacking, Full
<1>5. CASE PullFresh
  <2>1. /\ op.pc = "pull" /\ op.base # Builtin
        /\ op'.pc = "layers" /\ op'.base = op.base
        /\ content'[Builtin] = content[Builtin] /\ UNCHANGED <<broken, lower>>
    BY <1>5, <1>b, <1>p DEF PullFresh, Manifest, Types, TypeOK, OpTypes, Ops, ctrVars, history
  <2> QED
    BY <2>1 DEF BuiltinBacked, Unpacking, Full
<1>6. CASE Extracts \/ MergeLayer \/ Fetch \/ Fetched
  <2>1. /\ content'[Builtin] = content[Builtin] /\ UNCHANGED lower
        /\ op.pc \in LayerPcs /\ op'.pc \in LayerPcs
        /\ op'.base = op.base /\ op'.name = op.name
        /\ (Builtin \in broken' <=> Builtin \in broken)
    <3>1. op.pc \in LayerPcs /\ op.dest \in Digests /\ op.dest # Builtin
      BY <1>6, <1>b DEF Extracts, MergeLayer, Fetch, Fetched, LayerPcs, Types, OpTypes
    <3>2. content'[Builtin] = content[Builtin]
      BY <1>6, <1>b, <3>1 DEF Extracts, MergeLayer, Fetch, Fetched, Types, TypeOK
    <3>3. op'.pc \in LayerPcs /\ op'.base = op.base /\ op'.name = op.name
      BY <1>6 DEF Extracts, MergeLayer, Fetch, Fetched, LayerPcs, Types, OpTypes, Ops
    <3>4. UNCHANGED lower /\ broken' \in {broken, broken \cup {op.dest}}
      BY <1>6 DEF Extracts, MergeLayer, Fetch, Fetched, ctrVars, history
    <3> QED
      BY <3>1, <3>2, <3>3, <3>4
  <2> QED
    BY <2>1 DEF BuiltinBacked, Unpacking, LayerPcs, Full
<1>7. CASE Download \/ GetToken \/ Expire
  BY <1>7, <1>p DEF Download, GetToken, Expire, BuiltinBacked, Unpacking, ctrVars, history, Full
<1>8. CASE Extract
  <2> DEFINE b == ExtractPath(Builtin)
  <2>1. op.pc = "pull" /\ op.name = Builtin /\ UNCHANGED <<broken, lower>>
    BY <1>8 DEF Extract, ctrVars, history
  <2>2. CASE HasBin(b)
    <3>1. op' = Continue /\ UNCHANGED content
      BY <1>8, <2>2 DEF Extract
    <3>2. op'.pc \in {"idle", "mount"}
      BY <2>1, <3>1, ContinueTypes
    <3>3. op'.base = Builtin => op'.name = Builtin /\ b = Builtin
      BY <2>1, <3>1, <1>b DEF Continue, Idle, BuiltinBacked
    <3>4. b = Builtin => content[Builtin] # 0
      BY <2>2, <1>b DEF HasBin
    <3>5. Builtin \notin broken => content[Builtin] \in {0, Full(Builtin)}
      BY <2>1 DEF BuiltinBacked, Unpacking
    <3> HIDE DEF b
    <3> QED
      BY <2>1, <3>1, <3>2, <3>3, <3>4, <3>5 DEF BuiltinBacked, Unpacking, Full
  <2>3. CASE ~HasBin(b)
    <3>1. /\ op' = [op EXCEPT !.pc = "unpack", !.dest = b]
          /\ content' = [content EXCEPT ![b] = 1] /\ b \in Bases
      BY <1>8, <2>3, LookupTypes DEF Extract, Types
    <3>2. op'.pc = "unpack" /\ op'.dest = b /\ op'.base = op.base /\ op'.name = Builtin
      BY <2>1, <3>1 DEF Types, OpTypes, Ops
    <3>3. b # Builtin => content'[Builtin] = content[Builtin]
      BY <3>1, <1>b DEF Types, TypeOK
    <3>4. b = Builtin => content[Builtin] = 0
      BY <2>3, <1>b DEF HasBin, Types, TypeOK
    <3>5. op.base = Builtin => b = Builtin
      BY <2>1 DEF BuiltinBacked
    <3>6. b = Builtin => \A c \in Containers : Builtin \in broken \/ lower[c] # Builtin
      BY <3>4, <1>b DEF BuiltinBacked
    <3> HIDE DEF b
    <3> QED
      BY <2>1, <3>2, <3>3, <3>5, <3>6 DEF BuiltinBacked, Unpacking, Full
  <2> QED BY <2>2, <2>3
<1>9. CASE Extracted
  <2>1. op.pc = "unpack" /\ op.dest \in Bases /\ op' = Continue /\ UNCHANGED lower
    BY <1>9 DEF Extracted, Types, OpTypes, ctrVars
  <2>2. /\ op'.pc \in {"idle", "mount"}
        /\ op'.base = Builtin => op'.name = Builtin /\ op.dest = Builtin
    BY <2>1, <1>b, ContinueTypes DEF Continue, Idle, BuiltinBacked
  <2>3. \/ content'[Builtin] = Full(Builtin) /\ op.dest = Builtin /\ UNCHANGED broken
        \/ content'[Builtin] = content[Builtin] /\ op.dest # Builtin
             /\ (Builtin \in broken' <=> Builtin \in broken)
        \/ Builtin \in broken'
    BY <1>9, <2>1, <1>b DEF Extracted, Types, TypeOK
  <2> QED
    BY <2>1, <2>2, <2>3 DEF BuiltinBacked, Unpacking, Full
<1>10. CASE PullFails
  <2>1. /\ op' = Idle /\ UNCHANGED <<content, lower>>
        /\ broken \subseteq broken' /\ (Unpacking => Builtin \in broken')
    BY <1>10 DEF PullFails, CutOff, Unpacking, cacheVars, ctrVars
  <2> QED
    BY <2>1, <1>b DEF BuiltinBacked, Unpacking, Idle, Full
<1>11. CASE Mount
  <2>1. /\ \A c \in Containers : lower'[c] \in {lower[c], op.base}
        /\ op.pc = "mount" /\ op' = Idle /\ UNCHANGED <<content, broken>>
    BY <1>11 DEF Mount, Types, TypeOK, cacheVars, history
  <2> QED
    BY <2>1, <1>b DEF BuiltinBacked, Unpacking, Idle, Full
<1>12. CASE MountFails
  <2>1. op.pc = "mount" /\ op' = Idle /\ UNCHANGED <<content, broken, lower>>
    BY <1>12 DEF MountFails, cacheVars, ctrVars, history
  <2> QED
    BY <2>1, <1>b DEF BuiltinBacked, Unpacking, Idle, Full
<1>13. CASE AgentRestart \/ VMRestart
  <2>1. /\ op' = Idle /\ UNCHANGED content
        /\ broken \subseteq broken' /\ (Unpacking => Builtin \in broken')
        /\ \A c \in Containers : lower'[c] \in {lower[c], NoBase}
    BY <1>13 DEF AgentRestart, VMRestart, Restart, CutOff, Unpacking
  <2> QED
    BY <2>1, <1>b DEF BuiltinBacked, Unpacking, Idle, Full
<1>14. ASSUME NEW t \in Tags, NEW d \in Digests, Push(t, d) PROVE BuiltinBacked'
  BY <1>14, <1>p DEF Push, BuiltinBacked, Unpacking, cacheVars, ctrVars, history, Full
<1> QED
  BY <1>1, <1>2, <1>3, <1>4, <1>5, <1>6, <1>7, <1>8, <1>9, <1>10, <1>11, <1>12, <1>13,
     <1>14 DEF Next

\* The initial state satisfies the invariant.
LEMMA BackedInit == Init => Backed /\ BuiltinBacked
  BY ImageAssumption DEF Init, Backed, BuiltinBacked, Merging, LayerPcs, FilesWhole, Sound,
                         Unpacking, Idle, Bases

LEMMA InvInductive ==
    /\ Init => Inv
    /\ Inv /\ [Next]_vars => Inv'
  BY TypesInit, TypesStep, BackedInit, BackedStep, BuiltinStep DEF Inv

\* A container never runs on a half-extracted image, nor on one that a pull
\* is extracting anew, in whatever order pulls, creations, failures and
\* restarts come: except for images that the code itself takes for complete.
THEOREM BasesComplete == Spec => []CompleteBases
<1>1. Inv => CompleteBases
  BY DEF Inv, Backed, BuiltinBacked, Sound, CompleteBases
<1> QED
  BY <1>1, InvInductive, PTL DEF Spec
-----------------------------------------------------------------------------
\* While the agent lives, the entry of the repository is what was pulled last;
\* a base looked up before a pull that was needed is one without a bin/.
Current ==
    /\ pulled # NoBase => entry = pulled
    /\ op.pc \in {"pull"} \cup LayerPcs /\ op.name \in Tags => op.base \in broken \cup {NoBase}
    /\ op.pc = "unpack" => op.name = Builtin
    /\ op.pc = "mount" /\ op.name \in Tags /\ pulled # NoBase
          => op.base \in broken \cup {NoBase, pulled}

\* What a lookup leaves as entry, when something was pulled.
LEMMA LookupCurrent ==
    ASSUME Current, pulled # NoBase
    PROVE  Lookup = pulled
  BY DEF Current, Lookup

LEMMA CurrentStep ==
    ASSUME Inv, Current, [Next]_vars
    PROVE  Current'
<1> USE ImageAssumption DEF Inv
<1>1. CASE UNCHANGED vars
  BY <1>1 DEF Current, vars
<1>2. ASSUME NEW n \in Names, PullRpc(n) PROVE Current'
  <2>1. op'.pc = "pull" /\ op'.base = NoBase /\ UNCHANGED <<entry, pulled, broken>>
    BY <1>2 DEF PullRpc, Idle, cacheVars, history
  <2> QED BY <2>1 DEF Current
<1>3. ASSUME NEW c \in Containers, NEW n \in Names, Prepare(c, n) PROVE Current'
  <2>1. /\ op'.base = ExtractPath(n) /\ op'.name = n
        /\ op'.pc = IF HasBin(ExtractPath(n)) THEN "mount" ELSE "pull"
        /\ entry' = IF InRepo(n) THEN Lookup ELSE entry
        /\ UNCHANGED <<pulled, broken>>
    BY <1>3 DEF Prepare, Idle, history
  <2>2. n \in Tags /\ pulled # NoBase => ExtractPath(n) = pulled
    BY LookupCurrent DEF ExtractPath, InRepo
  <2>3. n \in Tags /\ ~HasBin(ExtractPath(n)) => ExtractPath(n) \in broken \cup {NoBase}
    BY LookupBacked, MarkedHasBin DEF Sound
  <2>4. pulled # NoBase => entry' = pulled
    BY <2>1, LookupCurrent DEF Current
  <2> QED
    BY <2>1, <2>2, <2>3, <2>4 DEF Current, LayerPcs
<1>4. CASE PullCached \/ PullDone
  <2>1. /\ op.pc \in {"pull", "layers"} /\ op.name \in Tags
        /\ entry' = pulled' /\ broken \subseteq broken' /\ op' = Continue
    BY <1>4 DEF PullCached, PullDone, Registered, LayerPcs, Types, OpTypes
  <2>2. op'.pc \in {"idle", "mount"} /\ op'.base \in broken \cup {NoBase}
    BY <2>1, ContinueTypes DEF Current, LayerPcs
  <2> QED BY <2>1, <2>2 DEF Current, LayerPcs
<1>5. CASE PullFresh
  <2>1. /\ op.pc = "pull" /\ op.name \in Tags
        /\ op'.pc = "layers" /\ op'.base = op.base /\ op'.name = op.name
        /\ UNCHANGED <<entry, pulled, broken>>
    BY <1>5 DEF PullFresh, Types, OpTypes, Ops, history
  <2> QED BY <2>1 DEF Current
<1>6. CASE Download \/ GetToken \/ Expire
  BY <1>6 DEF Download, GetToken, Expire, Current, history
<1>12. CASE Fetch \/ Fetched \/ Extracts \/ MergeLayer
  <2>1. /\ op.pc \in LayerPcs /\ op'.pc \in LayerPcs
        /\ op'.base = op.base /\ op'.name = op.name
        /\ UNCHANGED <<entry, pulled>> /\ broken \subseteq broken'
    BY <1>12 DEF Fetch, Fetched, Extracts, MergeLayer, LayerPcs, Types, OpTypes, Ops, history
  <2> QED BY <2>1 DEF Current, LayerPcs
<1>7. CASE Extract
  <2>1. op.pc = "pull" /\ op.name = Builtin /\ UNCHANGED <<pulled, broken>>
    BY <1>7 DEF Extract, history
  <2>2. pulled # NoBase => entry' = pulled
    BY <1>7, LookupCurrent DEF Extract, Current
  <2>3. op'.name \notin Tags /\ (op'.pc = "unpack" => op'.name = Builtin)
    <3>1. op' \in {Continue, [op EXCEPT !.pc = "unpack", !.dest = ExtractPath(Builtin)]}
      BY <1>7 DEF Extract
    <3>2. Continue.name \in {NoName, op.name} /\ Continue.pc # "unpack"
      BY <2>1, ContinueTypes DEF Continue, Idle, Types, OpTypes, Ops
    <3>3. [op EXCEPT !.pc = "unpack", !.dest = ExtractPath(Builtin)].name = op.name
      BY DEF Types, OpTypes, Ops
    <3>4. op'.name \in {NoName, Builtin} /\ (op' = Continue \/ op'.name = Builtin)
      BY <2>1, <3>1, <3>2, <3>3, Zenon
    <3>5. NoName \notin Tags /\ Builtin \notin Tags
      OBVIOUS
    <3> QED BY <3>2, <3>4, <3>5
  <2> QED BY <2>1, <2>2, <2>3 DEF Current, LayerPcs
<1>8. CASE Extracted
  <2>1. op.name = Builtin /\ op' = Continue /\ UNCHANGED <<entry, pulled>>
    BY <1>8 DEF Extracted, Current
  <2>2. op'.name \notin Tags /\ op'.pc \in {"idle", "mount"}
    BY <1>8, <2>1, ContinueTypes DEF Extracted, Continue, Idle, Types, OpTypes, Ops
  <2> QED BY <2>1, <2>2 DEF Current
<1>9. CASE PullFails \/ Mount \/ MountFails
  <2>1. op' = Idle /\ UNCHANGED <<entry, pulled>>
    BY <1>9 DEF PullFails, Mount, MountFails, cacheVars, history
  <2> QED BY <2>1 DEF Current, Idle
<1>10. CASE AgentRestart \/ VMRestart
  BY <1>10 DEF AgentRestart, VMRestart, Restart, Current, Idle
<1>11. ASSUME NEW t \in Tags, NEW d \in Digests, Push(t, d) PROVE Current'
  BY <1>11 DEF Push, Current, cacheVars, history
<1> QED
  BY <1>1, <1>2, <1>3, <1>4, <1>5, <1>6, <1>7, <1>8, <1>9, <1>10, <1>11, <1>12 DEF Next

\* A container of a tag that is created gets what was pulled last.
LEMMA PulledStep ==
    ASSUME Inv, Current, [Next]_vars, NEW c \in Containers,
           image[c] = NoName, image'[c] \in Tags, pulled # NoBase
    PROVE  lower'[c] \in broken \cup {pulled}
<1> USE ImageAssumption DEF Inv
<1>1. ~UNCHANGED image
  BY DEF Types, TypeOK
<1>2. Mount
  BY <1>1 DEF Next, vars, PullRpc, Prepare, GetToken, PullCached, PullFresh, Fetch, Fetched,
     Extracts, MergeLayer, PullDone, Download, Extract, Extracted, PullFails, MountFails, AgentRestart, VMRestart, Restart,
     Push, Expire, ctrVars
<1>3. op.pc = "mount" /\ op.ctr = c /\ op.name \in Tags /\ op.base # NoBase
  BY <1>2 DEF Mount, Types, TypeOK, OpTypes
<1>4. lower'[c] = op.base
  BY <1>2, <1>3 DEF Mount, Types, TypeOK
<1> QED
  BY <1>3, <1>4 DEF Current

\* Until the agent restarts, creating a container of the repository gives it the
\* digest pulled last, however pulls, failures and moved tags interleave.
THEOREM PulledIsMounted == Spec => PulledBase
<1>1. Init => Inv /\ Current
  BY InvInductive DEF Init, Current, Idle
<1>2. (Inv /\ Current) /\ [Next]_vars => (Inv /\ Current)'
  BY InvInductive, CurrentStep
<1>3. (Inv /\ Current) /\ [Next]_vars =>
        [\A c \in Containers :
            image[c] = NoName /\ image'[c] \in Tags /\ pulled # NoBase
                => lower'[c] \in broken \cup {pulled}]_vars
  BY PulledStep
<1> QED
  BY <1>1, <1>2, <1>3, PTL DEF Spec, PulledBase

-----------------------------------------------------------------------------
(***************************************************************************)
(* The merge of a layer.                                                   *)
(***************************************************************************)
Node(p) == [kind |-> "node", path |-> p]
Done == Entries(layer) \ todo

\* What a marker hides.
Hides(e) ==
    CASE e.kind = "wh"   -> {e.path} \cup Below(e.path)
      [] e.kind = "opq"  -> Below(e.path)
      [] e.kind = "node" -> {}

\* a comes before b since it has a smaller name at place k.
Branches(a, b, k) ==
    /\ k \in 1..Len(a) /\ k <= Len(b) /\ a[k] < b[k]
    /\ \A i \in 1..(k - 1) : a[i] = b[i]

\* The walk has met what comes first.
Ordered == \A e \in Done, f \in todo : Precedes(Key(e), Key(f))

\* What is left of the layer finds its directories in the rootfs.
ParentsMade ==
    ~failed => \A p, a \in Paths :
        Node(p) \in todo /\ p \in Below(a) /\ Node(a) \notin todo => fs[a] = "dir"

HiddenSoFar == UNION {Hides(e) : e \in Done}

\* Of a layer of the kind that MergeCorrect speaks of, what has been walked is merged.
MergedSoFar ==
    MarkersBefore(layer) /\ SameKinds(base, layer) =>
        /\ ~failed
        /\ \A p \in Paths :
              fs[p] = IF layer.node[p] # "none" /\ Node(p) \notin todo THEN layer.node[p]
                      ELSE IF p \in HiddenSoFar THEN "none" ELSE base[p]

MergeInv ==
    /\ layer \in LayerTrees /\ base \in Trees(Nodes \ {"new"})
    /\ MergeTypeOK /\ Ordered /\ ParentsMade

-----------------------------------------------------------------------------
\* A path is a sequence of names, none of which is the markers'.
LEMMA PathIsSeq ==
  ASSUME NEW p \in Paths
  PROVE  /\ p \in Seq(Nat) /\ Len(p) \in Nat /\ Len(p) > 0 /\ Wh \in Nat
         /\ \A i \in 1..Len(p) : p[i] \in Nat /\ p[i] # Wh
<1>1. p \in Seq(Nat \ {Wh}) /\ p # <<>>
  BY LayerAssumption
<1>2. p \in Seq(Nat) /\ Len(p) \in Nat
  BY <1>1, SeqMonotonic, LenProperties
<1>3. Len(p) > 0
  BY <1>1, <1>2, EmptySeq
<1> QED
  BY <1>1, <1>2, <1>3, ElementOfSeq, LayerAssumption

\* A strict prefix, name by name.
LEMMA StrictPrefix ==
  ASSUME NEW s \in Seq(Nat), NEW t \in Seq(Nat)
  PROVE  IsStrictPrefix(s, t) <=>
           Len(s) < Len(t) /\ \A i \in 1..Len(s) : s[i] = t[i]
<1>1. Len(s) \in Nat /\ Len(t) \in Nat
  BY LenProperties
<1>2. \A i \in 1..Len(s) : s[i] \in Nat
  BY ElementOfSeq
<1>3. \A i \in 1..Len(t) : t[i] \in Nat
  BY ElementOfSeq
<1>4. Len(s) <= Len(t) =>
        (SubSeq(s, 1, Len(s)) = SubSeq(t, 1, Len(s)) <=> \A i \in 1..Len(s) : s[i] = t[i])
  <2> SUFFICES ASSUME Len(s) <= Len(t)
               PROVE  SubSeq(s, 1, Len(s)) = SubSeq(t, 1, Len(s))
                        <=> \A i \in 1..Len(s) : s[i] = t[i]
    OBVIOUS
  <2>1. /\ SubSeq(s, 1, Len(s)) \in Seq(Nat) /\ Len(SubSeq(s, 1, Len(s))) = Len(s)
        /\ \A i \in 1..Len(s) : SubSeq(s, 1, Len(s))[i] = s[i]
    BY <1>1, <1>2, SubSeqProperties
  <2>2. /\ SubSeq(t, 1, Len(s)) \in Seq(Nat) /\ Len(SubSeq(t, 1, Len(s))) = Len(s)
        /\ \A i \in 1..Len(s) : SubSeq(t, 1, Len(s))[i] = t[i]
    BY <1>1, <1>3, SubSeqProperties
  <2> QED
    BY <2>1, <2>2, SeqEqual
<1>5. Len(s) = Len(t) /\ (\A i \in 1..Len(s) : s[i] = t[i]) => s = t
  BY SeqEqual
<1> QED
  BY <1>1, <1>4, <1>5 DEF IsStrictPrefix, IsPrefix

\* What the order of the walk says, name by name.
LEMMA PrecedesBy ==
  ASSUME NEW a \in Seq(Nat), NEW b \in Seq(Nat)
  PROVE  Precedes(a, b) <=> IsStrictPrefix(a, b) \/ \E k \in 1..Len(a) : Branches(a, b, k)
<1>1. ASSUME NEW k \in 1..Len(a), k <= Len(b)
      PROVE  SubSeq(a, 1, k - 1) = SubSeq(b, 1, k - 1)
               <=> \A i \in 1..(k - 1) : a[i] = b[i]
  <2>a. /\ Len(a) \in Nat /\ \A i \in 1..Len(a) : a[i] \in Nat
    BY LenProperties, ElementOfSeq
  <2>b. /\ Len(b) \in Nat /\ \A i \in 1..Len(b) : b[i] \in Nat
    BY LenProperties, ElementOfSeq
  <2>1. /\ Len(a) \in Nat /\ Len(b) \in Nat /\ k - 1 \in Int /\ 1 \in Int
        /\ \A i \in 1..(k - 1) : a[i] \in Nat /\ b[i] \in Nat
    BY <1>1, <2>a, <2>b
  <2>2. /\ SubSeq(a, 1, k - 1) \in Seq(Nat) /\ Len(SubSeq(a, 1, k - 1)) = k - 1
        /\ \A i \in 1..(k - 1) : SubSeq(a, 1, k - 1)[i] = a[i]
    BY <2>1, SubSeqProperties
  <2>3. /\ SubSeq(b, 1, k - 1) \in Seq(Nat) /\ Len(SubSeq(b, 1, k - 1)) = k - 1
        /\ \A i \in 1..(k - 1) : SubSeq(b, 1, k - 1)[i] = b[i]
    BY <2>1, SubSeqProperties
  <2> QED
    BY <2>2, <2>3, SeqEqual
<1> QED
  BY <1>1 DEF Precedes, Branches

\* The order of the walk is one.
LEMMA Asymmetric ==
  ASSUME NEW a \in Seq(Nat), NEW b \in Seq(Nat), Precedes(a, b), Precedes(b, a)
  PROVE  FALSE
<1>1. /\ Len(a) \in Nat /\ Len(b) \in Nat
      /\ \A i \in 1..Len(a) : a[i] \in Nat
      /\ \A i \in 1..Len(b) : b[i] \in Nat
  BY LenProperties, ElementOfSeq
<1>2. ASSUME NEW k \in 1..Len(a), Branches(a, b, k) PROVE FALSE
  <2>1. ~IsStrictPrefix(b, a)
    BY <1>1, <1>2, StrictPrefix DEF Branches
  <2>2. PICK l \in 1..Len(b) : Branches(b, a, l)
    BY <2>1, PrecedesBy
  <2>3. CASE l < k
    BY <1>1, <1>2, <2>2, <2>3 DEF Branches
  <2>4. CASE l = k
    BY <1>1, <1>2, <2>2, <2>4 DEF Branches
  <2>5. CASE l > k
    <3>1. b[k] = a[k] /\ a[k] < b[k] /\ a[k] \in Nat
      BY <1>1, <1>2, <2>2, <2>5 DEF Branches
    <3> QED
      BY <3>1
  <2> QED
    BY <1>1, <2>3, <2>4, <2>5
<1>3. ASSUME NEW k \in 1..Len(b), Branches(b, a, k) PROVE FALSE
  <2>1. ~IsStrictPrefix(a, b)
    BY <1>1, <1>3, StrictPrefix DEF Branches
  <2> QED
    BY <1>2, <2>1, PrecedesBy
<1>4. ~(IsStrictPrefix(a, b) /\ IsStrictPrefix(b, a))
  BY <1>1, StrictPrefix
<1> QED
  BY <1>2, <1>3, <1>4, PrecedesBy

-----------------------------------------------------------------------------
\* The layer's paths and keys.
LEMMA LayerTypes ==
  ASSUME layer \in LayerTrees
  PROVE  /\ layer.node \in Trees(Nodes \ {"old"}) /\ layer.node \in [Paths -> Nodes]
         /\ layer.wh \subseteq Paths /\ layer.opq \subseteq Paths \cup {<<>>}
<1>1. PICK t \in Trees(Nodes \ {"old"}) :
        layer \in [node : {t}, wh : SUBSET UNION {Children(d) : d \in Dirs(t)}, opq : SUBSET Dirs(t)]
  BY DEF LayerTrees
<1>2. layer.node = t /\ layer.wh \subseteq Paths
  BY <1>1 DEF Children, Below
<1>3. layer.opq \subseteq Paths \cup {<<>>}
  BY <1>1 DEF Dirs
<1>4. t \in [Paths -> Nodes]
  BY DEF Trees
<1> QED
  BY <1>1, <1>2, <1>3, <1>4

\* What the walk meets: a node, a whiteout of a path, or an opaque directory.
LEMMA EntryTypes ==
  ASSUME layer \in LayerTrees, NEW e \in Entries(layer)
  PROVE  \/ e = Node(e.path) /\ e.path \in Paths /\ layer.node[e.path] # "none"
         \/ e.kind = "wh" /\ e.path \in Paths /\ e.path \in layer.wh
         \/ e.kind = "opq" /\ e.path \in Paths \cup {<<>>} /\ e.path \in layer.opq
  BY LayerTypes DEF Entries, Node

\* A path's directory, name by name.
LEMMA FrontOf ==
  ASSUME NEW s \in Seq(Nat), Len(s) > 0
  PROVE  /\ Front(s) \in Seq(Nat) /\ Len(Front(s)) = Len(s) - 1
         /\ \A i \in 1..(Len(s) - 1) : Front(s)[i] = s[i]
<1>1. ASSUME NEW n \in Nat, Len(s) = n + 1
      PROVE  /\ SubSeq(s, 1, n) \in Seq(Nat) /\ Len(SubSeq(s, 1, n)) = n
             /\ \A i \in 1..n : SubSeq(s, 1, n)[i] = s[i]
  BY <1>1, ElementOfSeq, SubSeqProperties
<1>2. Len(s) - 1 \in Nat /\ Len(s) = (Len(s) - 1) + 1
  BY LenProperties
<1> QED
  BY <1>1, <1>2 DEF Front

\* A whiteout's place in the walk: as its path, up to the last name.
LEMMA WhiteoutKey ==
  ASSUME NEW p \in Paths
  PROVE  LET key == Front(p) \o <<Wh, Last(p)>>
         IN  /\ key \in Seq(Nat) /\ Len(key) = Len(p) + 1
             /\ key[Len(p)] = Wh
             /\ \A i \in 1..(Len(p) - 1) : key[i] = p[i]
<1>1. /\ Front(p) \in Seq(Nat) /\ Len(Front(p)) = Len(p) - 1
      /\ \A i \in 1..(Len(p) - 1) : Front(p)[i] = p[i]
  BY PathIsSeq, FrontOf
<1>2. /\ <<Wh, Last(p)>> \in Seq(Nat) /\ Len(<<Wh, Last(p)>>) = 2
      /\ <<Wh, Last(p)>>[1] = Wh
  BY PathIsSeq DEF Last
<1> DEFINE key == Front(p) \o <<Wh, Last(p)>>
<1>3. /\ key \in Seq(Nat) /\ Len(key) = Len(Front(p)) + 2
      /\ \A i \in 1..(Len(Front(p)) + 2) :
            key[i] = IF i <= Len(Front(p)) THEN Front(p)[i]
                     ELSE <<Wh, Last(p)>>[i - Len(Front(p))]
  BY <1>1, <1>2, ConcatProperties
<1> HIDE DEF key
<1>4. /\ key \in Seq(Nat) /\ Len(key) = Len(p) + 1 /\ key[Len(p)] = Wh
      /\ \A i \in 1..(Len(p) - 1) : key[i] = p[i]
  <2>1. Len(p) \in Nat /\ Len(p) > 0 /\ Len(Front(p)) = Len(p) - 1
    BY <1>1, PathIsSeq
  <2>2. key[Len(p)] = <<Wh, Last(p)>>[1]
    <3>1. Len(p) \in 1..(Len(Front(p)) + 2) /\ ~(Len(p) <= Len(Front(p)))
      BY <2>1
    <3>2. Len(p) - Len(Front(p)) = 1
      BY <2>1
    <3> QED
      BY <1>3, <3>1, <3>2
  <2>3. \A i \in 1..(Len(p) - 1) : key[i] = p[i]
    <3> SUFFICES ASSUME NEW i \in 1..(Len(p) - 1) PROVE key[i] = p[i]
      OBVIOUS
    <3>1. i \in 1..(Len(Front(p)) + 2) /\ i <= Len(Front(p))
      BY <2>1
    <3>2. key[i] = Front(p)[i]
      BY <1>3, <3>1
    <3> QED
      BY <1>1, <3>2
  <2> QED
    BY <1>2, <1>3, <2>1, <2>2, <2>3
<1> QED
  BY <1>4 DEF key

\* An opaque marker's place: first in its directory but for the names before Wh.
LEMMA OpaqueKey ==
  ASSUME NEW d \in Paths \cup {<<>>}
  PROVE  /\ d \in Seq(Nat) /\ Len(d) \in Nat
         /\ Append(d, Wh) \in Seq(Nat) /\ Len(Append(d, Wh)) = Len(d) + 1
         /\ Append(d, Wh)[Len(d) + 1] = Wh
         /\ \A i \in 1..Len(d) : Append(d, Wh)[i] = d[i]
<1>1. d \in Seq(Nat) /\ Wh \in Nat
  BY PathIsSeq, EmptySeq, LayerAssumption
<1> QED
  BY <1>1, AppendProperties, LenProperties

\* Every place in the walk is a sequence of numbers.
LEMMA KeyTypes ==
  ASSUME layer \in LayerTrees, NEW e \in Entries(layer)
  PROVE  Key(e) \in Seq(Nat)
<1>1. CASE e = Node(e.path) /\ e.path \in Paths
  BY <1>1, PathIsSeq DEF Key, Node
<1>2. CASE e.kind = "wh" /\ e.path \in Paths
  BY <1>2, WhiteoutKey DEF Key
<1>3. CASE e.kind = "opq" /\ e.path \in Paths \cup {<<>>}
  BY <1>3, OpaqueKey DEF Key
<1> QED
  BY <1>1, <1>2, <1>3, EntryTypes

\* A marker's key leaves the path of what it hides where the hidden name is.
LEMMA MarkerKey ==
  ASSUME layer \in LayerTrees, NEW e \in Entries(layer), NEW a \in Hides(e)
  PROVE  /\ a \in Paths
         /\ \E k \in 1..Len(a) :
              /\ k = IF e.kind = "wh" THEN Len(e.path) ELSE Len(e.path) + 1
              /\ k <= Len(Key(e)) /\ Key(e)[k] = Wh
              /\ \A i \in 1..(k - 1) : Key(e)[i] = a[i]
<1>1. CASE e.kind = "wh"
  <2>1. e.path \in Paths /\ Key(e) = Front(e.path) \o <<Wh, Last(e.path)>>
    BY <1>1, EntryTypes DEF Key, Node
  <2>2. a \in Paths /\ (a = e.path \/ IsStrictPrefix(e.path, a))
    BY <1>1, <2>1 DEF Hides, Below
  <2>3. Len(e.path) <= Len(a) /\ \A i \in 1..Len(e.path) : e.path[i] = a[i]
    <3>1. e.path \in Seq(Nat) /\ a \in Seq(Nat) /\ Len(e.path) \in Nat /\ Len(a) \in Nat
      BY <2>1, <2>2, PathIsSeq
    <3> QED
      BY <2>2, <3>1, StrictPrefix
  <2>4. Len(e.path) \in 1..Len(a)
    BY <2>1, <2>2, <2>3, PathIsSeq
  <2> QED
    <3>1. /\ Len(e.path) \in Nat /\ Len(Key(e)) = Len(e.path) + 1
          /\ Key(e)[Len(e.path)] = Wh
          /\ \A i \in 1..(Len(e.path) - 1) : Key(e)[i] = e.path[i]
      BY <2>1, WhiteoutKey, PathIsSeq
    <3> QED
      BY <1>1, <2>2, <2>3, <2>4, <3>1
<1>2. CASE e.kind = "opq"
  <2>1. e.path \in Paths \cup {<<>>} /\ Key(e) = Append(e.path, Wh)
    BY <1>2, EntryTypes DEF Key, Node
  <2>2. a \in Paths /\ IsStrictPrefix(e.path, a)
    BY <1>2 DEF Hides, Below
  <2>3. Len(e.path) < Len(a) /\ \A i \in 1..Len(e.path) : e.path[i] = a[i]
    BY <2>1, <2>2, PathIsSeq, OpaqueKey, StrictPrefix
  <2>4. Len(e.path) + 1 \in 1..Len(a)
    BY <2>1, <2>2, <2>3, PathIsSeq, OpaqueKey
  <2> QED
    <3>1. /\ Len(e.path) \in Nat /\ Len(Key(e)) = Len(e.path) + 1
          /\ Key(e)[Len(e.path) + 1] = Wh
          /\ \A i \in 1..Len(e.path) : Key(e)[i] = e.path[i]
      BY <2>1, OpaqueKey
    <3> QED
      BY <1>2, <2>2, <2>3, <2>4, <3>1
<1> QED
  BY <1>1, <1>2, EntryTypes DEF Hides, Node

\* What it hides stands wholly on one side of it: what is below a path on the
\* same side as the path.
LEMMA MarkerSide ==
  ASSUME layer \in LayerTrees, NEW e \in Entries(layer), NEW a \in Hides(e),
         NEW p \in Below(a)
  PROVE  /\ p \in Hides(e)
         /\ Precedes(a, Key(e)) => Precedes(p, Key(e))
<1>1. PICK k \in 1..Len(a) :
        /\ k <= Len(Key(e)) /\ Key(e)[k] = Wh
        /\ \A i \in 1..(k - 1) : Key(e)[i] = a[i]
  BY MarkerKey
<1>2. a \in Paths /\ p \in Paths
  BY MarkerKey DEF Below
<1>3. Key(e) \in Seq(Nat) /\ Len(Key(e)) \in Nat
  BY KeyTypes, LenProperties
<1>4. Len(a) < Len(p) /\ \A i \in 1..Len(a) : a[i] = p[i]
  BY <1>2, PathIsSeq, StrictPrefix DEF Below
<1>5. p \in Hides(e)
  <2>1. e.path \in Seq(Nat) /\ Len(e.path) \in Nat
    BY EntryTypes, PathIsSeq, OpaqueKey
  <2>2. IsStrictPrefix(e.path, a) => IsStrictPrefix(e.path, p)
    <3>1. a \in Seq(Nat) /\ p \in Seq(Nat) /\ Len(a) \in Nat /\ Len(p) \in Nat
      BY <1>2, PathIsSeq
    <3>2. ASSUME IsStrictPrefix(e.path, a) PROVE IsStrictPrefix(e.path, p)
      <4>1. Len(e.path) < Len(a) /\ \A i \in 1..Len(e.path) : e.path[i] = a[i]
        BY <2>1, <3>1, <3>2, StrictPrefix
      <4>2. Len(e.path) < Len(p) /\ \A i \in 1..Len(e.path) : e.path[i] = p[i]
        <5> SUFFICES ASSUME NEW i \in 1..Len(e.path) PROVE e.path[i] = p[i]
          BY <1>4, <2>1, <3>1, <4>1
        <5>1. i \in 1..Len(a)
          BY <2>1, <3>1, <4>1
        <5> QED
          BY <1>4, <4>1, <5>1
      <4> QED
        BY <2>1, <3>1, <4>2, StrictPrefix
    <3> QED
      BY <3>2
  <2> QED
    BY <1>2, <2>2, EntryTypes DEF Hides, Below, Node
<1>6. Precedes(a, Key(e)) => Precedes(p, Key(e))
  <2> SUFFICES ASSUME Precedes(a, Key(e)) PROVE Precedes(p, Key(e))
    OBVIOUS
  <2>1. a[k] \in Nat /\ a[k] # Wh /\ Wh \in Nat
    BY <1>2, PathIsSeq
  <2>2. ~IsStrictPrefix(a, Key(e))
    BY <1>1, <1>2, <1>3, <2>1, PathIsSeq, StrictPrefix
  <2>3. PICK l \in 1..Len(a) : Branches(a, Key(e), l)
    BY <1>2, <1>3, <2>2, PathIsSeq, PrecedesBy
  <2>4. Branches(p, Key(e), l)
    <3>1. Len(a) \in Nat /\ Len(p) \in Nat
      BY <1>2, PathIsSeq
    <3> QED
      BY <1>3, <1>4, <2>3, <3>1 DEF Branches
  <2>5. l \in 1..Len(p)
    BY <2>4 DEF Branches
  <2> QED
    BY <1>2, <1>3, <2>4, <2>5, PathIsSeq, PrecedesBy
<1> QED
  BY <1>5, <1>6

\* In a layer whose markers come first, a marker comes before what it hides.
LEMMA MarkerFirst ==
  ASSUME layer \in LayerTrees, MarkersBefore(layer), NEW e \in Entries(layer),
         NEW a \in Hides(e), layer.node[a] # "none"
  PROVE  Precedes(Key(e), a)
<1>1. PICK k \in 1..Len(a) :
        /\ k = IF e.kind = "wh" THEN Len(e.path) ELSE Len(e.path) + 1
        /\ k <= Len(Key(e)) /\ Key(e)[k] = Wh
        /\ \A i \in 1..(k - 1) : Key(e)[i] = a[i]
  BY MarkerKey
<1>2. a \in Paths /\ Key(e) \in Seq(Nat) /\ Len(Key(e)) \in Nat
  BY MarkerKey, KeyTypes, LenProperties
<1> DEFINE r == SubSeq(a, 1, k)
<1>3. /\ r \in Paths /\ Len(r) = k /\ \A i \in 1..k : r[i] = a[i]
  <2>1. r \in Paths
    BY <1>2, LayerAssumption
  <2> QED
    BY <1>2, <2>1, PathIsSeq, SubSeqProperties
<1>4. layer.node[r] # "none"
  <2>1. a \in Below(r) \/ a = r
    <3>1. CASE k = Len(a)
      BY <1>2, <1>3, <3>1, PathIsSeq, SeqEqual
    <3>2. CASE k < Len(a)
      BY <1>2, <1>3, <3>2, PathIsSeq, StrictPrefix DEF Below
    <3> QED
      BY <1>2, <3>1, <3>2, PathIsSeq
  <2>2. a \in Below(r) => layer.node[r] = "dir"
    BY <1>2, <1>3, LayerTypes DEF Trees
  <2> QED
    BY <2>1, <2>2
<1>5. r \in layer.wh \/ Front(r) \in layer.opq
  <2>1. CASE e.kind = "wh"
    <3>1. e.path \in Paths /\ e.path \in layer.wh /\ Len(e.path) = k
      BY <1>1, <2>1, EntryTypes DEF Node
    <3>2. \A i \in 1..k : e.path[i] = a[i]
      BY <1>2, <2>1, <3>1, PathIsSeq, StrictPrefix DEF Hides, Below
    <3> QED
      <4>1. r \in Seq(Nat) /\ e.path \in Seq(Nat)
        BY <1>3, <3>1, PathIsSeq
      <4>2. r = e.path
        BY <1>3, <3>1, <3>2, <4>1, SeqEqual
      <4> QED
        BY <3>1, <4>2
  <2>2. CASE e.kind = "opq"
    <3>1. e.path \in Paths \cup {<<>>} /\ e.path \in layer.opq /\ Len(e.path) = k - 1
      BY <1>1, <2>2, EntryTypes, OpaqueKey DEF Node
    <3>2. \A i \in 1..(k - 1) : e.path[i] = a[i]
      <4>1. IsStrictPrefix(e.path, a)
        BY <2>2 DEF Hides, Below
      <4>2. a \in Seq(Nat) /\ e.path \in Seq(Nat)
        BY <1>2, <3>1, PathIsSeq, OpaqueKey
      <4> QED
        BY <3>1, <4>1, <4>2, StrictPrefix
    <3>3. /\ Front(r) \in Seq(Nat) /\ Len(Front(r)) = k - 1
          /\ \A i \in 1..(k - 1) : Front(r)[i] = r[i]
      BY <1>3, PathIsSeq, FrontOf
    <3>4. Front(r) = e.path
      <4>1. e.path \in Seq(Nat) /\ Len(e.path) = k - 1 /\ k \in Nat
        BY <3>1, OpaqueKey
      <4>2. \A i \in 1..(k - 1) : Front(r)[i] = e.path[i]
        BY <1>3, <3>2, <3>3
      <4> QED
        BY <3>3, <4>1, <4>2, SeqEqual
    <3> QED
      BY <3>1, <3>4
  <2> QED
    BY <2>1, <2>2, EntryTypes DEF Hides, Node
<1>6. r[k] > Wh
  BY <1>3, <1>4, <1>5 DEF MarkersBefore, Last
<1>7. Branches(Key(e), a, k)
  BY <1>1, <1>2, <1>3, <1>6, PathIsSeq DEF Branches
<1>8. k \in 1..Len(Key(e))
  BY <1>1, <1>2, PathIsSeq
<1> QED
  BY <1>2, <1>7, <1>8, PathIsSeq, PrecedesBy

-----------------------------------------------------------------------------
\* The rootfs remains a tree when what is removed is whole, and when what is made
\* stands in directories and replaces no directory that has something in it.
LEMMA TreeRemoved ==
  ASSUME fs \in Trees(Nodes), NEW S, \A p \in S \cap Paths : Below(p) \subseteq S
  PROVE  Removed(S) \in Trees(Nodes)
<1>1. fs \in [Paths -> Nodes] /\ fs[LinkTo] # "dir" /\ LinkTo \in Paths
  BY LayerAssumption DEF Trees
<1>2. Removed(S) \in [Paths -> Nodes]
  BY <1>1 DEF Removed, Nodes
<1>3. Removed(S)[LinkTo] # "dir"
  BY <1>1 DEF Removed
<1>4. ASSUME NEW p \in Paths, NEW d \in Paths, Removed(S)[p] # "none", p \in Below(d)
      PROVE  Removed(S)[d] = "dir"
  <2>1. p \notin S /\ fs[p] # "none"
    BY <1>4 DEF Removed
  <2>2. d \notin S /\ fs[d] = "dir"
    BY <1>4, <2>1 DEF Trees
  <2> QED
    BY <2>2 DEF Removed
<1> QED
  BY <1>2, <1>3, <1>4 DEF Trees

\* ... and when what is made stands in directories:
LEMMA TreeMade ==
  ASSUME fs \in Trees(Nodes), NEW o \in Paths, NEW v \in Nodes, v # "none",
         \A d \in Paths : o \in Below(d) => fs[d] = "dir",
         (v = "dir" /\ o # LinkTo) \/ (v # "dir" /\ \A q \in Below(o) : fs[q] = "none")
  PROVE  [fs EXCEPT ![o] = v] \in Trees(Nodes)
<1> DEFINE t == [fs EXCEPT ![o] = v]
<1>1. fs \in [Paths -> Nodes] /\ fs[LinkTo] # "dir" /\ LinkTo \in Paths
  BY LayerAssumption DEF Trees
<1>2. t \in [Paths -> Nodes] /\ t[LinkTo] # "dir"
  BY <1>1
<1>3. ASSUME NEW p \in Paths, NEW d \in Paths, t[p] # "none", p \in Below(d)
      PROVE  t[d] = "dir"
  <2>0. o \notin Below(o)
    BY DEF Below, IsStrictPrefix
  <2>1. CASE p = o
    BY <1>1, <1>3, <2>0, <2>1
  <2>2. CASE p # o
    <3>1. fs[p] # "none" /\ fs[d] = "dir"
      BY <1>1, <1>3, <2>2 DEF Trees
    <3>2. CASE d = o
      BY <1>1, <1>3, <3>1, <3>2
    <3> QED
      BY <1>1, <3>1, <3>2
  <2> QED
    BY <2>1, <2>2
<1> QED
  BY <1>2, <1>3 DEF Trees

-----------------------------------------------------------------------------
\* What is walked stays in order.
LEMMA AtOrdered ==
  ASSUME MergeInv, NEW e, At(e), layer' = layer
  PROVE  /\ e \in Entries(layer) /\ ~failed
         /\ todo' = todo \ {e} /\ todo' \in SUBSET Entries(layer')
         /\ Ordered'
<1>1. /\ e \in todo /\ todo \subseteq Entries(layer) /\ ~failed /\ todo' = todo \ {e}
      /\ \A f \in todo \ {e} : Precedes(Key(e), Key(f))
  BY DEF MergeInv, MergeTypeOK, At
<1>2. Entries(layer') = Entries(layer)
  OBVIOUS
<1>3. Ordered'
  BY <1>1, <1>2 DEF MergeInv, Ordered, Done
<1> QED
  BY <1>1, <1>2, <1>3

\* The directories of the layer's next node are there.
LEMMA ParentsReady ==
  ASSUME MergeInv, NEW p \in Paths, layer.node[p] # "none", At(Node(p))
  PROVE  \A d \in Paths : p \in Below(d) => fs[d] = "dir"
<1> SUFFICES ASSUME NEW d \in Paths, p \in Below(d) PROVE fs[d] = "dir"
  OBVIOUS
<1>1. Precedes(d, p) /\ d \in Seq(Nat) /\ p \in Seq(Nat)
  BY PathIsSeq DEF Below, Precedes
<1>2. Key(Node(d)) = d /\ Key(Node(p)) = p /\ Node(d) # Node(p)
  <2>1. d # p
    BY DEF Below, IsStrictPrefix
  <2> QED
    BY <2>1 DEF Key, Node
<1>3. Node(d) \notin todo
  BY <1>1, <1>2, Asymmetric DEF At
<1> QED
  BY <1>3 DEF At, MergeInv, ParentsMade

\* A layer's node stands in its directories, of which only MakeDir makes one.
LEMMA AncestorIsDir ==
  ASSUME layer \in LayerTrees, NEW p \in Paths, NEW a \in Paths, p \in Below(a),
         Node(p) \in Entries(layer)
  PROVE  /\ layer.node[p] # "none" /\ layer.node[a] = "dir"
         /\ Node(a) \in Entries(layer)
<1>1. layer.node[p] # "none"
  BY EntryTypes DEF Node
<1>2. layer.node[a] = "dir"
  BY <1>1, LayerTypes DEF Trees
<1> QED
  BY <1>1, <1>2 DEF Entries, Node

\* A marker keeps the invariant.
LEMMA RemovalInv ==
  ASSUME MergeInv, NEW e, e.kind # "node", At(e), fs' = Removed(Hides(e)),
         UNCHANGED <<base, layer, failed>>
  PROVE  MergeInv'
<1>1. e \in Entries(layer) /\ todo' = todo \ {e} /\ todo' \in SUBSET Entries(layer')
      /\ layer \in LayerTrees /\ Ordered' /\ ~failed
  BY AtOrdered DEF MergeInv
<1>2. \A p \in Hides(e) \cap Paths : Below(p) \subseteq Hides(e)
  BY <1>1, MarkerSide
<1>3. fs' \in Trees(Nodes)
  BY <1>2, TreeRemoved DEF MergeInv, MergeTypeOK
<1>4. MergeTypeOK'
  BY <1>1, <1>3 DEF MergeInv, MergeTypeOK
<1>5. ParentsMade'
  <2> SUFFICES ASSUME NEW p \in Paths, NEW a \in Paths, Node(p) \in todo',
                      p \in Below(a), Node(a) \notin todo'
               PROVE  fs'[a] = "dir"
    BY DEF ParentsMade, Below
  <2>1. Node(p) \in todo /\ Node(p) # e /\ Node(a) # e /\ Node(a) \notin todo
    BY <1>1 DEF Node
  <2>2. Node(a) \in Done /\ e \in todo
    BY <1>1, <2>1, AncestorIsDir DEF Done, MergeInv, MergeTypeOK, At
  <2>3. Precedes(a, Key(e))
    BY <2>2 DEF MergeInv, Ordered, Key, Node
  <2>4. Precedes(Key(e), p)
    BY <2>1 DEF At, Key, Node
  <2>5. a \notin Hides(e)
    BY <1>1, <2>3, <2>4, MarkerSide, Asymmetric, KeyTypes, PathIsSeq
  <2>6. fs[a] = "dir"
    BY <1>1, <2>1 DEF MergeInv, ParentsMade
  <2> QED
    BY <2>5, <2>6 DEF Removed
<1> QED
  BY <1>1, <1>4, <1>5 DEF MergeInv

\* A node that is made: what it is made in, and what it replaces.
LEMMA NodeInv ==
  ASSUME MergeInv, NEW p \in Paths, layer.node[p] # "none", At(Node(p)),
         NEW o \in Paths, NEW v \in Nodes, v # "none", fs' = [fs EXCEPT ![o] = v],
         \A d \in Paths : o \in Below(d) => fs[d] = "dir",
         \/ v = "dir" /\ layer.node[p] = "dir" /\ o = p
         \/ v # "dir" /\ layer.node[p] # "dir" /\ (o = p \/ fs[o] # "dir")
            /\ \A q \in Below(o) : fs[q] = "none",
         UNCHANGED <<base, layer, failed>>
  PROVE  MergeInv'
<1>1. /\ todo' = todo \ {Node(p)} /\ todo' \in SUBSET Entries(layer')
      /\ layer \in LayerTrees /\ Ordered' /\ ~failed /\ fs \in Trees(Nodes)
  BY AtOrdered DEF MergeInv, MergeTypeOK
<1>2. v = "dir" => o # LinkTo
  BY <1>1, LayerTypes DEF Trees
<1>3. fs' \in Trees(Nodes)
  <2>1. (v = "dir" /\ o # LinkTo) \/ (v # "dir" /\ \A q \in Below(o) : fs[q] = "none")
    <3>1. CASE v = "dir"
      BY <1>2, <3>1
    <3>2. CASE v # "dir"
      BY <3>2
    <3> QED
      BY <3>1, <3>2
  <2>2. [fs EXCEPT ![o] = v] \in Trees(Nodes)
    BY <1>1, <2>1, TreeMade
  <2> QED
    BY <2>2
<1>4. MergeTypeOK'
  BY <1>1, <1>3 DEF MergeInv, MergeTypeOK
<1>5. ParentsMade'
  <2> SUFFICES ASSUME NEW q \in Paths, NEW a \in Paths, Node(q) \in todo',
                      q \in Below(a), Node(a) \notin todo'
               PROVE  fs'[a] = "dir"
    BY DEF ParentsMade, Below
  <2>1. Node(q) \in todo /\ Node(q) \in Entries(layer) /\ fs \in [Paths -> Nodes]
    BY <1>1 DEF Trees
  <2>2. layer.node[a] = "dir"
    BY <1>1, <2>1, AncestorIsDir
  <2>3. CASE a = p
    BY <2>1, <2>2, <2>3
  <2>4. CASE a # p
    <3>1. Node(a) \notin todo
      BY <1>1, <2>4 DEF Node
    <3>2. fs[a] = "dir"
      BY <1>1, <2>1, <3>1 DEF MergeInv, ParentsMade
    <3>3. a # o
      BY <2>4, <3>2
    <3> QED
      BY <2>1, <3>2, <3>3
  <2> QED
    BY <2>3, <2>4
<1> QED
  BY <1>1, <1>4, <1>5 DEF MergeInv

\* An entry at which the walk fails keeps the invariant.
LEMMA FailInv ==
  ASSUME MergeInv, NEW p \in Paths, At(Node(p)), Fails
  PROVE  MergeInv'
<1>1. todo' \in SUBSET Entries(layer') /\ Ordered'
  BY AtOrdered DEF Fails
<1> QED
  BY <1>1 DEF MergeInv, MergeTypeOK, ParentsMade, Fails

\* Where a file is opened nothing stands that has something in it.
LEMMA NothingBelow ==
  ASSUME fs \in Trees(Nodes), NEW o \in Paths, fs[o] # "dir"
  PROVE  \A q \in Below(o) : fs[q] = "none"
  BY DEF Trees, Below

\* What is opened is one of the paths.
LEMMA OpenedPath ==
  ASSUME NEW p \in Paths
  PROVE  Opened(p) \in Paths
  BY LayerAssumption DEF Opened

\* The invariants hold before the walk.
LEMMA InitMerge == MergeInit => MergeInv /\ MergedSoFar
<1> SUFFICES ASSUME MergeInit PROVE MergeInv /\ MergedSoFar
  OBVIOUS
<1>1. /\ fs \in Trees(Nodes) /\ fs = base /\ Done = {} /\ failed = FALSE
      /\ todo = Entries(layer) /\ layer \in LayerTrees
  BY DEF MergeInit, Trees, Nodes, Done
<1>2. MergeTypeOK /\ Ordered
  BY <1>1 DEF MergeTypeOK, Ordered
<1>3. ParentsMade
  BY <1>1, AncestorIsDir DEF ParentsMade, Below
<1>4. MergedSoFar
  <2>1. \A p \in Paths : layer.node[p] # "none" => Node(p) \in todo
    BY <1>1 DEF Entries, Node
  <2>2. HiddenSoFar = {}
    BY <1>1 DEF HiddenSoFar
  <2> QED
    BY <1>1, <2>1, <2>2 DEF MergedSoFar
<1> QED
  BY <1>2, <1>3, <1>4 DEF MergeInit, MergeInv

-----------------------------------------------------------------------------
Regular == MarkersBefore(layer) /\ SameKinds(base, layer)

\* What the markers of a layer hide, by kinds of marker.
LEMMA HiddenIs ==
  ASSUME layer \in LayerTrees
  PROVE  Hidden(layer) = UNION {Hides(e) : e \in Entries(layer)}
<1>1. ASSUME NEW p \in Hidden(layer)
      PROVE  \E e \in Entries(layer) : p \in Hides(e)
  <2>1. CASE \E q \in layer.wh : p \in {q} \cup Below(q)
    <3>1. PICK q \in layer.wh : p \in {q} \cup Below(q)
      BY <2>1
    <3>2. [kind |-> "wh", path |-> q] \in Entries(layer)
      BY DEF Entries
    <3> QED
      BY <3>1, <3>2 DEF Hides
  <2>2. CASE \E d \in layer.opq : p \in Below(d)
    <3>1. PICK d \in layer.opq : p \in Below(d)
      BY <2>2
    <3>2. [kind |-> "opq", path |-> d] \in Entries(layer)
      BY DEF Entries
    <3> QED
      BY <3>1, <3>2 DEF Hides
  <2> QED
    <3>1. \/ p \in UNION {{q} \cup Below(q) : q \in layer.wh}
          \/ p \in UNION {Below(d) : d \in layer.opq}
      BY DEF Hidden
    <3> QED
      BY <2>1, <2>2, <3>1
<1>2. ASSUME NEW e \in Entries(layer), NEW p \in Hides(e)
      PROVE  p \in Hidden(layer)
  <2>1. CASE e.kind = "wh"
    <3>1. e.path \in layer.wh /\ p \in {e.path} \cup Below(e.path)
      BY <2>1, EntryTypes DEF Hides, Node
    <3> QED
      BY <3>1 DEF Hidden
  <2>2. CASE e.kind = "opq"
    <3>1. e.path \in layer.opq /\ p \in Below(e.path)
      BY <2>2, EntryTypes DEF Hides, Node
    <3> QED
      BY <3>1 DEF Hidden
  <2> QED
    BY <2>1, <2>2, EntryTypes DEF Hides, Node
<1> QED
  BY <1>1, <1>2

\* What a layer hides is hidden with everything below it.
LEMMA HiddenBelow ==
  ASSUME layer \in LayerTrees, NEW p \in Paths, NEW q \in Below(p)
  PROVE  /\ p \in Hidden(layer) => q \in Hidden(layer)
         /\ p \in HiddenSoFar => q \in HiddenSoFar
<1>1. \A e \in Entries(layer) : p \in Hides(e) => q \in Hides(e)
  BY MarkerSide
<1>2. Done \subseteq Entries(layer)
  BY DEF Done
<1> QED
  BY <1>1, <1>2, HiddenIs DEF HiddenSoFar

\* When the walk comes to a node, it has met what the layer hides of its path.
LEMMA HiddenBefore ==
  ASSUME MergeInv, MarkersBefore(layer), NEW p \in Paths, layer.node[p] # "none",
         At(Node(p))
  PROVE  p \in Hidden(layer) <=> p \in HiddenSoFar
<1>1. layer \in LayerTrees /\ todo \subseteq Entries(layer) /\ Node(p) \in todo
  BY DEF MergeInv, MergeTypeOK, At
<1>2. ASSUME NEW e \in Entries(layer), p \in Hides(e)
      PROVE  e \in Done
  <2>1. Precedes(Key(e), p) /\ Key(e) \in Seq(Nat) /\ p \in Seq(Nat)
    BY <1>1, <1>2, MarkerFirst, KeyTypes, PathIsSeq
  <2>2. e # Node(p) /\ Key(Node(p)) = p
    BY <1>2 DEF Hides, Node, Key
  <2>3. e \notin todo
    BY <2>1, <2>2, Asymmetric DEF At
  <2> QED
    BY <2>3 DEF Done
<1>3. Done \subseteq Entries(layer)
  BY DEF Done
<1> QED
  BY <1>1, <1>2, <1>3, HiddenIs DEF HiddenSoFar

\* What the next node finds in its place.
LEMMA Found ==
  ASSUME MergeInv, MergedSoFar, Regular, NEW p \in Paths, layer.node[p] # "none",
         At(Node(p))
  PROVE  /\ fs[p] \in {"none", layer.node[p]} \/ (fs[p] = "old" /\ layer.node[p] = "new")
         /\ layer.node[p] # "dir" => \A q \in Below(p) : fs[q] = "none"
<1>1. /\ layer \in LayerTrees /\ Node(p) \in todo /\ layer.node \in Trees(Nodes \ {"old"})
      /\ base \in Trees(Nodes \ {"new"}) /\ layer.node[p] \in Nodes \ {"old"}
      /\ base[p] \in Nodes \ {"new"}
  BY LayerTypes DEF MergeInv, At, Trees
<1>2. \A q \in Paths :
         fs[q] = IF layer.node[q] # "none" /\ Node(q) \notin todo THEN layer.node[q]
                 ELSE IF q \in HiddenSoFar THEN "none" ELSE base[q]
  BY DEF MergedSoFar, Regular
<1>3. p \in Hidden(layer) <=> p \in HiddenSoFar
  BY HiddenBefore DEF Regular
<1>4. p \notin Hidden(layer) =>
        base[p] \in {"none", layer.node[p]} \/ (base[p] = "old" /\ layer.node[p] = "new")
  <2> SUFFICES ASSUME {base[p], layer.node[p]} = {"old", "new"}
               PROVE  base[p] = "old" /\ layer.node[p] = "new"
    BY DEF Regular, SameKinds, Files
  <2>1. base[p] \in {"old", "new"} /\ "new" \in {base[p], layer.node[p]}
    OBVIOUS
  <2> QED
    BY <1>1, <2>1
<1>5. ASSUME layer.node[p] # "dir", NEW q \in Below(p)
      PROVE  fs[q] = "none"
  <2>1. q \in Paths /\ layer.node[q] = "none"
    BY <1>1, <1>5 DEF Trees, Below
  <2>2. base[q] # "none" => base[p] = "dir"
    BY <1>1, <2>1, <1>5 DEF Trees
  <2>3. base[q] # "none" => q \in HiddenSoFar
    BY <1>1, <1>3, <1>4, <1>5, <2>2, HiddenBelow
  <2> QED
    BY <1>2, <2>1, <2>3
<1>6. fs[p] = IF p \in HiddenSoFar THEN "none" ELSE base[p]
  BY <1>1, <1>2
<1> QED
  BY <1>3, <1>4, <1>5, <1>6

\* In a regular layer, a marker hides what Merged hides, and nothing made before it.
LEMMA RemovalMerged ==
  ASSUME MergeInv, MergedSoFar, NEW e, e.kind # "node", At(e), fs' = Removed(Hides(e)),
         UNCHANGED <<base, layer, failed>>
  PROVE  MergedSoFar'
<1>1. /\ e \in Entries(layer) /\ todo' = todo \ {e} /\ e \in todo /\ ~failed
      /\ layer \in LayerTrees
  BY AtOrdered DEF MergeInv, At
<1>2. Done' = Done \cup {e}
  BY <1>1 DEF Done
<1>3. HiddenSoFar' = HiddenSoFar \cup Hides(e)
  BY <1>2 DEF HiddenSoFar
<1> SUFFICES ASSUME Regular, NEW p \in Paths
             PROVE  fs'[p] = IF layer.node[p] # "none" /\ Node(p) \notin todo'
                             THEN layer.node[p]
                             ELSE IF p \in HiddenSoFar' THEN "none" ELSE base[p]
  BY <1>1 DEF MergedSoFar, Regular
<1>4. fs[p] = IF layer.node[p] # "none" /\ Node(p) \notin todo THEN layer.node[p]
              ELSE IF p \in HiddenSoFar THEN "none" ELSE base[p]
  BY DEF MergedSoFar, Regular
<1>5. Node(p) \notin todo' <=> Node(p) \notin todo
  BY <1>1 DEF Node
<1>6. ASSUME layer.node[p] # "none", Node(p) \notin todo PROVE p \notin Hides(e)
  <2>1. Node(p) \in Done
    BY <1>6 DEF Done, Entries, Node
  <2>2. Precedes(p, Key(e))
    BY <1>1, <2>1 DEF MergeInv, Ordered, Key, Node
  <2> QED
    BY <1>1, <1>6, <2>2, MarkerFirst, Asymmetric, KeyTypes, PathIsSeq DEF Regular
<1> QED
  BY <1>3, <1>4, <1>5, <1>6 DEF Removed

\* In a regular layer, a node that is made is the one of the layer.
LEMMA NodeMerged ==
  ASSUME MergeInv, MergedSoFar, NEW p \in Paths, layer.node[p] # "none", At(Node(p)),
         Regular => fs' = [fs EXCEPT ![p] = layer.node[p]],
         UNCHANGED <<base, layer, failed>>
  PROVE  MergedSoFar'
<1>1. /\ Node(p) \in Entries(layer) /\ todo' = todo \ {Node(p)} /\ Node(p) \in todo
      /\ ~failed /\ layer \in LayerTrees /\ fs \in [Paths -> Nodes]
  BY AtOrdered DEF MergeInv, MergeTypeOK, At, Trees
<1>2. Done' = Done \cup {Node(p)}
  BY <1>1 DEF Done
<1>3. HiddenSoFar' = HiddenSoFar
  <2>1. Hides(Node(p)) = {}
    BY DEF Hides, Node
  <2> QED
    BY <1>2, <2>1 DEF HiddenSoFar
<1> SUFFICES ASSUME Regular, NEW q \in Paths
             PROVE  fs'[q] = IF layer.node[q] # "none" /\ Node(q) \notin todo'
                             THEN layer.node[q]
                             ELSE IF q \in HiddenSoFar' THEN "none" ELSE base[q]
  BY <1>1 DEF MergedSoFar, Regular
<1>4. fs[q] = IF layer.node[q] # "none" /\ Node(q) \notin todo THEN layer.node[q]
              ELSE IF q \in HiddenSoFar THEN "none" ELSE base[q]
  BY DEF MergedSoFar, Regular
<1>5. CASE q = p
  BY <1>1, <1>5
<1>6. CASE q # p
  BY <1>1, <1>3, <1>4, <1>6 DEF Node
<1> QED
  BY <1>5, <1>6

\* Every step of the walk keeps both invariants.
LEMMA NextMerge == MergeInv /\ MergedSoFar /\ [MergeNext]_mergeVars => MergeInv' /\ MergedSoFar'
<1> SUFFICES ASSUME MergeInv, MergedSoFar, [MergeNext]_mergeVars
             PROVE  MergeInv' /\ MergedSoFar'
  OBVIOUS
<1>0. fs \in Trees(Nodes) /\ layer \in LayerTrees
  BY DEF MergeInv, MergeTypeOK
<1>1. ASSUME NEW d \in Paths \cup {<<>>}, Opaque(d)
      PROVE  MergeInv' /\ MergedSoFar'
  <2> DEFINE e == [kind |-> "opq", path |-> d]
  <2>1. At(e) /\ e.kind # "node" /\ fs' = Removed(Hides(e)) /\ UNCHANGED <<base, layer, failed>>
    BY <1>1 DEF Opaque, OpaqueAll, Hides
  <2> HIDE DEF e
  <2> QED
    BY <2>1, RemovalInv, RemovalMerged
<1>2. ASSUME NEW p \in Paths, Whiteout(p)
      PROVE  MergeInv' /\ MergedSoFar'
  <2> DEFINE e == [kind |-> "wh", path |-> p]
  <2>1. At(e) /\ e.kind # "node" /\ fs' = Removed(Hides(e)) /\ UNCHANGED <<base, layer, failed>>
    BY <1>2 DEF Whiteout, WhiteoutAll, Hides
  <2> HIDE DEF e
  <2> QED
    BY <2>1, RemovalInv, RemovalMerged
<1>3. ASSUME NEW p \in Paths, MakeDir(p)
      PROVE  MergeInv' /\ MergedSoFar'
  <2>1. /\ At(Node(p)) /\ layer.node[p] = "dir" /\ fs' = [fs EXCEPT ![p] = "dir"]
        /\ "dir" \in Nodes /\ UNCHANGED <<base, layer, failed>>
    BY <1>3 DEF MakeDir, Node, Nodes
  <2>2. \A d \in Paths : p \in Below(d) => fs[d] = "dir"
    BY <2>1, ParentsReady
  <2>3. /\ layer.node[p] # "none" /\ fs' = [fs EXCEPT ![p] = layer.node[p]]
        /\ layer.node[p] \in Nodes
    BY <2>1
  <2>4. MergeInv'
    BY <2>1, <2>2, <2>3, NodeInv
  <2> QED
    BY <2>1, <2>3, <2>4, NodeMerged
<1>4. ASSUME NEW p \in Paths, MakeLink(p)
      PROVE  MergeInv' /\ MergedSoFar'
  <2>1. /\ At(Node(p)) /\ layer.node[p] = "link" /\ fs' = [fs EXCEPT ![p] = "link"]
        /\ "link" \in Nodes /\ UNCHANGED <<base, layer, failed>>
        /\ \A q \in Below(p) : fs[q] = "none"
    BY <1>4 DEF MakeLink, InTheWay, Node, Nodes
  <2>2. \A d \in Paths : p \in Below(d) => fs[d] = "dir"
    BY <2>1, ParentsReady
  <2>3. MergeInv'
    BY <2>1, <2>2, NodeInv
  <2> QED
    BY <2>1, <2>3, NodeMerged
<1>5. ASSUME NEW p \in Paths, CopyFile(p)
      PROVE  MergeInv' /\ MergedSoFar'
  <2> DEFINE o == Opened(p)
  <2>1. /\ At(Node(p)) /\ layer.node[p] = "new" /\ fs' = [fs EXCEPT ![o] = "new"]
        /\ "new" \in Nodes /\ UNCHANGED <<base, layer, failed>>
        /\ fs[o] # "dir" /\ \A d \in Paths : o \in Below(d) => fs[d] = "dir"
    BY <1>5 DEF CopyFile, Opens, Node, Nodes
  <2>2. o \in Paths
    BY OpenedPath
  <2>3. \A q \in Below(o) : fs[q] = "none"
    BY <1>0, <2>1, <2>2, NothingBelow
  <2>4. Regular => o = p
    BY <2>1, Found DEF Opened
  <2> HIDE DEF o
  <2>5. MergeInv'
    BY <2>1, <2>2, <2>3, NodeInv
  <2>6. Regular => fs' = [fs EXCEPT ![p] = layer.node[p]]
    BY <2>1, <2>4
  <2> QED
    BY <2>1, <2>5, <2>6, NodeMerged
<1>6. ASSUME NEW p \in Paths, MakeDirFails(p) \/ MakeLinkFails(p) \/ CopyFileFails(p)
      PROVE  MergeInv' /\ MergedSoFar'
  <2>1. At(Node(p)) /\ Fails /\ layer.node[p] # "none"
    BY <1>6 DEF MakeDirFails, MakeLinkFails, CopyFileFails, Node
  <2>2. ASSUME Regular PROVE FALSE
    <3>1. /\ fs[p] \in {"none", layer.node[p]} \/ (fs[p] = "old" /\ layer.node[p] = "new")
          /\ layer.node[p] # "dir" => \A q \in Below(p) : fs[q] = "none"
      BY <2>1, <2>2, Found
    <3>2. \A d \in Paths : p \in Below(d) => fs[d] = "dir"
      BY <2>1, ParentsReady
    <3>3. ~MakeDirFails(p) /\ ~MakeLinkFails(p)
      BY <3>1 DEF MakeDirFails, MakeLinkFails, InTheWay
    <3>4. ~CopyFileFails(p)
      BY <3>1, <3>2 DEF CopyFileFails, Opens, Opened
    <3> QED
      BY <1>6, <3>3, <3>4
  <2>3. MergeInv'
    BY <2>1, FailInv
  <2>4. MergedSoFar'
    BY <2>1, <2>2 DEF MergedSoFar, Regular, Fails
  <2> QED
    BY <2>3, <2>4
<1>7. ASSUME UNCHANGED mergeVars
      PROVE  MergeInv' /\ MergedSoFar'
  <2>1. MergeInv'
    BY <1>7 DEF mergeVars, MergeInv, MergeTypeOK, Ordered, Done, ParentsMade
  <2>2. MergedSoFar'
    BY <1>7 DEF mergeVars, MergedSoFar, HiddenSoFar, Done
  <2> QED
    BY <2>1, <2>2
<1> QED
  BY <1>1, <1>2, <1>3, <1>4, <1>5, <1>6, <1>7 DEF MergeNext

\* So they hold at all times.
LEMMA MergeInvariance == MergeSpec => [](MergeInv /\ MergedSoFar)
  BY InitMerge, NextMerge, PTL DEF MergeSpec

-----------------------------------------------------------------------------
\* Whatever the layer and its order, the rootfs is a tree after every step, and the
\* walk only what is left of the layer's (oci.go:520-569).
THEOREM RootfsIsTree == MergeSpec => []MergeTypeOK
<1>1. MergeInv => MergeTypeOK
  BY DEF MergeInv
<1> QED
  BY <1>1, MergeInvariance, PTL

\* A layer without changes of kind and with its markers first is merged as the image
\* specification says, for layers of any depth and width (oci.go:533-569).
THEOREM LayerMerged == MergeSpec => []MergeCorrect
<1>1. MergeInv /\ MergedSoFar => MergeCorrect
  <2> SUFFICES ASSUME MergeInv, MergedSoFar, todo = {}, Regular
               PROVE  fs = Merged(base, layer)
    BY DEF MergeCorrect, Regular
  <2>1. /\ layer \in LayerTrees /\ layer.node \in [Paths -> Nodes] /\ fs \in [Paths -> Nodes]
        /\ base \in Trees(Nodes \ {"new"})
    BY LayerTypes DEF MergeInv, MergeTypeOK, Trees
  <2>2. HiddenSoFar = Hidden(layer)
    <3>1. Done = Entries(layer)
      BY DEF Done
    <3> QED
      BY <2>1, <3>1, HiddenIs DEF HiddenSoFar
  <2>3. ASSUME NEW p \in Paths PROVE fs[p] = Merged(base, layer)[p]
    <3>1. fs[p] = IF layer.node[p] # "none" THEN layer.node[p]
                  ELSE IF p \in Hidden(layer) THEN "none" ELSE base[p]
      BY <2>2 DEF MergedSoFar, Regular
    <3>2. ASSUME NEW q \in Paths, p \in Below(q), layer.node[q] \in {"link", "new"},
                 p \notin Hidden(layer)
          PROVE  base[p] = "none"
      <4>1. q \notin Hidden(layer)
        BY <2>1, <3>2, HiddenBelow
      <4>2. base[q] # "dir"
        BY <3>2, <4>1 DEF Regular, SameKinds, Files
      <4> QED
        BY <2>1, <3>2, <4>2 DEF Trees
    <3> QED
      BY <3>1, <3>2 DEF Merged
  <2>4. Merged(base, layer) = [p \in Paths |-> Merged(base, layer)[p]]
    BY DEF Merged
  <2> QED
    BY <2>1, <2>3, <2>4
<1> QED
  BY <1>1, MergeInvariance, PTL

\* The walk of such a layer does not fail (oci.go:523).
THEOREM FailuresByKind == MergeSpec => []FailsByKind
<1>1. MergedSoFar => FailsByKind
  BY DEF MergedSoFar, FailsByKind
<1> QED
  BY <1>1, MergeInvariance, PTL
==============================================================================
