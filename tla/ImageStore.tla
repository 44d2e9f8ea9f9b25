------------------------------ MODULE ImageStore ------------------------------
(***************************************************************************)
(* The image cache of the guest agent (cmd/aetheria-agent/images.go and    *)
(* oci.go): one repository of an OCI registry, whose tags share a cache    *)
(* directory with one subdirectory per digest, and one built-in image,     *)
(* unpacked from a tarball.                                                *)
(*                                                                         *)
(* One goroutine serves the requests (and, before them, autoRestart), so   *)
(* that one operation is under way at a time; a crash may cut it anywhere. *)
(***************************************************************************)
EXTENDS Naturals

CONSTANTS
    Tags,        \* references to the repository, "nginx:1.25": one ShortName
    Builtin,     \* the name of the built-in image, and its directory
    SameRepo,    \* its ShortName is the repository's, as for "alpine" and "alpine:3.19"
    Digests,     \* the directories of the repository, in lexical order
    Layers,      \* layers of an image
    Containers,
    NoBase,      \* images/<name>/rootfs of a name that is not built in: never made
    NoName, NoContainer,
    MaxRestarts, \* bound: restarts
    MaxPushes    \* bound: times that the registry moves a tag

ASSUME ImageAssumption ==
    /\ Digests \subseteq Nat /\ Builtin \notin Digests
    /\ NoBase \notin Digests \cup {Builtin}
    /\ Builtin \notin Tags /\ NoName \notin Tags \cup {Builtin}
    /\ NoContainer \notin Containers
    /\ Layers \in Nat \ {0} /\ MaxRestarts \in Nat /\ MaxPushes \in Nat
    /\ SameRepo \in BOOLEAN

\* A directory listing has a first element.
ASSUME ListingAssumption ==
    \A D \in SUBSET Digests : D # {} => \E d \in D : \A e \in D : d <= e

Names == Tags \cup {Builtin}
Bases == Digests \cup {Builtin}

VARIABLES
    registry, \* the digest of each tag
    content,  \* each base's rootfs: 0 when empty, else 1 + layers wholly merged
    marker,   \* digests that bear .oci-complete
    token,    \* authTokenCache of the repository
    files,    \* each digest's layer-<i>.tar.gz
    tarball,  \* the built-in image's tarball is downloaded
    entry,    \* ociImagePaths[ShortName]
    op,       \* the operation under way
    lower,    \* the lower directory of each container's overlay mount
    image,    \* each container's image
    pulled,   \* history: the digest that the last pull of a tag brought
    broken,   \* history: bases that lack a marker though they were extracted, or
              \* where a tar was cut off or ended with exit code 2, which is ignored
    restarts, pushes

cacheVars == <<content, marker, token, files, tarball, entry>>
ctrVars == <<lower, image>>
history == <<pulled, broken>>
envVars == <<registry, restarts, pushes>>
vars == <<registry, content, marker, token, files, tarball, entry, op, lower, image, pulled,
          broken, restarts, pushes>>

Idle == [pc |-> "idle", name |-> NoName, ctr |-> NoContainer, base |-> NoBase,
         dest |-> NoBase, layer |-> 1]
Full(b) == IF b = Builtin THEN 2 ELSE Layers + 1

TypeOK ==
    /\ registry \in [Tags -> Digests]
    /\ content \in [Bases -> 0..Layers + 1]
    /\ marker \in SUBSET Digests
    /\ token \in {"none", "good", "stale"}
    /\ files \in [Digests -> [1..Layers -> {"none", "part", "whole"}]]
    /\ tarball \in BOOLEAN
    /\ entry \in Digests \cup {NoBase}
    /\ op \in [pc : {"idle", "pull", "layers", "fetch", "merge", "unpack", "mount"},
               name : Names \cup {NoName}, ctr : Containers \cup {NoContainer},
               base : Bases \cup {NoBase}, dest : Bases \cup {NoBase},
               layer : 1..Layers + 1]
    /\ lower \in [Containers -> Bases \cup {NoBase}]
    /\ image \in [Containers -> Names \cup {NoName}]
    /\ pulled \in Digests \cup {NoBase} /\ broken \in SUBSET Bases
    /\ restarts \in 0..MaxRestarts /\ pushes \in 0..MaxPushes

Init ==
    /\ registry \in [Tags -> Digests]
    /\ content = [b \in Bases |-> 0]
    /\ marker = {} /\ token = "none" /\ tarball = FALSE /\ entry = NoBase
    /\ files = [d \in Digests |-> [i \in 1..Layers |-> "none"]]
    /\ op = Idle
    /\ lower = [c \in Containers |-> NoBase]
    /\ image = [c \in Containers |-> NoName]
    /\ pulled = NoBase /\ broken = {}
    /\ restarts = 0 /\ pushes = 0

-----------------------------------------------------------------------------
InRepo(n) == n \in Tags \/ SameRepo
HasBin(b) == b # NoBase /\ content[b] > 0

\* The entry that imageExtractPath leaves in ociImagePaths: the one it finds,
\* else the first complete directory on disk.
FirstOf(D) == CHOOSE d \in D : \A e \in D : d <= e
Lookup ==
    IF entry # NoBase \/ marker = {} THEN entry ELSE FirstOf(marker)

\* imageExtractPath(n)
ExtractPath(n) ==
    IF InRepo(n) /\ Lookup # NoBase THEN Lookup
    ELSE IF n = Builtin THEN Builtin ELSE NoBase

\* fetchManifest: the digest that a tag names on this platform.  A registry that
\* refuses the token names none.
Manifest(t) == IF token = "good" THEN registry[t] ELSE NoBase

\* Does the pull stop at this digest?
Cached(d) == d \in marker

\* What a download leaves under the layer's name before it has ended: it goes to
\* a temporary file.  (mutant: it is written in place)
InPlace(f) == "part"
Aside(f) == f

\* What PullImage registers.  (mutant: it leaves an entry as it is)
RegisteredOnce(d) == IF entry = NoBase THEN d ELSE entry
Registered(d) == d

\* What follows when PullImage has returned nil.
Continue == IF op.ctr = NoContainer THEN Idle ELSE [op EXCEPT !.pc = "mount"]

-----------------------------------------------------------------------------
\* handleImageRPC, image.pull.
PullRpc(n) ==
    /\ op = Idle
    /\ op' = [Idle EXCEPT !.pc = "pull", !.name = n]
    /\ UNCHANGED <<cacheVars, ctrVars, envVars, history>>

\* PrepareContainerRootfs for a new container, or for one whose mount was
\* lost: the base is looked up first, and pulled when it has no bin/.
Prepare(c, n) ==
    /\ op = Idle /\ lower[c] = NoBase
    /\ image[c] \in {NoName, n}
    /\ op' = [Idle EXCEPT !.pc = IF HasBin(ExtractPath(n)) THEN "mount" ELSE "pull",
                          !.name = n, !.ctr = c, !.base = ExtractPath(n)]
    /\ entry' = IF InRepo(n) THEN Lookup ELSE entry
    /\ UNCHANGED <<content, marker, token, files, tarball, ctrVars, envVars, history>>

\* getAuthToken asks for a token only when there is none; one that has expired is
\* sent until the agent ends, and every request with it fails.
GetToken ==
    /\ op.pc = "pull" /\ op.name \in Tags /\ token = "none"
    /\ token' = "good"
    /\ UNCHANGED <<content, marker, files, tarball, entry, op, ctrVars, envVars, history>>

\* pullOCIImage of a digest that is complete; PullImage registers it.
PullCached ==
    /\ op.pc = "pull" /\ op.name \in Tags /\ Cached(Manifest(op.name))
    /\ entry' = Registered(Manifest(op.name))
    /\ pulled' = Manifest(op.name)
    /\ op' = Continue
    /\ UNCHANGED <<content, marker, token, files, tarball, ctrVars, envVars, broken>>

\* pullOCIImage of another: of what an earlier pull left, the rootfs is removed
\* and the layers are kept.
PullFresh ==
    /\ op.pc = "pull" /\ op.name \in Tags
    /\ Manifest(op.name) # NoBase /\ ~Cached(Manifest(op.name))
    /\ op' = [op EXCEPT !.pc = "layers", !.dest = Manifest(op.name), !.layer = 1]
    /\ content' = [content EXCEPT ![Manifest(op.name)] = 0]
    /\ UNCHANGED <<marker, token, files, tarball, entry, ctrVars, envVars, history>>

\* fetchBlob of a layer that is not there.
LayerOnDisk == files[op.dest][op.layer] # "none"
File(f) == [files EXCEPT ![op.dest][op.layer] = f]

Fetch ==
    /\ op.pc = "layers" /\ op.layer <= Layers /\ ~LayerOnDisk /\ token = "good"
    /\ op' = [op EXCEPT !.pc = "fetch"]
    /\ files' = File(Aside(files[op.dest][op.layer]))
    /\ UNCHANGED <<content, marker, token, tarball, entry, ctrVars, envVars, history>>

Fetched ==
    /\ op.pc = "fetch"
    /\ op' = [op EXCEPT !.pc = "layers"] /\ files' = File("whole")
    /\ UNCHANGED <<content, marker, token, tarball, entry, ctrVars, envVars, history>>

\* extractOCILayer begins, and ends.  tar's exit code 2 is taken for a success.
Extracts ==
    /\ op.pc = "layers" /\ op.layer <= Layers /\ LayerOnDisk
    /\ op' = [op EXCEPT !.pc = "merge"]
    /\ content' = [content EXCEPT ![op.dest] = IF @ = 0 THEN 1 ELSE @]
    /\ UNCHANGED <<marker, token, files, tarball, entry, ctrVars, envVars, history>>

MergeLayer ==
    /\ op.pc = "merge"
    /\ op' = [op EXCEPT !.pc = "layers", !.layer = @ + 1]
    /\ \/ /\ content' = IF files[op.dest][op.layer] = "whole"
                       THEN [content EXCEPT ![op.dest] = @ + 1] ELSE content
          /\ UNCHANGED broken
       \/ broken' = broken \cup {op.dest} /\ UNCHANGED content
    /\ UNCHANGED <<marker, token, files, tarball, entry, ctrVars, envVars, pulled>>

\* All layers are merged: the marker is written, its error ignored, and
\* PullImage registers the directory.
PullDone ==
    /\ op.pc = "layers" /\ op.layer > Layers
    /\ \/ marker' = marker \cup {op.dest} /\ UNCHANGED broken
       \/ broken' = broken \cup {op.dest} /\ UNCHANGED marker
    /\ entry' = Registered(op.dest)
    /\ pulled' = op.dest
    /\ op' = Continue
    /\ UNCHANGED <<content, token, files, tarball, ctrVars, envVars>>

\* PullImage of the built-in image: download (tmp, then rename), then
\* extractImage looks for bin/ in the directory.
Download ==
    /\ op.pc = "pull" /\ op.name = Builtin /\ ~tarball
    /\ tarball' = TRUE
    /\ UNCHANGED <<content, marker, token, files, entry, op, ctrVars, envVars, history>>

Extract ==
    /\ op.pc = "pull" /\ op.name = Builtin /\ tarball
    /\ entry' = IF InRepo(Builtin) THEN Lookup ELSE entry
    /\ IF HasBin(ExtractPath(Builtin))
       THEN op' = Continue /\ UNCHANGED content
       ELSE /\ op' = [op EXCEPT !.pc = "unpack", !.dest = ExtractPath(Builtin)]
            /\ content' = [content EXCEPT ![ExtractPath(Builtin)] = 1]
    /\ UNCHANGED <<marker, token, files, tarball, ctrVars, envVars, history>>

\* tar's exit code 2 is taken for a success, whatever is missing.
Extracted ==
    /\ op.pc = "unpack"
    /\ \/ /\ content' = [content EXCEPT ![op.dest] = Full(op.dest)]
          /\ UNCHANGED broken
       \/ broken' = broken \cup {op.dest} /\ UNCHANGED content
    /\ op' = Continue
    /\ UNCHANGED <<marker, token, files, tarball, entry, ctrVars, envVars, pulled>>

\* A tar that is cut off leaves what it has unpacked.
CutOff == IF op.pc = "unpack" THEN broken \cup {op.dest} ELSE broken

\* The registry or a download fails, the token is refused, tar or the merge fails.
PullFails ==
    /\ op.pc \in {"pull", "layers", "fetch", "merge", "unpack"}
    /\ op' = Idle /\ broken' = CutOff
    /\ UNCHANGED <<cacheVars, ctrVars, envVars, pulled>>

\* PrepareContainerRootfs mounts what it looked up before the pull.
Mount ==
    /\ op.pc = "mount" /\ op.base # NoBase
    /\ lower' = [lower EXCEPT ![op.ctr] = op.base]
    /\ image' = [image EXCEPT ![op.ctr] = op.name]
    /\ op' = Idle
    /\ UNCHANGED <<cacheVars, envVars, history>>

\* There is no such directory to mount, nor to copy.
MountFails ==
    /\ op.pc = "mount" /\ op.base = NoBase
    /\ op' = Idle
    /\ UNCHANGED <<cacheVars, ctrVars, envVars, history>>

-----------------------------------------------------------------------------
\* The agent goes down, at any point, and comes up.
Restart ==
    /\ restarts < MaxRestarts
    /\ restarts' = restarts + 1
    /\ entry' = NoBase /\ token' = "none" /\ op' = Idle
    /\ pulled' = NoBase /\ broken' = CutOff
    /\ UNCHANGED <<content, marker, files, tarball, image, registry, pushes>>

\* The mounts survive the agent, but not the VM.
AgentRestart == Restart /\ UNCHANGED lower
VMRestart == Restart /\ lower' = [c \in Containers |-> NoBase]

\* The registry moves a tag.
Push(t, d) ==
    /\ pushes < MaxPushes /\ registry[t] # d
    /\ registry' = [registry EXCEPT ![t] = d] /\ pushes' = pushes + 1
    /\ UNCHANGED <<cacheVars, op, ctrVars, history, restarts>>

\* The registry stops accepting the token.
Expire ==
    /\ token = "good" /\ token' = "stale"
    /\ UNCHANGED <<content, marker, files, tarball, entry, op, ctrVars, envVars, history>>

Next ==
    \/ \E n \in Names : PullRpc(n)
    \/ \E c \in Containers, n \in Names : Prepare(c, n)
    \/ GetToken \/ PullCached \/ PullFresh
    \/ Fetch \/ Fetched \/ Extracts \/ MergeLayer \/ PullDone
    \/ Download \/ Extract \/ Extracted \/ PullFails
    \/ Mount \/ MountFails
    \/ AgentRestart \/ VMRestart \/ Expire
    \/ \E t \in Tags, d \in Digests : Push(t, d)

Spec == Init /\ [][Next]_vars

-----------------------------------------------------------------------------
\* A container runs on a complete image: never on one that a crash or a failed
\* download left half extracted, nor on one being extracted anew, unless the
\* marker's write failed or tar stopped half-way (oci.go:423, images.go:190).
CompleteBases ==
    \A c \in Containers :
        lower[c] \notin broken \cup {NoBase} => content[lower[c]] = Full(lower[c])

\* A new container of a tag gets what the last pull in the repository brought,
\* until the agent restarts (images.go:135).
PulledBase ==
    [][\A c \in Containers :
          image[c] = NoName /\ image'[c] \in Tags /\ pulled # NoBase
              => lower'[c] \in broken \cup {pulled}]_vars
==============================================================================
