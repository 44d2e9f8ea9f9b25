----------------------------- MODULE DisplayFrames -----------------------------
(***************************************************************************)
(* From a frame in shared memory to the window (AetheriaDisplay/Sources):  *)
(* the generator (TestPattern.swift, which does what crosvm's display      *)
(* backend does) paints the back buffer, swaps, counts and signals; the    *)
(* display app (ControlSocket, AppDelegate, MetalRenderer, ShmReader)      *)
(* hears of it, asks for a draw on the main thread, and draws.  What it    *)
(* commits the GPU reads later, out of the shared buffers themselves or    *)
(* out of the one texture that every new frame is uploaded to.             *)
(***************************************************************************)
EXTENDS Integers, Sequences

CONSTANTS
    MaxFrames,  \* bound: frames painted; an event counts as a frame
    MaxEvents,  \* bound: events, which are restarts of the generator and resize messages
    MaxPasses,  \* render passes committed and not shown: up to 2, for the window has
                \* three drawables and shows one of them
    ReadSize,   \* bytes that handleRead reads at once: 16
    ResizeSize, \* bytes of a resize message: 9
    Sizes       \* what may follow its first byte

ASSUME DisplayAssumption ==
    /\ MaxFrames \in Nat /\ MaxEvents \in Nat /\ MaxPasses \in 1..2
    /\ ReadSize \in Nat /\ ResizeSize \in 1..ReadSize
    /\ Sizes \subseteq [1..ResizeSize - 1 -> {"F", "R", "other"}]

\* A frame signal, the first byte of a resize message, or another; those of a size
\* may be any.
Bytes == {"F", "R", "other"}

Torn == -1
Frames == 0..MaxFrames

VARIABLES
    buffer,      \* the frame in each buffer
    active, seq, \* the header: active_buffer and frame_seq
    painter,     \* what the generator's loop does next
    stores,      \* header words whose store is not seen yet; nothing orders the two
    frame,       \* the last frame painted
    client,      \* it has accepted the display app
    link,        \* the app's control socket
    hup,         \* its other end is gone
    bytes,       \* the bytes on their way
    buf,         \* what handleRead has read and not yet decoded
    cut,         \* history: a read ended within a resize message
    resizes,     \* resize messages sent
    sent,        \* history: the last frame that was signalled
    drawPending, block, needsDisplay, \* AppDelegate and its main queue
    draw,        \* where draw(in:) is, and the frame_seq that it read
    reads,       \* the memory that draw(in:) reads or is about to render, what waits
                 \* for the GPU, and what the GPU reads
    lastSeq,     \* MetalRenderer.lastFrameSeq
    textures,    \* the buffers themselves, or one that is uploaded to
    texture,     \* the frame uploaded; history: was its upload late?
    shown,       \* the frame in the window; history: was it read late?
    missed,      \* history: the last draw committed nothing
    reordered,   \* history: frame_seq was seen to change before active_buffer
    restarts

shm == <<buffer, active, seq>>
generator == <<painter, stores, frame, client, sent, restarts, reordered>>
socket == <<link, hup, bytes, buf, cut, resizes>>
app == <<drawPending, block, needsDisplay>>
renderer == <<draw, reads, lastSeq, textures, texture, shown, missed>>
vars == <<shm, generator, socket, app, renderer>>

\* What can be read: buffers 0 and 1, the texture.
Texture == 2
Nothing == 3

\* A read: of what; what has come since it was chosen, a swap and then the start of a
\* write to what it reads; whether what it has read so far is of one frame.
ReadOf(i) == [of |-> i, since |-> "chosen", clean |-> TRUE]
NoRead == ReadOf(Nothing)
Reads == [of : 0..3, since : {"chosen", "swap", "write"}, clean : BOOLEAN]
Readers == {"draw", "queue", "gpu"}

NoDraw == [pc |-> "idle", seq |-> 0]
Draws == [pc : {"idle", "active", "upload", "copy", "render"}, seq : Frames]
Pictures == [frame : Frames \cup {Torn}, late : BOOLEAN]

TypeOK ==
    /\ buffer \in [0..1 -> Frames \cup {Torn}]
    /\ active \in 0..1 /\ seq \in Frames
    /\ painter \in {"paint", "painting", "store", "signal", "accept"}
    /\ stores \subseteq {"active", "seq"}
    /\ frame \in Frames /\ client \in BOOLEAN
    /\ link \in {"down", "up", "lost"} /\ hup \in BOOLEAN
    /\ bytes \in Seq(Bytes) /\ buf \in Seq(Bytes) /\ cut \in BOOLEAN
    /\ resizes \in 0..MaxEvents /\ sent \in Frames
    /\ drawPending \in BOOLEAN /\ block \in BOOLEAN /\ needsDisplay \in BOOLEAN
    /\ draw \in Draws /\ reads \in [Readers -> Reads]
    /\ lastSeq \in Frames /\ textures \in {"none", "shared", "uploaded"}
    /\ texture \in Pictures /\ shown \in Pictures /\ missed \in BOOLEAN
    /\ restarts \in 0..MaxEvents /\ reordered \in BOOLEAN

Init ==
    /\ buffer = [i \in 0..1 |-> 0] /\ active = 0 /\ seq = 0
    /\ painter = "paint" /\ stores = {} /\ frame = 0 /\ client = FALSE /\ sent = 0
    /\ link = "down" /\ hup = FALSE /\ bytes = <<>>
    /\ buf = <<>> /\ cut = FALSE /\ resizes = 0
    /\ drawPending = FALSE /\ block = FALSE /\ needsDisplay = TRUE
    /\ draw = NoDraw /\ reads = [r \in Readers |-> NoRead]
    /\ lastSeq = 0 /\ textures = "none" /\ missed = FALSE
    /\ texture = [frame |-> 0, late |-> FALSE] /\ shown = [frame |-> 0, late |-> FALSE]
    /\ restarts = 0 /\ reordered = FALSE

-----------------------------------------------------------------------------
\* Which buffer is painted?  (mutant: the one that is shown)
PaintFront == active
Back == 1 - active

\* Is there a byte to read?
Readable == bytes # <<>>

\* What is left of the read after a resize message: nothing if it was cut, for the
\* part that is there is thrown away.  (mutant: one byte more)
TooLong == SubSeq(buf, ResizeSize + 2, Len(buf))
Rest == SubSeq(buf, ResizeSize + 1, Len(buf))

\* drawPending once the main queue has run the block.  (mutant: not reset)
StillPending == drawPending
NotPending == FALSE

\* Does textures[i] exist?
HasTexture(i) == textures = "shared" \/ (textures = "uploaded" /\ i = 0)

\* The frame in what is read.
Content(of) == IF of = Texture THEN texture.frame ELSE buffer[of]

\* Whoever reads a buffer, the other one may be painted from now on.
Swapped ==
    [r \in Readers |-> IF reads[r].of \in 0..1 /\ reads[r].since = "chosen"
                       THEN [reads[r] EXCEPT !.since = "swap"] ELSE reads[r]]

\* The buffer i is painted; after a swap, that may be one that is still read.
PaintedOver(i) ==
    [r \in Readers |->
        [reads[r] EXCEPT !.since = IF @ = "swap" THEN "write" ELSE @,
                         !.clean = @ /\ reads[r].of # i]]

\* What the bounds leave.
Events == restarts + resizes
More == frame + Events < MaxFrames

\* TestPatternGenerator.run: the loop.
Paint ==
    /\ painter = "paint" /\ More
    /\ painter' = "painting" /\ frame' = frame + 1
    /\ buffer' = [buffer EXCEPT ![Back] = Torn]
    /\ reads' = PaintedOver(Back)
    /\ UNCHANGED <<active, seq, stores, client, sent, restarts, reordered, socket, app,
                   draw, lastSeq, textures, texture, shown, missed>>

Painted ==
    /\ painter = "painting"
    /\ painter' = "store" /\ stores' = {"active", "seq"}
    /\ buffer' = [buffer EXCEPT ![Back] = frame]
    /\ UNCHANGED <<active, seq, frame, client, sent, restarts, reordered, socket, app,
                   renderer>>

StoreActive ==
    /\ "active" \in stores
    /\ active' = 1 - active /\ reads' = Swapped
    /\ stores' = stores \ {"active"}
    /\ painter' = IF stores = {"active"} THEN "signal" ELSE painter
    /\ UNCHANGED <<buffer, seq, frame, client, sent, restarts, reordered, socket, app,
                   draw, lastSeq, textures, texture, shown, missed>>

StoreSeq ==
    /\ "seq" \in stores
    /\ seq' = seq + 1
    /\ reordered' = (reordered \/ "active" \in stores)
    /\ stores' = stores \ {"seq"}
    /\ painter' = IF stores = {"seq"} THEN "signal" ELSE painter
    /\ UNCHANGED <<buffer, active, frame, client, sent, restarts, socket, app, renderer>>

Signal ==
    /\ painter = "signal"
    /\ painter' = "accept"
    /\ IF client THEN sent' = frame /\ bytes' = Append(bytes, "F")
                 ELSE UNCHANGED <<sent, bytes>>
    /\ UNCHANGED <<shm, stores, frame, client, restarts, reordered, link, hup, buf,
                   cut, resizes, app, renderer>>

\* crosvm says that its display has another size.
Resize ==
    /\ painter = "paint" /\ client /\ More /\ Events < MaxEvents
    /\ resizes' = resizes + 1
    /\ \E size \in Sizes : bytes' = bytes \o <<"R">> \o size
    /\ UNCHANGED <<shm, generator, link, hup, buf, cut, app, renderer>>

Accept ==
    /\ painter = "accept"
    /\ painter' = "paint"
    /\ client' = (client \/ (link = "up" /\ ~hup))
    /\ UNCHANGED <<shm, stores, frame, sent, restarts, reordered, socket, app, renderer>>

\* The generator ends and another one starts: the file is truncated, the
\* header written anew.
GeneratorRestarts ==
    /\ More /\ Events < MaxEvents
    /\ restarts' = restarts + 1
    /\ buffer' = [i \in 0..1 |-> 0] /\ active' = 0 /\ seq' = 0
    /\ painter' = "paint" /\ stores' = {} /\ client' = FALSE
    /\ hup' = (hup \/ link = "up")
    /\ reads' = Swapped
    /\ UNCHANGED <<frame, sent, reordered, link, bytes, buf, cut, resizes, app,
                   draw, lastSeq, textures, texture, shown, missed>>

-----------------------------------------------------------------------------
\* ControlSocket.startListening, which tries again until it has connected.
Connect ==
    /\ link = "down"
    /\ link' = "up"
    /\ UNCHANGED <<shm, generator, hup, bytes, buf, cut, resizes, app, renderer>>

\* handleRead: whatever is there, up to the size of its buffer.
Read ==
    /\ link = "up" /\ buf = <<>> /\ Readable
    /\ LET n == IF Len(bytes) < ReadSize THEN Len(bytes) ELSE ReadSize
       IN buf' = SubSeq(bytes, 1, n) /\ bytes' = SubSeq(bytes, n + 1, Len(bytes))
    /\ UNCHANGED <<shm, generator, link, hup, cut, resizes, app, renderer>>

\* A frame is ready.  onFrameReady asks for one draw at a time.
FrameReady ==
    /\ buf # <<>> /\ Head(buf) = "F"
    /\ buf' = Tail(buf)
    /\ drawPending' = TRUE /\ block' = (block \/ ~drawPending)
    /\ UNCHANGED <<shm, generator, link, hup, bytes, cut, resizes, needsDisplay, renderer>>

\* A resize message, for which the app has set no callback.
Resized ==
    /\ buf # <<>> /\ Head(buf) = "R"
    /\ buf' = Rest
    /\ cut' = (cut \/ Len(buf) < ResizeSize)
    /\ UNCHANGED <<shm, generator, link, hup, bytes, resizes, app, renderer>>

\* Any other byte is skipped.
Skip ==
    /\ buf # <<>> /\ Head(buf) = "other"
    /\ buf' = Tail(buf)
    /\ UNCHANGED <<shm, generator, link, hup, bytes, cut, resizes, app, renderer>>

\* handleRead: the other end is gone.
Disconnected ==
    /\ link = "up" /\ buf = <<>> /\ ~Readable /\ hup
    /\ link' = "lost" /\ hup' = FALSE
    /\ UNCHANGED <<shm, generator, bytes, buf, cut, resizes, app, renderer>>

-----------------------------------------------------------------------------
\* The block on the main queue.
RunBlock ==
    /\ block /\ draw.pc = "idle"
    /\ block' = FALSE /\ drawPending' = NotPending /\ needsDisplay' = TRUE
    /\ UNCHANGED <<shm, generator, socket, renderer>>

\* The window is uncovered.
Expose ==
    /\ needsDisplay' = TRUE
    /\ UNCHANGED <<shm, generator, socket, drawPending, block, renderer>>

-----------------------------------------------------------------------------
\* draw(in:): frame_seq is read, then active_buffer.
ReadSeq ==
    /\ draw.pc = "idle" /\ needsDisplay
    /\ needsDisplay' = FALSE
    /\ draw' = [pc |-> "active", seq |-> seq]
    /\ UNCHANGED <<shm, generator, socket, drawPending, block, reads, lastSeq, textures,
                   texture, shown, missed>>

\* The textures are set up with the first frame: they share the buffers if those are
\* aligned and Metal makes them.
SetUp ==
    IF textures = "none" THEN textures' \in {"shared", "uploaded"} ELSE UNCHANGED textures

\* The one texture, with what is known of its upload.
OfTexture(picture) ==
    [of |-> Texture, since |-> IF picture.late THEN "write" ELSE "chosen", clean |-> TRUE]

\* The previous frame again, for nothing new was counted.
Again ==
    /\ draw.pc = "active" /\ draw.seq = lastSeq /\ HasTexture(active)
    /\ draw' = [draw EXCEPT !.pc = "render"]
    /\ reads' = [reads EXCEPT !["draw"] =
                    IF textures = "shared" THEN ReadOf(active) ELSE OfTexture(texture)]
    /\ UNCHANGED <<shm, generator, socket, app, lastSeq, textures, texture, shown, missed>>

\* A new frame, or the first.
Fresh ==
    /\ draw.pc = "active" /\ ~(draw.seq = lastSeq /\ HasTexture(active))
    /\ lastSeq' = draw.seq
    /\ SetUp
    /\ IF textures' = "shared"
       THEN /\ draw' = [draw EXCEPT !.pc = "render"]
            /\ reads' = [reads EXCEPT !["draw"] = ReadOf(active)]
       ELSE draw' = [draw EXCEPT !.pc = "upload"] /\ UNCHANGED reads
    /\ UNCHANGED <<shm, generator, socket, app, texture, shown, missed>>

\* tex.replace begins, with the buffer that framebufferPointer finds active now: what
\* the GPU has still to read of the texture is written over.
Upload ==
    /\ draw.pc = "upload"
    /\ draw' = [draw EXCEPT !.pc = "copy"]
    /\ texture' = [frame |-> Torn, late |-> FALSE]
    /\ reads' = [r \in Readers |->
                    IF r = "draw" THEN ReadOf(active)
                    ELSE IF reads[r].of = Texture
                    THEN [of |-> Texture, since |-> "write", clean |-> FALSE]
                    ELSE reads[r]]
    /\ UNCHANGED <<shm, generator, socket, app, lastSeq, textures, shown, missed>>

\* What a read has got when it ends.
Picture(read, clean) ==
    [frame |-> IF clean THEN Content(read.of) ELSE Torn, late |-> read.since = "write"]

Uploaded ==
    /\ draw.pc = "copy"
    /\ draw' = [draw EXCEPT !.pc = "render"]
    /\ texture' = Picture(reads["draw"], reads["draw"].clean)
    /\ reads' = [reads EXCEPT !["draw"] = OfTexture(texture')]
    /\ UNCHANGED <<shm, generator, socket, app, lastSeq, textures, shown, missed>>

\* Is a drawable free?  view.currentDrawable waits for one, or gives up.
Drawable ==
    reads["gpu"].of = Nothing \/ (MaxPasses = 2 /\ reads["queue"].of = Nothing)

\* renderTexture, with a drawable.
Commit ==
    /\ draw.pc = "render" /\ Drawable
    /\ draw' = NoDraw /\ missed' = FALSE
    /\ LET place == IF reads["gpu"].of = Nothing THEN "gpu" ELSE "queue"
       IN reads' = [reads EXCEPT ![place] = reads["draw"], !["draw"] = NoRead]
    /\ UNCHANGED <<shm, generator, socket, app, lastSeq, textures, texture, shown>>

\* renderTexture has no drawable, pass descriptor, command buffer or encoder: nothing
\* is said, and nothing is tried again.
GiveUp ==
    /\ draw.pc = "render"
    /\ draw' = NoDraw /\ missed' = TRUE
    /\ reads' = [reads EXCEPT !["draw"] = NoRead]
    /\ UNCHANGED <<shm, generator, socket, app, lastSeq, textures, texture, shown>>

-----------------------------------------------------------------------------
\* The GPU renders what was committed in its order, and the window shows it.  It may
\* have begun to read with the commit or only now, when a paint was over.
Present ==
    /\ reads["gpu"].of # Nothing
    /\ \E clean \in {reads["gpu"].clean, Content(reads["gpu"].of) # Torn} :
          shown' = Picture(reads["gpu"], clean)
    /\ reads' = [reads EXCEPT !["gpu"] = reads["queue"], !["queue"] = NoRead]
    /\ UNCHANGED <<shm, generator, socket, app, draw, lastSeq, textures, texture, missed>>

-----------------------------------------------------------------------------
Generate == Paint \/ Painted \/ StoreActive \/ StoreSeq \/ Signal \/ Accept
Listen == Connect \/ Read \/ FrameReady \/ Resized \/ Skip \/ Disconnected
Draw == ReadSeq \/ Again \/ Fresh \/ Upload \/ Uploaded \/ Commit \/ GiveUp

Next == \/ Generate \/ Listen \/ RunBlock \/ Draw \/ Present
        \/ GeneratorRestarts \/ Resize \/ Expose

Spec == Init /\ [][Next]_vars

\* The generator loops, the socket's queue and the main queue run what is
\* dispatched on them, the GPU what is committed.  Nothing uncovers the window, or
\* restarts anything.
FairSpec ==
    /\ Spec
    /\ WF_vars(Generate) /\ WF_vars(Listen)
    /\ WF_vars(RunBlock) /\ WF_vars(Draw) /\ WF_vars(Present)

-----------------------------------------------------------------------------
\* The window shows a frame in the middle of being painted only if that frame was read
\* late: while its buffer was still to be read, by the upload or the GPU, the header
\* was swapped and the next paint began; or, while its texture was, the next upload
\* began (TestPattern.swift:64-85, MetalRenderer.swift:97, 113-127, 199-200).
NoTearing == shown.frame = Torn => shown.late

\* A frame that was signalled is shown, or a later one: no signal is lost
\* between the socket's queue, the main queue, the renderer's counter and the GPU,
\* unless the frame in the window was read late, the last draw had nothing to render
\* to, the two words of the header are seen to change in the other order, the generator
\* starts anew with a count of zero, or a read ended within a resize message, so that
\* its rest is taken for messages, and frame signals for a size (ControlSocket.swift:81-109, AppDelegate.swift:74,
\* MetalRenderer.swift:99-104, 188-192).
SignalledIsShown ==
    []<>(shown.frame >= sent \/ shown.late \/ missed \/ reordered \/ cut \/ restarts > 0)
==============================================================================
