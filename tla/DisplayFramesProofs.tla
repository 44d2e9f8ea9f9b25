------------------------- MODULE DisplayFramesProofs -------------------------
(* Theorems about DisplayFrames, for any number of frames and restarts. *)
EXTENDS DisplayFrames, SequenceTheorems, TLAPS

\* No more frames are counted than were painted, and the one that is being painted,
\* or whose count is not seen yet, is one more.
CountInv ==
    /\ seq <= frame
    /\ painter = "painting" \/ "seq" \in stores => seq < frame

TypeInv ==
    /\ TypeOK /\ CountInv
    /\ stores # {} => painter = "store"
    /\ draw.pc = "copy" => reads["draw"].of \in 0..1

\* A message is a sequence of bytes.
LEMMA SizeIsBytes == \A size \in Sizes : size \in Seq(Bytes)
<1> TAKE size \in Sizes
<1>1. size \in [1..ResizeSize - 1 -> Bytes] /\ ResizeSize - 1 \in Nat
  BY DisplayAssumption DEF Bytes
<1> QED
  BY <1>1, SeqDef

\* What the swap and the paint leave of the reads are reads.
LEMMA ReadTypes ==
    ASSUME reads \in [Readers -> Reads]
    PROVE  /\ Swapped \in [Readers -> Reads]
           /\ \A i : PaintedOver(i) \in [Readers -> Reads]
           /\ \A r \in Readers : /\ Swapped[r].of = reads[r].of
                                 /\ \A i : PaintedOver(i)[r].of = reads[r].of
           /\ NoRead \in Reads /\ \A i \in 0..1 : ReadOf(i) \in Reads
           /\ \A picture \in [frame : Int, late : BOOLEAN] : OfTexture(picture) \in Reads
<1>1. ASSUME NEW r \in Readers
      PROVE  [reads[r] EXCEPT !.since = "swap"] \in Reads
  BY DEF Reads
<1>2. Swapped \in [Readers -> Reads]
  BY <1>1 DEF Swapped
<1>3. ASSUME NEW i, NEW r \in Readers
      PROVE  [reads[r] EXCEPT !.since = IF @ = "swap" THEN "write" ELSE @,
                              !.clean = @ /\ reads[r].of # i] \in Reads
  BY DEF Reads
<1>4. \A i : PaintedOver(i) \in [Readers -> Reads]
  BY <1>3 DEF PaintedOver
<1>5. \A r \in Readers : /\ Swapped[r].of = reads[r].of
                        /\ \A i : PaintedOver(i)[r].of = reads[r].of
  BY DEF Swapped, PaintedOver, Reads
<1>6. NoRead \in Reads /\ \A i \in 0..1 : ReadOf(i) \in Reads
  BY DEF Reads, ReadOf, NoRead, Nothing
<1>7. \A picture \in [frame : Int, late : BOOLEAN] : OfTexture(picture) \in Reads
  BY DEF Reads, OfTexture, Texture
<1> QED
  BY <1>2, <1>4, <1>5, <1>6, <1>7

\* What a read gets is a picture.
LEMMA PictureType ==
    ASSUME TypeOK, NEW read \in Reads, read.of # Nothing, NEW clean \in BOOLEAN
    PROVE  Picture(read, clean) \in Pictures
<1>1. read.of \in 0..2
  BY DEF Reads, Nothing
<1>2. Content(read.of) \in Frames \cup {Torn}
  BY <1>1 DEF Content, TypeOK, Texture, Pictures
<1> QED
  BY <1>2 DEF Picture, Pictures

LEMMA InitTypes == Init => TypeInv
<1> SUFFICES ASSUME Init PROVE TypeInv
  OBVIOUS
<1>1. bytes \in Seq(Bytes) /\ buf \in Seq(Bytes)
  BY EmptySeq DEF Init
<1>2. 0 \in Frames /\ 0 \in 0..MaxEvents
  BY DisplayAssumption DEF Frames
<1>3. buffer \in [0..1 -> Frames \cup {Torn}] /\ 0 \in 0..1
  BY <1>2 DEF Init
<1>4. draw \in Draws /\ texture \in Pictures /\ shown \in Pictures
  BY <1>2 DEF Init, NoDraw, Draws, Pictures
<1>5. reads \in [Readers -> Reads]
  BY DEF Init, ReadOf, NoRead, Reads, Nothing
<1>6. CountInv /\ (stores # {} => painter = "store")
  BY DEF Init, CountInv
<1> QED
  BY <1>1, <1>2, <1>3, <1>4, <1>5, <1>6 DEF Init, TypeInv, TypeOK, NoDraw

LEMMA GenerateTypes == ASSUME TypeInv, Generate \/ GeneratorRestarts PROVE TypeInv'
<1> USE DisplayAssumption DEF TypeInv, TypeOK, CountInv, shm, generator, socket, app, renderer,
      Frames
<1>0. "draw" \in Readers
  BY DEF Readers
<1>1. CASE Paint
  <2>1. reads' \in [Readers -> Reads] /\ reads'["draw"].of = reads["draw"].of
    BY <1>0, <1>1, ReadTypes DEF Paint
  <2>2. buffer' \in [0..1 -> Frames \cup {Torn}] /\ stores = {}
    BY <1>1 DEF Paint, Back, Torn
  <2>3. frame < MaxFrames /\ frame' = frame + 1 /\ painter' = "painting"
    BY <1>1 DEF Paint, More, Events
  <2>4. UNCHANGED <<active, seq, stores, client, sent, restarts, reordered, socket, app, draw,
                    lastSeq, textures, texture, shown, missed>>
    BY <1>1 DEF Paint
  <2>5. CountInv' /\ frame' \in Frames
    BY <2>2, <2>3, <2>4
  <2> QED
    BY <2>1, <2>2, <2>3, <2>4, <2>5 DEF Pictures
<1>2. CASE Painted
  BY <1>2 DEF Painted, Back
<1>3. CASE StoreActive
  <2>1. reads' \in [Readers -> Reads] /\ reads'["draw"].of = reads["draw"].of
    BY <1>0, <1>3, ReadTypes DEF StoreActive
  <2> QED
    BY <1>3, <2>1 DEF StoreActive
<1>4. CASE StoreSeq
  BY <1>4 DEF StoreSeq
<1>5. CASE Signal
  <2>1. bytes' \in Seq(Bytes)
    <3>1. "F" \in Bytes
      BY DEF Bytes
    <3>2. Append(bytes, "F") \in Seq(Bytes)
      BY <3>1, AppendProperties
    <3> QED
      BY <1>5, <3>2 DEF Signal
  <2> QED
    BY <1>5, <2>1 DEF Signal
<1>6. CASE Accept
  BY <1>6 DEF Accept
<1>7. CASE GeneratorRestarts
  <2>1. buffer' \in [0..1 -> Frames \cup {Torn}] /\ CountInv'
    BY <1>7 DEF GeneratorRestarts
  <2>2. /\ restarts' \in 0..MaxEvents /\ active' \in 0..1
        /\ seq' \in Frames /\ painter' = "paint" /\ stores' = {}
    BY <1>7 DEF GeneratorRestarts, Events
  <2>3. hup' \in BOOLEAN /\ client' \in BOOLEAN /\ reads' \in [Readers -> Reads]
        /\ reads'["draw"].of = reads["draw"].of
    BY <1>0, <1>7, ReadTypes DEF GeneratorRestarts
  <2>4. UNCHANGED <<frame, sent, reordered, link, bytes, buf, cut, resizes, app, draw,
                    lastSeq, textures, texture, shown, missed>>
    BY <1>7 DEF GeneratorRestarts
  <2> QED
    BY <2>1, <2>2, <2>3, <2>4
<1> QED
  BY <1>1, <1>2, <1>3, <1>4, <1>5, <1>6, <1>7 DEF Generate

\* The app and the socket.
LEMMA AppTypes == ASSUME TypeInv, Listen \/ RunBlock \/ Resize \/ Expose PROVE TypeInv'
<1> USE DisplayAssumption DEF TypeInv, TypeOK, CountInv, shm, generator, socket, app, renderer
<1>1. CASE Connect \/ RunBlock \/ Expose \/ Disconnected
  <2>1. CASE Connect
    BY <2>1 DEF Connect
  <2>2. CASE RunBlock
    <3>1. /\ block' \in BOOLEAN /\ drawPending' \in BOOLEAN /\ needsDisplay' \in BOOLEAN
          /\ UNCHANGED <<shm, generator, socket, renderer>>
      BY <2>2 DEF RunBlock, NotPending
    <3> QED
      BY <3>1
  <2>3. CASE Expose
    BY <2>3 DEF Expose
  <2>4. CASE Disconnected
    <3>1. /\ link' = "lost" /\ hup' \in BOOLEAN
          /\ UNCHANGED <<shm, generator, bytes, buf, cut, resizes, app, renderer>>
      BY <2>4 DEF Disconnected
    <3> QED
      BY <3>1
  <2> QED
    BY <1>1, <2>1, <2>2, <2>3, <2>4
<1>2. CASE Read
  <2> DEFINE n == IF Len(bytes) < ReadSize THEN Len(bytes) ELSE ReadSize
  <2>1. n \in 0..Len(bytes) /\ Len(bytes) \in Nat
    BY LenProperties
  <2>2. SubSeq(bytes, 1, n) \in Seq(Bytes) /\ SubSeq(bytes, n + 1, Len(bytes)) \in Seq(Bytes)
    BY <2>1, SubSeqProperties, ElementOfSeq
  <2> QED
    BY <1>2, <2>2 DEF Read
<1>3. CASE FrameReady \/ Skip
  <2>1. buf # <<>> /\ buf' = Tail(buf) /\ buf \in Seq(Bytes)
    BY <1>3 DEF FrameReady, Skip
  <2>2. buf' \in Seq(Bytes)
    BY <2>1, HeadTailProperties
  <2>3. CASE FrameReady
    BY <2>2, <2>3 DEF FrameReady
  <2>4. CASE Skip
    BY <2>2, <2>4 DEF Skip
  <2> QED
    BY <1>3, <2>3, <2>4
<1>4. CASE Resized
  <2>1. ResizeSize + 1 \in Int /\ Len(buf) \in Int /\ 1 <= ResizeSize + 1
    BY LenProperties
  <2>2. Rest \in Seq(Bytes)
    BY <2>1, SubSeqProperties, ElementOfSeq DEF Rest
  <2> QED
    BY <1>4, <2>2 DEF Resized
<1>5. CASE Resize
  <2>1. PICK size \in Sizes : bytes' = bytes \o <<"R">> \o size
    BY <1>5 DEF Resize
  <2>2. <<"R">> \in Seq(Bytes) /\ size \in Seq(Bytes)
    BY SizeIsBytes DEF Bytes
  <2>3. bytes' \in Seq(Bytes)
    BY <2>1, <2>2, ConcatProperties
  <2>4. resizes' \in 0..MaxEvents
    BY <1>5 DEF Resize, Events
  <2> QED
    BY <1>5, <2>3, <2>4 DEF Resize
<1> QED
  BY <1>1, <1>2, <1>3, <1>4, <1>5 DEF Listen

\* The renderer and the GPU.
LEMMA DrawTypes == ASSUME TypeInv, Draw \/ Present PROVE TypeInv'
<1> USE DEF TypeInv, TypeOK, CountInv, shm, generator, socket, app, renderer
<1>1. /\ NoRead \in Reads /\ ReadOf(active) \in Reads
      /\ \A picture \in Pictures : OfTexture(picture) \in Reads
  <2>1. Pictures \subseteq [frame : Int, late : BOOLEAN]
    BY DisplayAssumption DEF Pictures, Frames, Torn
  <2> QED
    BY <2>1, ReadTypes
<1>2. ASSUME UNCHANGED <<shm, generator, socket, drawPending, block>>, needsDisplay' \in BOOLEAN,
             draw' \in Draws, reads' \in [Readers -> Reads], lastSeq' \in Frames,
             textures' \in {"none", "shared", "uploaded"}, texture' \in Pictures,
             shown' \in Pictures, missed' \in BOOLEAN,
             draw'.pc = "copy" => reads'["draw"].of \in 0..1
      PROVE  TypeInv'
  BY <1>2
<1>3. NoDraw \in Draws /\ NoDraw.pc = "idle" /\ "draw" \in Readers
  BY DisplayAssumption DEF NoDraw, Draws, Frames, Readers
<1>4. CASE ReadSeq
  <2>1. draw' \in Draws /\ draw'.pc = "active"
    BY <1>4 DEF ReadSeq, Draws
  <2> QED
    BY <1>2, <1>4, <2>1 DEF ReadSeq
<1>5. CASE Again
  <2>1. draw' \in Draws /\ draw'.pc = "render" /\ reads' \in [Readers -> Reads]
    BY <1>1, <1>5 DEF Again, Draws
  <2> QED
    BY <1>2, <1>5, <2>1 DEF Again
<1>6. CASE Fresh
  <2>1. draw' \in Draws /\ draw'.pc # "copy" /\ lastSeq' \in Frames
    BY <1>6 DEF Fresh, Draws
  <2>2. reads' \in [Readers -> Reads] /\ textures' \in {"none", "shared", "uploaded"}
    BY <1>1, <1>6 DEF Fresh, SetUp
  <2> QED
    BY <1>2, <1>6, <2>1, <2>2 DEF Fresh
<1>7. CASE Upload
  <2>1. draw' \in Draws /\ texture' \in Pictures
    BY <1>7 DEF Upload, Draws, Pictures
  <2>2. [of |-> Texture, since |-> "write", clean |-> FALSE] \in Reads
    BY DEF Reads, Texture
  <2>3. reads' \in [Readers -> Reads]
    BY <1>1, <1>7, <2>2 DEF Upload
  <2>4. reads'["draw"].of = active
    BY <1>3, <1>7 DEF Upload, ReadOf
  <2> QED
    BY <1>2, <1>7, <2>1, <2>3, <2>4 DEF Upload
<1>8. CASE Uploaded
  <2>1. draw' \in Draws /\ draw'.pc = "render"
    BY <1>8 DEF Uploaded, Draws
  <2>2. /\ reads["draw"] \in Reads /\ reads["draw"].of # Nothing
        /\ reads["draw"].clean \in BOOLEAN
    BY <1>3, <1>8 DEF Uploaded, Nothing, Reads
  <2>3. texture' \in Pictures
    BY <1>8, <2>2, PictureType DEF Uploaded
  <2>4. reads' \in [Readers -> Reads]
    BY <1>1, <1>8, <2>3 DEF Uploaded
  <2> QED
    BY <1>2, <1>8, <2>1, <2>3, <2>4 DEF Uploaded
<1>9. CASE Commit \/ GiveUp
  <2>1. reads' \in [Readers -> Reads]
    BY <1>1, <1>3, <1>9 DEF Commit, GiveUp
  <2> QED
    BY <1>2, <1>3, <1>9, <2>1 DEF Commit, GiveUp
<1>10. CASE Present
  <2>1. PICK clean \in {reads["gpu"].clean, Content(reads["gpu"].of) # Torn} :
           shown' = Picture(reads["gpu"], clean)
    BY <1>10 DEF Present
  <2>2. "gpu" \in Readers /\ "queue" \in Readers /\ reads["gpu"].clean \in BOOLEAN
    BY DEF Readers, Reads
  <2>3. clean \in BOOLEAN /\ reads["gpu"] \in Reads /\ reads["gpu"].of # Nothing
    BY <1>10, <2>1, <2>2 DEF Present
  <2>4. shown' \in Pictures
    BY <2>1, <2>3, PictureType
  <2>5. reads' \in [Readers -> Reads] /\ reads'["draw"] = reads["draw"]
    BY <1>1, <1>3, <1>10, <2>2 DEF Present
  <2> QED
    BY <1>2, <1>10, <2>4, <2>5 DEF Present
<1> QED
  BY <1>4, <1>5, <1>6, <1>7, <1>8, <1>9, <1>10 DEF Draw

LEMMA NextTypes == TypeInv /\ [Next]_vars => TypeInv'
<1> SUFFICES ASSUME TypeInv, [Next]_vars PROVE TypeInv'
  OBVIOUS
<1>1. CASE UNCHANGED vars
  BY <1>1 DEF vars, shm, generator, socket, app, renderer, TypeInv, TypeOK, CountInv
<1> QED
  BY <1>1, GenerateTypes, AppTypes, DrawTypes DEF Next

\* All variables keep their types; in particular no more frames are counted, or
\* signalled, than the generator has painted.
THEOREM DisplayTypes == Spec => []TypeOK
<1>1. TypeInv => TypeOK
  BY DEF TypeInv
<1> QED
  BY InitTypes, NextTypes, <1>1, PTL DEF Spec
-----------------------------------------------------------------------------
\* Only the back buffer is ever torn, and only while it is painted; the texture is
\* while it is written, and when its upload was late.
BackTorn ==
    /\ \A i \in 0..1 : buffer[i] = Torn => i = Back /\ painter = "painting"
    /\ texture.frame = Torn => texture.late \/ draw.pc = "copy"

\* Who reads a buffer since the last swap reads the front one.  Until a write may have
\* begun there is a whole frame in what is read, and what was read is of it.
WholeRead(r) ==
    reads[r].of # Nothing =>
       /\ reads[r].since # "write" => reads[r].clean /\ Content(reads[r].of) # Torn
       /\ reads[r].since = "chosen" /\ reads[r].of # Texture => reads[r].of = active
       /\ draw.pc = "copy" /\ reads[r].of = Texture => reads[r].since = "write"

ReadInv == \A r \in Readers : WholeRead(r)

TearInv == TypeInv /\ BackTorn /\ ReadInv /\ NoTearing

\* What the arguments need of the types.
LEMMA Typed ==
    ASSUME TypeInv
    PROVE  /\ buffer \in [0..1 -> Int] /\ active \in 0..1 /\ Back \in 0..1 /\ Back # active
           /\ frame \in Nat /\ seq \in Int /\ sent \in Int /\ lastSeq \in Int /\ frame # Torn
           /\ reads \in [Readers -> Reads] /\ draw.seq \in Int
           /\ texture.frame \in Int /\ shown.frame \in Int
           /\ \A r \in Readers : reads[r].of # Nothing => reads[r].of \in {0, 1, Texture}
  BY DisplayAssumption DEF TypeInv, TypeOK, Back, Frames, Draws, Pictures, Reads, Nothing,
     Texture, Torn

LEMMA InitTear == Init => TearInv
<1> SUFFICES ASSUME Init PROVE TearInv
  OBVIOUS
<1>1. ReadInv
  BY DEF Init, ReadInv, WholeRead, NoRead, ReadOf
<1>2. BackTorn /\ NoTearing
  BY DEF Init, BackTorn, NoTearing, Torn
<1> QED
  BY <1>1, <1>2, InitTypes DEF TearInv

\* The generator.
LEMMA GenerateInv ==
    ASSUME TearInv, Generate \/ GeneratorRestarts PROVE TearInv'
<1> USE DEF TearInv, shm, generator, socket, app, renderer
<1>0. TypeInv' /\ reads \in [Readers -> Reads] /\ buffer \in [0..1 -> Int] /\ active \in 0..1
  BY GenerateTypes, Typed
<1>1. \A r \in Readers : reads[r].of # Nothing => reads[r].of \in {0, 1, Texture}
  BY Typed
<1>2. UNCHANGED <<texture, shown, draw>>
  BY DEF Generate, Paint, Painted, StoreActive, StoreSeq, Signal, Accept, GeneratorRestarts
<1>3. NoTearing'
  BY <1>2 DEF NoTearing
<1>4. CASE Paint
  <2>1. /\ painter' = "painting" /\ Back \in 0..1 /\ Back # active
        /\ buffer' = [buffer EXCEPT ![Back] = Torn] /\ reads' = PaintedOver(Back)
        /\ UNCHANGED active
    BY <1>4, Typed DEF Paint
  <2>2. BackTorn'
    BY <1>0, <1>2, <1>4, <2>1 DEF BackTorn, Paint, Back
  <2>3. ASSUME NEW r \in Readers, reads'[r].of # Nothing PROVE WholeRead(r)'
    <3>1. /\ reads'[r].of = reads[r].of
          /\ reads'[r].since = IF reads[r].since = "swap" THEN "write" ELSE reads[r].since
          /\ reads'[r].clean = (reads[r].clean /\ reads[r].of # Back)
          /\ reads[r].since \in {"chosen", "swap", "write"}
      BY <1>0, <2>1 DEF PaintedOver, Reads
    <3>2. CASE reads'[r].since = "write"
      BY <1>2, <2>1, <3>1, <3>2 DEF WholeRead
    <3>3. CASE reads[r].since = "chosen"
      <4>1. reads[r].of # Back /\ reads[r].of \in {0, 1, Texture}
        BY <1>1, <2>1, <2>3, <3>1, <3>3 DEF ReadInv, WholeRead, Texture
      <4>2. Content(reads[r].of)' = Content(reads[r].of) /\ WholeRead(r)
        BY <1>0, <1>2, <2>1, <3>1, <4>1 DEF Content, Texture, ReadInv
      <4> QED
        BY <1>2, <2>1, <2>3, <3>1, <3>3, <4>1, <4>2 DEF WholeRead
    <3> QED
      BY <3>1, <3>2, <3>3
  <2>4. ReadInv'
    BY <2>3 DEF ReadInv, WholeRead
  <2> QED
    BY <1>0, <1>3, <2>2, <2>4
<1>5. CASE Painted
  <2>1. /\ painter = "painting" /\ Back \in 0..1 /\ UNCHANGED <<active, reads>>
        /\ buffer' = [buffer EXCEPT ![Back] = frame] /\ frame # Torn
    BY <1>5, Typed DEF Painted
  <2>2. \A i \in 0..1 : buffer'[i] # Torn
    BY <1>0, <2>1 DEF BackTorn
  <2>3. ReadInv'
    BY <1>1, <1>2, <2>1, <2>2 DEF ReadInv, WholeRead, Content
  <2> QED
    BY <1>0, <1>2, <1>3, <2>2, <2>3 DEF BackTorn
<1>6. ASSUME \A i \in 0..1 : buffer'[i] # Torn,
             reads' = Swapped \/ (UNCHANGED <<reads, active>>)
      PROVE  TearInv'
  <2>1. ASSUME NEW r \in Readers, reads'[r].of # Nothing PROVE WholeRead(r)'
    <3>1. /\ reads'[r].of = reads[r].of /\ reads'[r].clean = reads[r].clean
          /\ reads'[r].since # "write" => reads[r].since # "write"
          /\ reads'[r].since = "write" <=> reads[r].since = "write"
          /\ \/ reads'[r].since = reads[r].since /\ active' = active
             \/ reads'[r].since = "chosen" => reads[r].of \notin 0..1
      BY <1>0, <1>6 DEF Swapped, Reads
    <3>2. Content(reads[r].of)' = Torn => Content(reads[r].of) = Torn
      BY <1>1, <1>2, <1>6, <2>1, <3>1 DEF Content
    <3>3. WholeRead(r)
      BY DEF ReadInv
    <3> QED
      BY <1>1, <1>2, <2>1, <3>1, <3>2, <3>3 DEF WholeRead
  <2>2. ReadInv'
    BY <2>1 DEF ReadInv, WholeRead
  <2> QED
    BY <1>0, <1>2, <1>3, <1>6, <2>2 DEF BackTorn
<1>7. ASSUME painter # "painting" PROVE \A i \in 0..1 : buffer[i] # Torn
  BY <1>7 DEF BackTorn
<1>8. CASE StoreActive
  <2>1. /\ painter = "store" /\ UNCHANGED buffer /\ reads' = Swapped
    BY <1>8 DEF StoreActive, TypeInv
  <2> QED
    BY <1>6, <1>7, <2>1
<1>9. CASE StoreSeq
  <2>1. /\ painter = "store" /\ UNCHANGED <<buffer, active, reads>>
    BY <1>9 DEF StoreSeq, TypeInv
  <2> QED
    BY <1>6, <1>7, <2>1
<1>10. CASE Signal \/ Accept
  <2>1. painter # "painting" /\ UNCHANGED <<buffer, active, reads>>
    BY <1>10 DEF Signal, Accept
  <2> QED
    BY <1>6, <1>7, <2>1
<1>11. CASE GeneratorRestarts
  <2>1. /\ buffer' = [i \in 0..1 |-> 0] /\ reads' = Swapped
    BY <1>11 DEF GeneratorRestarts
  <2>2. \A i \in 0..1 : buffer'[i] # Torn
    BY <2>1 DEF Torn
  <2> QED
    BY <1>6, <2>1, <2>2
<1> QED
  BY <1>4, <1>5, <1>8, <1>9, <1>10, <1>11 DEF Generate

\* The renderer and the GPU.
LEMMA DrawInv == ASSUME TearInv, Draw \/ Present PROVE TearInv'
<1> USE DEF TearInv, shm, generator, socket, app, renderer
<1>0. /\ TypeInv' /\ reads \in [Readers -> Reads] /\ active \in 0..1
      /\ "draw" \in Readers /\ "queue" \in Readers /\ "gpu" \in Readers
  BY DrawTypes, Typed DEF Readers
<1>1. UNCHANGED <<buffer, active, painter>> /\ Back' = Back
  BY DEF Draw, ReadSeq, Again, Fresh, Upload, Uploaded, Commit, GiveUp, Present, Back
<1>2. buffer[active] # Torn
  BY <1>0 DEF BackTorn, Back
\* Nothing is written: a read that is new is whole, and the others are what they were.
<1>3. ASSUME UNCHANGED texture, draw'.pc # "copy", texture.frame = Torn => texture.late,
             NoTearing',
             \A r \in Readers : \/ \E o \in Readers : reads'[r] = reads[o]
                                \/ reads'[r] \in {NoRead, ReadOf(active), OfTexture(texture)}
      PROVE  TearInv'
  <2>1. ASSUME NEW r \in Readers PROVE WholeRead(r)'
    <3>1. CASE reads'[r] = NoRead
      BY <3>1 DEF WholeRead, NoRead, ReadOf
    <3>2. CASE reads'[r] = ReadOf(active)
      BY <1>0, <1>1, <1>2, <1>3, <3>2 DEF WholeRead, ReadOf, Content, Texture
    <3>3. CASE reads'[r] = OfTexture(texture)
      BY <1>3, <3>3 DEF WholeRead, OfTexture, Content, Texture
    <3>4. CASE \E o \in Readers : reads'[r] = reads[o]
      BY <1>1, <1>3, <3>4 DEF WholeRead, ReadInv, Content
    <3> QED
      BY <1>3, <3>1, <3>2, <3>3, <3>4
  <2> QED
    BY <1>0, <1>1, <1>3, <2>1 DEF BackTorn, ReadInv
<1>4. CASE ReadSeq
  <2>1. /\ draw.pc = "idle" /\ draw'.pc = "active" /\ UNCHANGED <<texture, shown, reads>>
    BY <1>4 DEF ReadSeq
  <2> QED
    BY <1>3, <2>1 DEF BackTorn, NoTearing
<1>5. CASE Again
  <2>1. /\ draw.pc = "active" /\ draw'.pc = "render" /\ UNCHANGED <<texture, shown>>
        /\ \A r \in Readers :
              reads'[r] = reads[r] \/ reads'[r] \in {ReadOf(active), OfTexture(texture)}
    BY <1>0, <1>5 DEF Again, TypeInv, TypeOK, Draws
  <2> QED
    BY <1>3, <2>1 DEF BackTorn, NoTearing
<1>6. CASE Fresh
  <2>1. /\ draw.pc = "active" /\ draw'.pc # "copy" /\ UNCHANGED <<texture, shown>>
        /\ \A r \in Readers : reads'[r] = reads[r] \/ reads'[r] = ReadOf(active)
    BY <1>0, <1>6 DEF Fresh, TypeInv, TypeOK, Draws
  <2> QED
    BY <1>3, <2>1 DEF BackTorn, NoTearing
<1>7. CASE Commit \/ GiveUp
  <2>1. /\ draw.pc = "render" /\ draw'.pc = "idle" /\ UNCHANGED <<texture, shown>>
        /\ \A r \in Readers : \/ \E o \in Readers : reads'[r] = reads[o]
                              \/ reads'[r] = NoRead
    BY <1>0, <1>7 DEF Commit, GiveUp, NoDraw
  <2> QED
    BY <1>3, <2>1 DEF BackTorn, NoTearing
<1>8. CASE Upload
  <2>1. /\ draw'.pc = "copy" /\ UNCHANGED shown
        /\ \A r \in Readers :
              reads'[r] = IF r = "draw" THEN ReadOf(active)
                          ELSE IF reads[r].of = Texture
                          THEN [of |-> Texture, since |-> "write", clean |-> FALSE]
                          ELSE reads[r]
    BY <1>8 DEF Upload, TypeInv, TypeOK, Draws
  <2>2. ASSUME NEW r \in Readers PROVE WholeRead(r)'
    <3>1. CASE reads'[r] = ReadOf(active)
      BY <1>0, <1>1, <1>2, <3>1 DEF WholeRead, ReadOf, Content, Texture
    <3>2. CASE reads'[r] = [of |-> Texture, since |-> "write", clean |-> FALSE]
      BY <3>2 DEF WholeRead
    <3>3. CASE reads'[r] = reads[r] /\ reads[r].of # Texture
      BY <1>1, <3>3 DEF WholeRead, ReadInv, Content
    <3> QED
      BY <2>1, <3>1, <3>2, <3>3
  <2> QED
    BY <1>0, <1>1, <2>1, <2>2 DEF BackTorn, ReadInv, NoTearing
\* What a read gets is torn only if it was late.
<1>9. ASSUME NEW r \in Readers, reads[r].of # Nothing,
             NEW clean \in {reads[r].clean, Content(reads[r].of) # Torn}
      PROVE  Picture(reads[r], clean).frame = Torn => Picture(reads[r], clean).late
  BY <1>9 DEF ReadInv, WholeRead, Picture
<1>10. CASE Uploaded
  <2>1. /\ draw.pc = "copy" /\ draw'.pc = "render" /\ UNCHANGED shown
        /\ texture' = Picture(reads["draw"], reads["draw"].clean)
        /\ reads' = [reads EXCEPT !["draw"] = OfTexture(texture')]
    BY <1>10 DEF Uploaded, TypeInv, TypeOK, Draws
  <2>2. texture'.frame = Torn => texture'.late
    BY <1>0, <1>9, <2>1 DEF TypeInv, Nothing
  <2>3. ASSUME NEW r \in Readers PROVE WholeRead(r)'
    <3>1. CASE r = "draw"
      <4>1. reads'[r] = OfTexture(texture')
        BY <1>0, <2>1, <3>1
      <4> QED
        BY <2>1, <2>2, <4>1 DEF WholeRead, OfTexture, Content, Texture
    <3>2. CASE r # "draw"
      <4>1. reads'[r] = reads[r]
        BY <1>0, <2>1, <3>2
      <4> QED
        BY <1>1, <2>1, <4>1 DEF WholeRead, ReadInv, Content
    <3> QED
      BY <3>1, <3>2
  <2> QED
    BY <1>0, <1>1, <2>1, <2>2, <2>3 DEF BackTorn, ReadInv, NoTearing
<1>11. CASE Present
  <2>1. PICK clean \in {reads["gpu"].clean, Content(reads["gpu"].of) # Torn} :
           shown' = Picture(reads["gpu"], clean)
    BY <1>11 DEF Present
  <2>2. NoTearing'
    BY <1>0, <1>9, <1>11, <2>1 DEF NoTearing, Present
  <2>3. UNCHANGED <<texture, draw>>
    BY <1>11 DEF Present
  <2>4. ASSUME NEW r \in Readers PROVE WholeRead(r)'
    <3>1. reads'[r] = NoRead \/ \E o \in Readers : reads'[r] = reads[o]
      BY <1>0, <1>11 DEF Present
    <3>2. CASE reads'[r] = NoRead
      BY <3>2 DEF WholeRead, NoRead, ReadOf
    <3> QED
      BY <1>1, <2>3, <3>1, <3>2 DEF WholeRead, ReadInv, Content
  <2> QED
    BY <1>0, <1>1, <2>2, <2>3, <2>4 DEF BackTorn, ReadInv
<1> QED
  BY <1>4, <1>5, <1>6, <1>7, <1>8, <1>10, <1>11 DEF Draw

LEMMA NextTear == TearInv /\ [Next]_vars => TearInv'
<1> SUFFICES ASSUME TearInv, [Next]_vars PROVE TearInv'
  OBVIOUS
<1>1. TypeInv'
  BY NextTypes DEF TearInv
<1>2. CASE Listen \/ RunBlock \/ Resize \/ Expose \/ UNCHANGED vars
  <2>1. UNCHANGED <<shm, painter, draw, reads, texture, shown>>
    BY <1>2 DEF Listen, Connect, Read, FrameReady, Resized, Skip, Disconnected, RunBlock, Resize,
       Expose, vars, generator, renderer
  <2> QED
    BY <1>1, <2>1 DEF shm, TearInv, BackTorn, ReadInv, WholeRead, NoTearing, Content, Back
<1> QED BY <1>2, GenerateInv, DrawInv DEF Next

\* Two buffers, and one texture, are enough as long as nothing is read late: then no
\* window ever shows a half-painted frame, whether textures share the buffers or not,
\* however the header's words are ordered, however long the GPU takes and whoever
\* restarts.
THEOREM NeverTorn == Spec => []NoTearing
<1>1. TearInv => NoTearing
  BY DEF TearInv
<1> QED BY InitTear, NextTear, <1>1, PTL DEF Spec
-----------------------------------------------------------------------------
\* What the app cannot make good: the words of the header seen in the other order, a
\* read that ends within a resize message, a generator that starts anew.
Excused == reordered \/ cut \/ restarts > 0

\* Nothing is left to do for the app and the GPU.
Quiet ==
    /\ buf = <<>> /\ bytes = <<>> /\ ~block /\ ~needsDisplay /\ draw.pc = "idle"
    /\ reads["queue"].of = Nothing /\ reads["gpu"].of = Nothing

\* When nothing is left to do, the window shows the last frame that was signalled, or a
\* later one: no order of the socket's queue, the main queue, the GPU and the generator
\* loses a signal, unless the last draw had nothing to render to, the frame shown was
\* read late, or one of Excused has happened (ControlSocket.swift:81-109, AppDelegate.swift:74, MetalRenderer.swift:99-104,
\* 188-200).
SignalsHeard == Quiet => shown.frame >= sent \/ shown.late \/ missed \/ Excused

\* What was sent and is not decoded yet.
Total == Len(buf) + Len(bytes)
Byte(i) == IF i <= Len(buf) THEN buf[i] ELSE bytes[i - Len(buf)]

\* Messages begin at the places in S and at no other, and the last one is whole.
Messages(S) ==
    /\ S \subseteq 1..Total + 1 /\ 1 \in S /\ Total + 1 \in S
    /\ \A i \in S : i <= Total =>
          \/ Byte(i) = "F" /\ i + 1 \in S
          \/ /\ Byte(i) = "R" /\ i + ResizeSize \in S
             /\ \A j \in S : j <= i \/ i + ResizeSize <= j

\* A draw will be asked for.
Due(S) == block \/ \E i \in S : i <= Total /\ Byte(i) = "F"

\* The header, the buffers and what was signalled.
Header ==
    /\ painter = "store" <=> stores # {}
    /\ stores \in {{}, {"seq"}, {"active", "seq"}}
    /\ seq = IF painter = "painting" \/ "seq" \in stores THEN frame - 1 ELSE frame
    /\ buffer[active] =
          IF painter = "painting" \/ "active" \in stores THEN frame - 1 ELSE frame
    /\ "active" \in stores => buffer[Back] = frame
    /\ sent <= seq

Linked ==
    /\ ~hup /\ link # "lost" /\ (client => link = "up")
    /\ drawPending => block

\* The frame n, or a later one, is there to be read, unless the read is late.
Promise(read, n) == read.since = "write" \/ Content(read.of) >= n

\* What a draw has read is not older than what it takes for drawn.
Drawing ==
    /\ draw.pc # "idle" => draw.seq <= seq
    /\ draw.pc \in {"upload", "copy", "render"} => lastSeq = draw.seq
    /\ draw.pc \in {"copy", "render"} =>
          reads["draw"].of # Nothing /\ Promise(reads["draw"], draw.seq)
    /\ textures = "uploaded" /\ draw.pc \in {"idle", "active", "render"} =>
          texture.late \/ texture.frame >= lastSeq
    /\ textures = "none" => draw.pc \in {"idle", "active"}
    /\ draw.pc \in {"upload", "copy"} => textures = "uploaded"
    /\ reads["gpu"].of = Nothing => reads["queue"].of = Nothing

\* What the window will show in the end, if nothing else is drawn.
LastShows(n) ==
    IF reads["queue"].of # Nothing THEN Promise(reads["queue"], n)
    ELSE IF reads["gpu"].of # Nothing THEN Promise(reads["gpu"], n)
    ELSE shown.late \/ shown.frame >= n

\* The last signal is on its way, or is heard, or was drawn.
Waits(S) ==
    Due(S) \/ IF draw.pc = "idle" THEN needsDisplay \/ missed \/ LastShows(sent)
                                  ELSE draw.seq >= sent

Heard == \E S : Messages(S) /\ Waits(S)

SignalInv == TearInv /\ (Excused \/ (Header /\ Linked /\ Drawing /\ Heard))

\* Only a restart goes back, and it is counted.
LEMMA ExcusedStays ==
    ASSUME SignalInv, [Next]_vars, ~Excused'
    PROVE  ~Excused /\ ~GeneratorRestarts
<1>1. restarts \in Nat
  BY DisplayAssumption DEF SignalInv, TearInv, TypeInv, TypeOK
<1>2. ~GeneratorRestarts
  BY <1>1 DEF GeneratorRestarts, Excused
<1>3. restarts' = restarts
  BY <1>2 DEF Next, Generate, Paint, Painted, StoreActive, StoreSeq, Signal, Accept, Listen,
     Connect, Read, FrameReady, Resized, Skip, Disconnected, RunBlock, Draw, ReadSeq, Again,
     Fresh, Upload, Uploaded, Commit, GiveUp, Present, Resize, Expose, vars, generator
<1>4. reordered => reordered'
  BY <1>2 DEF Next, Generate, Paint, Painted, StoreActive, StoreSeq, Signal, Accept, Listen,
     Connect, Read, FrameReady, Resized, Skip, Disconnected, RunBlock, Draw, ReadSeq, Again,
     Fresh, Upload, Uploaded, Commit, GiveUp, Present, Resize, Expose, vars, generator
<1>6. cut => cut'
  BY <1>2 DEF Next, Generate, Paint, Painted, StoreActive, StoreSeq, Signal, Accept, Listen,
     Connect, Read, FrameReady, Resized, Skip, Disconnected, RunBlock, Draw, ReadSeq, Again,
     Fresh, Upload, Uploaded, Commit, GiveUp, Present, Resize, Expose, vars, socket
<1> QED
  BY <1>2, <1>3, <1>4, <1>6 DEF Excused

LEMMA HeaderStep ==
    ASSUME SignalInv, [Next]_vars, ~Excused', Header PROVE Header'
<1>1. ~Excused /\ ~GeneratorRestarts
  BY ExcusedStays
<1>2. /\ buffer \in [0..1 -> Frames \cup {Torn}] /\ active \in 0..1 /\ frame \in Int /\ seq \in Int
      /\ sent \in Int /\ painter \in {"paint", "painting", "store", "signal", "accept"}
  BY DisplayAssumption DEF SignalInv, TearInv, TypeInv, TypeOK, Frames
<1> USE DEF shm, generator
<1>3. CASE UNCHANGED <<shm, painter, stores, frame, sent>>
  BY <1>3 DEF Header, Back
<1>4. CASE Paint
  BY <1>2, <1>4 DEF Paint, Header, Back
<1>5. CASE Painted
  <2>1. /\ painter = "painting" /\ painter' = "store" /\ stores' = {"active", "seq"} /\ stores = {}
        /\ buffer' = [buffer EXCEPT ![Back] = frame] /\ Back \in 0..1 /\ Back # active
        /\ UNCHANGED <<active, seq, frame, sent>>
    BY <1>2, <1>5 DEF Painted, Header, Back
  <2>2. buffer'[active] = buffer[active] /\ buffer'[Back] = frame /\ Back' = Back
    BY <1>2, <2>1 DEF Back
  <2> QED
    BY <2>1, <2>2 DEF Header
<1>6. CASE StoreActive
  <2>1. /\ stores = {"active", "seq"} /\ stores' = {"seq"} /\ painter' = "store"
        /\ painter = "store" /\ active' = Back /\ UNCHANGED <<buffer, seq, frame, sent>>
    BY <1>6 DEF StoreActive, Header, Back
  <2> QED
    BY <1>2, <2>1 DEF Header, Back
<1>7. CASE StoreSeq
  <2>1. /\ stores = {"seq"} /\ stores' = {} /\ painter' = "signal" /\ seq' = seq + 1
        /\ UNCHANGED <<buffer, active, frame, sent>>
    BY <1>7 DEF StoreSeq, Header, Excused
  <2> QED
    BY <1>2, <2>1 DEF Header, Back
<1>8. CASE Signal
  <2>1. /\ painter = "signal" /\ painter' = "accept" /\ sent' \in {sent, frame}
        /\ UNCHANGED <<shm, stores, frame>>
    BY <1>8 DEF Signal
  <2> QED
    BY <1>2, <2>1 DEF Header, Back
<1>9. CASE Accept
  BY <1>2, <1>9 DEF Accept, Header, Back
<1>10. CASE Listen \/ RunBlock \/ Draw \/ Present \/ Resize \/ Expose \/ UNCHANGED vars
  <2>1. UNCHANGED <<shm, painter, stores, frame, sent>>
    BY <1>10 DEF Listen, Connect, Read, FrameReady, Resized, Skip, Disconnected, RunBlock,
       Draw, ReadSeq, Again, Fresh, Upload, Uploaded, Commit, GiveUp, Present, Resize, Expose,
       vars
  <2> QED
    BY <1>3, <2>1
<1> QED
  BY <1>1, <1>4, <1>5, <1>6, <1>7, <1>8, <1>9, <1>10 DEF Next, Generate

LEMMA LinkedStep ==
    ASSUME SignalInv, [Next]_vars, ~Excused', Linked PROVE Linked'
<1>1. ~Excused /\ ~GeneratorRestarts
  BY ExcusedStays
<1> USE DEF Linked, generator, socket, app
<1>2. CASE Generate \/ RunBlock \/ Draw \/ Present \/ Resize \/ Expose \/ UNCHANGED vars
  <2>1. CASE Accept
    BY <2>1 DEF Accept
  <2>2. CASE RunBlock
    BY <2>2 DEF RunBlock, NotPending
  <2>3. CASE UNCHANGED <<hup, link, client, drawPending, block>>
    BY <2>3
  <2> QED
    BY <1>2, <2>1, <2>2, <2>3 DEF Generate, Paint, Painted, StoreActive, StoreSeq, Signal,
       Draw, ReadSeq, Again, Fresh, Upload, Uploaded, Commit, GiveUp, Present, Resize, Expose,
       vars
<1>3. CASE Listen
  <2>1. CASE Connect
    BY <2>1 DEF Connect
  <2>2. CASE FrameReady
    BY <2>2 DEF FrameReady
  <2>3. CASE Read \/ Resized \/ Skip
    BY <2>3 DEF Read, Resized, Skip
  <2>4. ~Disconnected
    BY DEF Disconnected
  <2> QED
    BY <1>3, <2>1, <2>2, <2>3, <2>4 DEF Listen
<1> QED
  BY <1>1, <1>2, <1>3 DEF Next

\* The generator keeps every promise: what is read and was not there is late.
LEMMA PromiseKept ==
    ASSUME SignalInv, Header, Generate \/ UNCHANGED <<shm, generator, reads, texture>>,
           NEW r \in Readers, reads[r].of # Nothing, NEW n \in Int, n <= seq,
           Promise(reads[r], n)
    PROVE  Promise(reads[r], n)' /\ reads'[r].of = reads[r].of
<1> USE DEF shm, generator, socket, app, renderer
<1>1. /\ buffer \in [0..1 -> Int] /\ active \in 0..1 /\ Back \in 0..1 /\ Back # active
      /\ seq \in Int /\ frame \in Int
      /\ reads \in [Readers -> Reads] /\ reads[r].of \in {0, 1, Texture} /\ WholeRead(r)
  BY Typed DEF SignalInv, TearInv, ReadInv
<1>2. CASE Paint
  <2>1. /\ buffer' = [buffer EXCEPT ![Back] = Torn] /\ reads' = PaintedOver(Back)
        /\ UNCHANGED texture
    BY <1>2 DEF Paint
  <2>2. /\ reads'[r].of = reads[r].of
        /\ reads'[r].since = IF reads[r].since = "swap" THEN "write" ELSE reads[r].since
        /\ reads[r].since \in {"chosen", "swap", "write"}
    BY <1>1, <2>1 DEF PaintedOver, Reads
  <2>3. CASE reads[r].since = "chosen"
    <3>1. Content(reads[r].of)' = Content(reads[r].of)
      BY <1>1, <2>1, <2>2, <2>3 DEF WholeRead, Content, Texture
    <3> QED
      BY <2>2, <2>3, <3>1 DEF Promise, Content
  <2> QED
    BY <2>2, <2>3 DEF Promise
<1>3. CASE Painted
  <2>1. /\ painter = "painting" /\ buffer' = [buffer EXCEPT ![Back] = frame]
        /\ UNCHANGED <<reads, texture>>
    BY <1>3 DEF Painted
  <2>2. frame >= n
    BY <1>1, <2>1 DEF Header
  <2> QED
    BY <1>1, <2>1, <2>2 DEF Promise, Content, Texture
<1>4. CASE StoreActive
  <2>1. reads' = Swapped /\ UNCHANGED <<buffer, texture>>
    BY <1>4 DEF StoreActive
  <2>2. reads'[r].of = reads[r].of /\ (reads[r].since = "write" => reads'[r].since = "write")
    BY <1>1, <2>1 DEF Swapped, Reads
  <2> QED
    BY <2>1, <2>2 DEF Promise, Content
<1>5. CASE \/ StoreSeq \/ Signal \/ Accept \/ UNCHANGED <<shm, generator, reads, texture>>
  <2>1. UNCHANGED <<buffer, reads, texture>>
    BY <1>5 DEF StoreSeq, Signal, Accept
  <2> QED
    BY <2>1 DEF Promise, Content
<1> QED
  BY <1>2, <1>3, <1>4, <1>5 DEF Generate

LEMMA DrawingStep ==
    ASSUME SignalInv, [Next]_vars, ~Excused', Header, Drawing PROVE Drawing'
<1>1. ~Excused /\ ~GeneratorRestarts
  BY ExcusedStays
<1>2. /\ buffer \in [0..1 -> Int] /\ active \in 0..1 /\ frame \in Int /\ seq \in Int
      /\ lastSeq \in Int /\ texture.frame \in Int /\ draw.seq \in Int
      /\ reads \in [Readers -> Reads] /\ draw \in Draws
      /\ "draw" \in Readers /\ "queue" \in Readers /\ "gpu" \in Readers
  BY Typed DEF SignalInv, TearInv, TypeInv, TypeOK, Readers
<1>3. buffer[active] >= seq
  BY <1>2 DEF Header
<1> USE DEF shm, generator, socket, app
<1>4. CASE Generate \/ Listen \/ RunBlock \/ Resize \/ Expose \/ UNCHANGED vars
  <2>1. UNCHANGED <<draw, lastSeq, textures, texture>>
    BY <1>4 DEF Generate, Paint, Painted, StoreActive, StoreSeq, Signal, Accept, Listen, Connect,
       Read, FrameReady, Resized, Skip, Disconnected, RunBlock, Resize, Expose, vars, renderer
  <2>2. seq' \in {seq, seq + 1}
    BY <1>4 DEF Generate, Paint, Painted, StoreActive, StoreSeq, Signal, Accept, Listen, Connect,
       Read, FrameReady, Resized, Skip, Disconnected, RunBlock, Resize, Expose, vars, renderer
  <2>3. Generate \/ UNCHANGED <<shm, generator, reads, texture>>
    BY <1>4 DEF Listen, Connect, Read, FrameReady, Resized, Skip, Disconnected, RunBlock, Resize,
       Expose, vars, renderer
  <2>4. draw.pc \in {"copy", "render"} =>
           reads'["draw"].of = reads["draw"].of /\ Promise(reads["draw"], draw.seq)'
    <3>1. PICK n \in Int : n = draw.seq
      BY <1>2
    <3>2. CASE draw.pc \in {"copy", "render"}
      <4>1. Promise(reads["draw"], n) /\ n <= seq /\ reads["draw"].of # Nothing
        BY <3>1, <3>2 DEF Drawing
      <4>2. Promise(reads["draw"], n)' /\ reads'["draw"].of = reads["draw"].of
        BY <1>2, <2>3, <4>1, PromiseKept
      <4> QED
        BY <2>1, <3>1, <4>2 DEF Promise
    <3> QED
      BY <3>2
  <2>5. \A r \in Readers : reads'[r].of = reads[r].of
    <3>1. reads' \in {reads, Swapped, PaintedOver(Back)}
      BY <2>3 DEF Generate, Paint, Painted, StoreActive, StoreSeq, Signal, Accept, renderer
    <3> QED
      BY <1>2, <3>1, ReadTypes
  <2> QED
    BY <1>2, <2>1, <2>2, <2>4, <2>5 DEF Drawing
<1>5. CASE ReadSeq
  <2>1. /\ draw' = [pc |-> "active", seq |-> seq] /\ draw.pc = "idle"
        /\ UNCHANGED <<seq, reads, lastSeq, textures, texture>>
    BY <1>5 DEF ReadSeq
  <2> QED
    BY <1>2, <2>1 DEF Drawing
<1>6. ASSUME draw.pc = "active", draw'.pc = "render", draw'.seq = draw.seq,
             UNCHANGED <<buffer, active, seq, texture>>, lastSeq' = draw.seq,
             \/ textures' = "shared" /\ reads'["draw"] = ReadOf(active)
             \/ /\ textures' = "uploaded" /\ textures = "uploaded" /\ lastSeq = draw.seq
                /\ reads'["draw"] = OfTexture(texture),
             reads'["gpu"] = reads["gpu"], reads'["queue"] = reads["queue"]
      PROVE  Drawing'
  <2>1. CASE reads'["draw"] = ReadOf(active) /\ textures' = "shared"
    <3>1. Promise(reads["draw"], draw.seq)' /\ reads'["draw"].of # Nothing
      BY <1>2, <1>3, <1>6, <2>1 DEF Promise, ReadOf, Content, Texture, Nothing, Drawing
    <3> QED
      BY <1>6, <2>1, <3>1 DEF Drawing
  <2>2. CASE reads'["draw"] = OfTexture(texture) /\ textures' = "uploaded"
    <3>1. texture.late \/ texture.frame >= draw.seq
      BY <1>6, <2>2 DEF Drawing, ReadOf, OfTexture
    <3>2. Promise(reads["draw"], draw.seq)' /\ reads'["draw"].of # Nothing
      BY <1>6, <2>2, <3>1 DEF Promise, OfTexture, Content, Texture, Nothing
    <3> QED
      BY <1>6, <2>2, <3>1, <3>2 DEF Drawing
  <2> QED
    BY <1>6, <2>1, <2>2
<1>7. CASE Again
  <2>1. /\ draw'.pc = "render" /\ draw'.seq = draw.seq /\ draw.pc = "active"
        /\ lastSeq = draw.seq /\ textures \in {"shared", "uploaded"}
        /\ UNCHANGED <<buffer, active, seq, texture, lastSeq, textures>>
    BY <1>2, <1>7 DEF Again, Draws, HasTexture
  <2>2. /\ reads'["draw"] = IF textures = "shared" THEN ReadOf(active) ELSE OfTexture(texture)
        /\ reads'["gpu"] = reads["gpu"] /\ reads'["queue"] = reads["queue"]
    BY <1>2, <1>7 DEF Again
  <2> QED
    BY <1>6, <2>1, <2>2
<1>8. CASE Fresh
  <2>1. /\ draw'.seq = draw.seq /\ draw.pc = "active" /\ lastSeq' = draw.seq
        /\ UNCHANGED <<buffer, active, seq, texture>>
        /\ textures' \in {"shared", "uploaded"}
    BY <1>2, <1>8 DEF Fresh, Draws, SetUp, SignalInv, TearInv, TypeInv,
       TypeOK
  <2>2. CASE textures' = "shared"
    <3>1. /\ draw'.pc = "render" /\ reads'["draw"] = ReadOf(active)
          /\ reads'["gpu"] = reads["gpu"] /\ reads'["queue"] = reads["queue"]
      BY <1>2, <1>8, <2>2 DEF Fresh, Draws
    <3> QED
      BY <1>6, <2>1, <2>2, <3>1
  <2>3. CASE textures' = "uploaded"
    <3>1. draw'.pc = "upload" /\ UNCHANGED reads
      BY <1>2, <1>8, <2>3 DEF Fresh, Draws
    <3> QED
      BY <2>1, <2>3, <3>1 DEF Drawing
  <2> QED
    BY <2>1, <2>2, <2>3
<1>9. CASE Upload
  <2>1. /\ draw'.pc = "copy" /\ draw'.seq = draw.seq /\ draw.pc = "upload"
        /\ UNCHANGED <<buffer, active, seq, lastSeq, textures>>
        /\ reads'["draw"] = ReadOf(active)
    BY <1>2, <1>9 DEF Upload, Draws
  <2>2. reads'["gpu"].of = reads["gpu"].of /\ reads'["queue"].of = reads["queue"].of
    BY <1>2, <1>9 DEF Upload
  <2>3. Promise(reads["draw"], draw.seq)' /\ reads'["draw"].of # Nothing
    BY <1>2, <1>3, <2>1 DEF Promise, ReadOf, Content, Texture, Nothing, Drawing
  <2> QED
    BY <2>1, <2>2, <2>3 DEF Drawing
<1>10. CASE Uploaded
  <2>1. /\ draw'.pc = "render" /\ draw'.seq = draw.seq /\ draw.pc = "copy"
        /\ UNCHANGED <<seq, lastSeq, textures>>
        /\ texture' = Picture(reads["draw"], reads["draw"].clean)
        /\ reads'["draw"] = OfTexture(texture')
        /\ reads'["gpu"] = reads["gpu"] /\ reads'["queue"] = reads["queue"]
    BY <1>2, <1>10 DEF Uploaded, Draws
  <2>2. /\ Promise(reads["draw"], draw.seq) /\ reads["draw"].of # Nothing /\ lastSeq = draw.seq
        /\ WholeRead("draw")
    BY <1>2, <2>1 DEF Drawing, SignalInv, TearInv, ReadInv
  <2>3. texture'.late \/ texture'.frame >= draw.seq
    BY <2>1, <2>2 DEF Picture, Promise, WholeRead
  <2>4. Promise(reads["draw"], draw.seq)' /\ reads'["draw"].of # Nothing
    BY <2>1, <2>3 DEF Promise, OfTexture, Content, Texture, Nothing
  <2> QED
    BY <2>1, <2>2, <2>3, <2>4 DEF Drawing
<1>11. CASE Commit \/ GiveUp
  <2>1. /\ draw'.pc = "idle" /\ draw.pc = "render" /\ UNCHANGED <<lastSeq, textures, texture>>
        /\ reads'["gpu"].of = Nothing => reads'["queue"].of = Nothing
    <3>1. reads["draw"].of # Nothing /\ draw'.pc = "idle" /\ draw.pc = "render"
          /\ UNCHANGED <<lastSeq, textures, texture>>
      BY <1>11 DEF Drawing, Commit, GiveUp, NoDraw
    <3>2. CASE Commit
      BY <1>2, <3>1, <3>2 DEF Commit, Drawing
    <3>3. CASE GiveUp
      BY <1>2, <3>1, <3>3 DEF GiveUp, Drawing
    <3> QED
      BY <1>11, <3>1, <3>2, <3>3
  <2> QED
    BY <2>1 DEF Drawing
<1>12. CASE Present
  <2>1. /\ UNCHANGED <<shm, draw, lastSeq, textures, texture>>
        /\ reads'["draw"] = reads["draw"] /\ reads'["queue"].of = Nothing
    BY <1>2, <1>12 DEF Present, NoRead, ReadOf
  <2> QED
    BY <2>1 DEF Drawing, Promise, Content
<1> QED
  BY <1>1, <1>4, <1>5, <1>7, <1>8, <1>9, <1>10, <1>11, <1>12 DEF Next, Draw

\* Messages that are appended, and decoded.
LEMMA Appended ==
    ASSUME Total \in Nat, NEW k \in Nat \ {0}, Total' = Total + k,
           \A i \in 1..Total : Byte(i)' = Byte(i),
           \/ \A i \in {Total + 1} : Byte(i)' = "F" /\ k = 1
           \/ \A i \in {Total + 1} : Byte(i)' = "R" /\ k = ResizeSize,
           NEW S, Messages(S)
    PROVE  \E T : /\ Messages(T)' /\ T = S \cup {Total + 1 + k}
                  /\ \A i \in S : i <= Total /\ Byte(i) = "F" => i <= Total' /\ Byte(i)' = "F"
<1>0. PICK T : T = S \cup {Total + 1 + k}
  OBVIOUS
<1>1. T \subseteq 1..Total' + 1 /\ 1 \in T /\ Total' + 1 \in T
  BY <1>0 DEF Messages
<1>2. ASSUME NEW i \in T, i <= Total'
      PROVE  \/ Byte(i)' = "F" /\ i + 1 \in T
             \/ /\ Byte(i)' = "R" /\ i + ResizeSize \in T
                /\ \A j \in T : j <= i \/ i + ResizeSize <= j
  <2>1. i \in S /\ i \in 1..Total + 1
    BY <1>0, <1>2 DEF Messages
  <2>2. CASE i = Total + 1
    <3>1. \A j \in T : j <= i \/ j = i + k
      BY <1>0, <2>2 DEF Messages
    <3>2. i + k \in T /\ i + k >= i
      BY <1>0, <2>2
    <3> QED
      BY <2>2, <3>1, <3>2
  <2>3. CASE i <= Total
    <3>1. Byte(i)' = Byte(i) /\ i \in 1..Total
      BY <2>1, <2>3
    <3>2. i + ResizeSize \in S => i + ResizeSize <= Total + 1 + k
      <4>1. i + ResizeSize \in S => i + ResizeSize \in 1..Total + 1
        BY DEF Messages
      <4> QED
        BY <4>1
    <3> QED
      BY <1>0, <2>1, <2>3, <3>1, <3>2, DisplayAssumption DEF Messages
  <2> QED
    BY <2>1, <2>2, <2>3
<1>3. Messages(T)'
  BY <1>1, <1>2 DEF Messages
<1>4. \A i \in S : i \in 1..Total + 1
  BY DEF Messages
<1> QED
  BY <1>0, <1>3, <1>4

LEMMA Decoded ==
    ASSUME Total \in Nat, NEW k \in Nat, Total' = Total - k,
           \A i \in 1..Total' : Byte(i)' = Byte(i + k),
           NEW S, Messages(S), k + 1 \in S
    PROVE  \E T : /\ Messages(T)'
                  /\ \A i \in S : i > k /\ i <= Total /\ Byte(i) = "F" =>
                        i - k \in T /\ i - k <= Total' /\ Byte(i - k)' = "F"
<1>0. PICK T : T = {i \in 1..Total' + 1 : i + k \in S}
  OBVIOUS
<1>1. \A i \in S : i \in 1..Total + 1
  BY DEF Messages
<1>2. Total' \in Nat /\ Total + 1 \in S
  BY <1>1 DEF Messages
<1>3. T \subseteq 1..Total' + 1 /\ 1 \in T /\ Total' + 1 \in T
  BY <1>0, <1>2
<1>4. ASSUME NEW i \in T, i <= Total'
      PROVE  \/ Byte(i)' = "F" /\ i + 1 \in T
             \/ /\ Byte(i)' = "R" /\ i + ResizeSize \in T
                /\ \A j \in T : j <= i \/ i + ResizeSize <= j
  <2>1. Byte(i)' = Byte(i + k) /\ i + k \in S /\ i + k <= Total
    BY <1>0, <1>2, <1>4
  <2>2. CASE Byte(i + k) = "F" /\ i + k + 1 \in S
    BY <1>0, <1>1, <1>2, <1>4, <2>1, <2>2
  <2>3. CASE /\ Byte(i + k) = "R" /\ i + k + ResizeSize \in S
             /\ \A j \in S : j <= i + k \/ i + k + ResizeSize <= j
    <3>1. i + ResizeSize \in T
      BY <1>0, <1>1, <1>2, <1>4, <2>3, DisplayAssumption
    <3>2. \A j \in T : j <= i \/ i + ResizeSize <= j
      BY <1>0, <1>2, <1>4, <2>3, DisplayAssumption
    <3> QED
      BY <2>1, <2>3, <3>1, <3>2
  <2> QED
    BY <2>1, <2>2, <2>3 DEF Messages
<1>5. Messages(T)'
  BY <1>3, <1>4 DEF Messages
<1>6. \A i \in S : i > k /\ i <= Total /\ Byte(i) = "F" =>
         i - k \in T /\ i - k <= Total' /\ Byte(i - k)' = "F"
  <2> SUFFICES ASSUME NEW i \in S, i > k, i <= Total, Byte(i) = "F"
               PROVE  i - k \in T /\ i - k <= Total' /\ Byte(i - k)' = "F"
    OBVIOUS
  <2>1. i - k \in 1..Total' /\ (i - k) + k = i
    BY <1>1, <1>2
  <2> QED
    BY <1>0, <1>2, <2>1
<1> QED
  BY <1>5, <1>6

\* The decoder's steps take whole messages away, and the generator's add some.
LEMMA HeardStep ==
    ASSUME SignalInv, [Next]_vars, ~Excused', Header, Linked, Drawing, Heard PROVE Heard'
<1>1. ~Excused /\ ~GeneratorRestarts
  BY ExcusedStays
<1>2. PICK S : Messages(S) /\ Waits(S)
  BY DEF Heard
<1>3. /\ bytes \in Seq(Bytes) /\ buf \in Seq(Bytes)
      /\ Len(bytes) \in Nat /\ Len(buf) \in Nat /\ Total \in Nat
  BY LenProperties DEF SignalInv, TearInv, TypeInv, TypeOK, Total
<1>4. bytes' \in Seq(Bytes) /\ buf' \in Seq(Bytes) /\ Len(bytes') \in Nat /\ Len(buf') \in Nat
  BY NextTypes, LenProperties DEF SignalInv, TearInv, TypeInv, TypeOK
<1> USE DEF shm, generator, app, renderer
<1>5. ASSUME Total' = Total, \A i \in 1..Total : Byte(i)' = Byte(i),
             \/ Due(S) /\ (block => block')
             \/ IF draw'.pc = "idle" THEN needsDisplay' \/ missed' \/ LastShows(sent)'
                                      ELSE draw'.seq >= sent'
      PROVE  Heard'
  <2>1. \A i \in S : i <= Total => i \in 1..Total
    BY <1>2, <1>3 DEF Messages
  <2>2. Messages(S)'
    BY <1>2, <1>5, <2>1 DEF Messages
  <2>3. Due(S) /\ (block => block') => Due(S)'
    BY <1>2, <1>5, <2>1 DEF Due
  <2>4. Waits(S)'
    BY <1>5, <2>3 DEF Waits
  <2> QED
    BY <2>2, <2>4 DEF Heard
<1>6. ASSUME UNCHANGED <<bytes, buf>>,
             \/ Due(S) /\ (block => block')
             \/ IF draw'.pc = "idle" THEN needsDisplay' \/ missed' \/ LastShows(sent)'
                                      ELSE draw'.seq >= sent'
      PROVE  Heard'
  BY <1>5, <1>6 DEF Total, Byte
<1>same. ASSUME UNCHANGED <<buffer, texture, reads, shown, sent>>
         PROVE  LastShows(sent)' <=> LastShows(sent)
  BY <1>same DEF LastShows, Promise, Content
<1>kept. ASSUME Generate \/ UNCHANGED <<shm, generator, reads, texture>>,
             UNCHANGED <<bytes, buf, needsDisplay, missed, shown, sent, draw>>, block => block'
      PROVE  Heard'
  <2>1. PICK n \in Int : n = sent /\ n <= seq /\ seq \in Int
    BY Typed DEF Header, SignalInv, TearInv
  <2>2. \A r \in Readers : /\ reads'[r].of = reads[r].of
                           /\ reads[r].of # Nothing /\ Promise(reads[r], n) => Promise(reads[r], n)'
    <3>1. reads' \in {reads, Swapped, PaintedOver(Back)}
      BY <1>kept DEF Generate, Paint, Painted, StoreActive, StoreSeq, Signal, Accept
    <3>2. reads \in [Readers -> Reads]
      BY Typed DEF SignalInv, TearInv
    <3>3. \A r \in Readers : reads'[r].of = reads[r].of
      BY <3>1, <3>2, ReadTypes
    <3>4. \A r \in Readers : reads[r].of # Nothing /\ Promise(reads[r], n) => Promise(reads[r], n)'
      BY <1>kept, <2>1, PromiseKept
    <3> QED
      BY <3>3, <3>4
  <2>3. "queue" \in Readers /\ "gpu" \in Readers
    BY DEF Readers
  <2>4. LastShows(n) => LastShows(n)'
    BY <1>kept, <2>2, <2>3 DEF LastShows
  <2>5. LastShows(sent) => LastShows(sent)'
    BY <1>kept, <2>1, <2>4 DEF LastShows, Promise
  <2> QED
    BY <1>2, <1>6, <1>kept, <2>5 DEF Waits
<1>7. CASE \/ Paint \/ Painted \/ StoreActive \/ StoreSeq \/ Accept \/ Connect \/ Disconnected
            \/ UNCHANGED vars
  <2>1. UNCHANGED <<bytes, buf, block, needsDisplay, missed, shown, sent, draw>>
    BY <1>7 DEF Paint, Painted, StoreActive, StoreSeq, Accept, Connect, Disconnected, vars, socket
  <2>2. Generate \/ UNCHANGED <<shm, generator, reads, texture>>
    BY <1>7 DEF Generate, Connect, Disconnected, vars
  <2> QED
    BY <1>kept, <2>1, <2>2
<1>8. CASE Signal
  <2>1. CASE client
    <3>1. /\ bytes' = Append(bytes, "F") /\ UNCHANGED buf
      BY <1>8, <2>1 DEF Signal
    <3>2. "F" \in Bytes
      BY DEF Bytes
    <3>3. /\ Len(bytes') = Len(bytes) + 1 /\ bytes'[Len(bytes) + 1] = "F"
          /\ \A i \in 1..Len(bytes) : bytes'[i] = bytes[i]
      BY <1>3, <3>1, <3>2, AppendProperties
    <3>4. Total' = Total + 1 /\ \A i \in 1..Total : Byte(i)' = Byte(i)
      BY <1>3, <3>1, <3>3 DEF Total, Byte
    <3>5. \A i \in {Total + 1} : Byte(i)' = "F"
      BY <1>3, <3>1, <3>3 DEF Total, Byte
    <3>6. PICK T : Messages(T)' /\ T = S \cup {Total + 1 + 1}
      BY <1>2, <1>3, <3>4, <3>5, Appended
    <3>7. Total + 1 \in T
      BY <1>2, <3>6 DEF Messages
    <3>8. Due(T)'
      BY <1>3, <3>4, <3>5, <3>7 DEF Due
    <3> QED
      BY <3>6, <3>8 DEF Heard, Waits
  <2>2. CASE ~client
    <3>1. UNCHANGED <<bytes, buf, block, needsDisplay, missed, shown, sent, draw, buffer, texture,
                      reads>>
      BY <1>8, <2>2 DEF Signal
    <3> QED
      BY <1>2, <1>6, <1>same, <3>1 DEF Waits
  <2> QED
    BY <2>1, <2>2
<1>9. CASE Resize
  <2>1. PICK size \in Sizes : bytes' = bytes \o <<"R">> \o size
    BY <1>9 DEF Resize
  <2>2. /\ <<"R">> \in Seq(Bytes) /\ size \in Seq(Bytes) /\ Len(size) = ResizeSize - 1
    <3>1. size \in [1..ResizeSize - 1 -> {"F", "R", "other"}] /\ ResizeSize - 1 \in Nat
      BY DisplayAssumption
    <3> QED
      BY <3>1, SizeIsBytes, LenProperties DEF Bytes
  <2>3. /\ bytes \o <<"R">> \in Seq(Bytes) /\ Len(bytes \o <<"R">>) = Len(bytes) + 1
        /\ (bytes \o <<"R">>)[Len(bytes) + 1] = "R"
        /\ \A i \in 1..Len(bytes) : (bytes \o <<"R">>)[i] = bytes[i]
    BY <1>3, <2>2, ConcatProperties
  <2>4. /\ Len(bytes') = Len(bytes) + ResizeSize
        /\ \A i \in 1..Len(bytes) + 1 : bytes'[i] = (bytes \o <<"R">>)[i]
    <3>1. PICK b : b = bytes \o <<"R">>
      OBVIOUS
    <3>2. b \in Seq(Bytes) /\ Len(b) = Len(bytes) + 1 /\ bytes' = b \o size
      BY <2>1, <2>3, <3>1
    <3>3. /\ Len(b \o size) = Len(b) + Len(size)
          /\ \A i \in 1..Len(b) + Len(size) :
                (b \o size)[i] = IF i <= Len(b) THEN b[i] ELSE size[i - Len(b)]
      BY <2>2, <3>2, ConcatProperties
    <3>4. Len(bytes') = Len(bytes) + ResizeSize
      BY <1>3, <2>2, <3>2, <3>3, DisplayAssumption
    <3>5. \A i \in 1..Len(bytes) + 1 : bytes'[i] = b[i]
      BY <1>3, <2>2, <3>2, <3>3, DisplayAssumption
    <3> QED
      BY <3>1, <3>4, <3>5
  <2>5. UNCHANGED <<buf, block, needsDisplay, missed, shown, sent, draw, buffer, texture, reads>>
    BY <1>9 DEF Resize
  <2>6. Total' = Total + ResizeSize /\ \A i \in 1..Total : Byte(i)' = Byte(i)
    <3>1. \A i \in 1..Len(bytes) : bytes'[i] = bytes[i]
      BY <1>3, <2>3, <2>4
    <3>2. Total' = Total + ResizeSize
      BY <1>3, <2>4, <2>5, DisplayAssumption DEF Total
    <3> QED
      BY <1>3, <2>5, <3>1, <3>2 DEF Total, Byte
  <2>7. \A i \in {Total + 1} : Byte(i)' = "R"
    BY <1>3, <2>3, <2>4, <2>5 DEF Total, Byte
  <2>8. PICK T : /\ Messages(T)' /\ T = S \cup {Total + 1 + ResizeSize}
                 /\ \A i \in S : i <= Total /\ Byte(i) = "F" => i <= Total' /\ Byte(i)' = "F"
    BY <1>2, <1>3, <2>6, <2>7, Appended, DisplayAssumption
  <2>9. Due(S) => Due(T)'
    BY <2>5, <2>8 DEF Due
  <2> QED
    BY <1>2, <1>same, <2>5, <2>8, <2>9 DEF Heard, Waits
<1>10. CASE Read
  <2> DEFINE n == IF Len(bytes) < ReadSize THEN Len(bytes) ELSE ReadSize
  <2>1. /\ buf = <<>> /\ buf' = SubSeq(bytes, 1, n) /\ bytes' = SubSeq(bytes, n + 1, Len(bytes))
        /\ n \in 0..Len(bytes) /\ Len(buf) = 0
    BY <1>3, <1>10, EmptySeq, DisplayAssumption DEF Read
  <2>2. \A i \in 1..Len(bytes) : bytes[i] \in Bytes
    BY <1>3, ElementOfSeq
  <2>3. Len(buf') = n /\ \A i \in 1..n : buf'[i] = bytes[i]
    BY <1>3, <2>1, <2>2, SubSeqProperties
  <2>4. /\ Len(bytes') = Len(bytes) - n
        /\ \A i \in 1..Len(bytes) - n : bytes'[i] = bytes[n + i]
    BY <1>3, <2>1, <2>2, SubSeqProperties
  <2>5. Total' = Total /\ Total = Len(bytes)
    BY <1>3, <2>1, <2>3, <2>4 DEF Total
  <2>6. \A i \in 1..Total : Byte(i)' = bytes[i] /\ Byte(i) = bytes[i]
    <3> SUFFICES ASSUME NEW i \in 1..Total PROVE Byte(i)' = bytes[i] /\ Byte(i) = bytes[i]
      OBVIOUS
    <3>1. Byte(i) = bytes[i]
      BY <1>3, <2>1, <2>5 DEF Byte
    <3>2. CASE i <= n
      BY <2>1, <2>3, <2>5, <3>1, <3>2 DEF Byte
    <3>3. CASE ~(i <= n)
      <4>1. i - n \in 1..Len(bytes) - n /\ n + (i - n) = i
        BY <1>3, <2>1, <2>5, <3>3
      <4>2. bytes'[i - n] = bytes[i]
        BY <2>4, <4>1
      <4> QED
        BY <2>3, <3>1, <3>3, <4>2 DEF Byte
    <3> QED
      BY <3>2, <3>3
  <2> QED
    <3>1. UNCHANGED <<block, needsDisplay, missed, shown, sent, draw, buffer, texture, reads>>
      BY <1>10 DEF Read
    <3> QED
      BY <1>2, <1>5, <1>same, <2>5, <2>6, <3>1 DEF Waits
<1>11. ASSUME NEW k \in Nat, k <= Len(buf), Len(buf') = Len(buf) - k,
              \A i \in 1..Len(buf') : buf'[i] = buf[i + k], UNCHANGED bytes
       PROVE  Total' = Total - k /\ \A i \in 1..Total' : Byte(i)' = Byte(i + k)
  BY <1>3, <1>11 DEF Total, Byte
<1>12. ASSUME buf # <<>>
       PROVE  Len(buf) >= 1 /\ Byte(1) = Head(buf) /\ 1 \in S /\ 1 <= Total
  BY <1>2, <1>3, <1>12, EmptySeq DEF Byte, Total, Messages
<1>13. ASSUME buf # <<>>, buf' = Tail(buf)
       PROVE  Len(buf') = Len(buf) - 1 /\ \A i \in 1..Len(buf') : buf'[i] = buf[i + 1]
  BY <1>3, <1>13, HeadTailProperties
<1>14. CASE FrameReady
  <2>1. /\ buf # <<>> /\ Head(buf) = "F" /\ buf' = Tail(buf) /\ UNCHANGED bytes
        /\ block'
    BY <1>14 DEF FrameReady, Linked
  <2>2. 2 \in S
    BY <1>2, <1>12, <2>1 DEF Messages
  <2>3. Total' = Total - 1 /\ \A i \in 1..Total' : Byte(i)' = Byte(i + 1)
    BY <1>11, <1>12, <1>13, <2>1
  <2>4. PICK T : Messages(T)'
    BY <1>2, <1>3, <2>2, <2>3, Decoded
  <2> QED
    BY <2>1, <2>4 DEF Heard, Waits, Due
<1>15. ~Skip
  BY <1>2, <1>12 DEF Skip, Messages
<1>16. CASE Resized
  <2>1. /\ buf # <<>> /\ Head(buf) = "R" /\ buf' = Rest /\ Len(buf) >= ResizeSize
        /\ UNCHANGED <<bytes, block, needsDisplay, missed, shown, sent, draw, buffer, texture,
                       reads>>
    <3>1. Len(buf) < ResizeSize => Excused'
      BY <1>16 DEF Resized, Excused
    <3> QED
      BY <1>3, <1>16, <3>1, DisplayAssumption DEF Resized
  <2>2. 1 + ResizeSize \in S /\ \A j \in S : j <= 1 \/ 1 + ResizeSize <= j
    BY <1>2, <1>12, <2>1 DEF Messages
  <2>3. /\ Len(buf') = Len(buf) - ResizeSize
        /\ \A i \in 1..Len(buf') : buf'[i] = buf[i + ResizeSize]
    <3>1. \A i \in ResizeSize + 1..Len(buf) : buf[i] \in Bytes
      BY <1>3, ElementOfSeq, DisplayAssumption
    <3>2. /\ Rest \in Seq(Bytes)
          /\ Len(Rest) = IF ResizeSize + 1 <= Len(buf) THEN Len(buf) - (ResizeSize + 1) + 1 ELSE 0
          /\ \A i \in 1..Len(buf) - (ResizeSize + 1) + 1 : Rest[i] = buf[ResizeSize + 1 + i - 1]
      BY <1>3, <3>1, SubSeqProperties, DisplayAssumption DEF Rest
    <3> QED
      BY <1>3, <2>1, <3>2, DisplayAssumption
  <2>4. Total' = Total - ResizeSize /\ \A i \in 1..Total' : Byte(i)' = Byte(i + ResizeSize)
    <3>1. ResizeSize \in Nat
      BY DisplayAssumption
    <3> QED
      BY <1>11, <2>1, <2>3, <3>1
  <2>5. PICK T : /\ Messages(T)'
                 /\ \A i \in S : i > ResizeSize /\ i <= Total /\ Byte(i) = "F" =>
                       /\ i - ResizeSize \in T /\ i - ResizeSize <= Total'
                       /\ Byte(i - ResizeSize)' = "F"
    BY <1>2, <1>3, <2>2, <2>4, Decoded, DisplayAssumption
  <2>6. ASSUME NEW i \in S, i <= Total, Byte(i) = "F"
        PROVE  i > ResizeSize
    BY <1>2, <1>12, <2>1, <2>2, <2>6, DisplayAssumption DEF Messages
  <2>7. Due(S) => Due(T)'
    BY <2>1, <2>5, <2>6 DEF Due
  <2> QED
    BY <1>2, <1>same, <2>1, <2>5, <2>7 DEF Heard, Waits
<1>17. CASE RunBlock \/ Expose
  <2>1. /\ needsDisplay' /\ UNCHANGED <<bytes, buf, draw, sent>>
        /\ draw.pc = "idle" \/ UNCHANGED block
    BY <1>17 DEF RunBlock, Expose, socket
  <2> QED
    BY <1>2, <1>6, <2>1 DEF Waits
<1>18. CASE ReadSeq
  <2>1. /\ draw' = [pc |-> "active", seq |-> seq]
        /\ UNCHANGED <<bytes, buf, sent>>
    BY <1>18 DEF ReadSeq, socket
  <2>2. draw'.pc = "active" /\ draw'.seq >= sent'
    BY <2>1 DEF Header
  <2> QED
    BY <1>6, <2>1, <2>2
<1>19. /\ draw \in Draws /\ reads \in [Readers -> Reads] /\ draw.seq \in Int /\ sent \in Int
       /\ "draw" \in Readers /\ "queue" \in Readers /\ "gpu" \in Readers
  BY Typed DEF SignalInv, TearInv, TypeInv, TypeOK, Readers
<1>20. ASSUME UNCHANGED <<bytes, buf, block, sent>>, draw.pc # "idle",
              \/ draw'.pc # "idle" /\ draw'.seq = draw.seq
              \/ draw'.pc = "idle" /\ (draw.seq >= sent => missed' \/ LastShows(sent)')
       PROVE  Heard'
  <2>1. CASE Due(S)
    BY <1>6, <1>20, <2>1
  <2>2. CASE draw.seq >= sent
    BY <1>6, <1>20, <2>2
  <2> QED
    BY <1>2, <1>20, <2>1, <2>2 DEF Waits
<1>21. CASE Again \/ Fresh \/ Upload \/ Uploaded
  <2>1. /\ UNCHANGED <<bytes, buf, block, sent>> /\ draw.pc \in {"active", "upload", "copy"}
        /\ draw'.pc # "idle" /\ draw'.seq = draw.seq
    BY <1>19, <1>21 DEF Again, Fresh, Upload, Uploaded, socket, Draws
  <2> QED
    BY <1>20, <2>1
<1>22. CASE Commit
  <2>1. /\ draw.pc = "render" /\ draw'.pc = "idle"
        /\ UNCHANGED <<bytes, buf, block, sent, buffer, texture>>
        /\ reads["draw"].of # Nothing /\ Promise(reads["draw"], draw.seq)
    BY <1>22 DEF Commit, NoDraw, socket, Drawing
  <2>2. \/ reads'["gpu"] = reads["draw"] /\ reads'["queue"].of = Nothing
        \/ reads'["queue"] = reads["draw"]
    BY <1>19, <1>22 DEF Commit, Drawing
  <2>3. Content(reads["draw"].of) \in Int
    <3>1. reads["draw"].of \in {0, 1, Texture}
      BY <1>19, <2>1, Typed DEF SignalInv, TearInv
    <3> QED
      BY <3>1, Typed DEF Content, SignalInv, TearInv, Texture
  <2>4. draw.seq >= sent => LastShows(sent)'
    BY <1>19, <2>1, <2>2, <2>3 DEF LastShows, Promise, Content
  <2> QED
    BY <1>20, <2>1, <2>4
<1>23. CASE GiveUp
  <2>1. /\ draw.pc = "render" /\ draw'.pc = "idle" /\ missed'
        /\ UNCHANGED <<bytes, buf, block, sent>>
    BY <1>23 DEF GiveUp, NoDraw, socket
  <2> QED
    BY <1>20, <2>1
<1>24. CASE Present
  <2>1. PICK clean \in {reads["gpu"].clean, Content(reads["gpu"].of) # Torn} :
           shown' = Picture(reads["gpu"], clean)
    BY <1>24 DEF Present
  <2>2. /\ reads["gpu"].of # Nothing /\ WholeRead("gpu")
        /\ UNCHANGED <<bytes, buf, block, needsDisplay, missed, sent, draw, buffer, texture>>
        /\ reads'["gpu"] = reads["queue"] /\ reads'["queue"].of = Nothing
    BY <1>19, <1>24 DEF Present, NoRead, ReadOf, socket, SignalInv, TearInv, ReadInv
  <2>3. LastShows(sent) => LastShows(sent)'
    <3>1. CASE reads["queue"].of # Nothing
      BY <2>2, <3>1 DEF LastShows, Promise, Content
    <3>2. CASE reads["queue"].of = Nothing
      <4>1. Promise(reads["gpu"], sent) => shown'.late \/ shown'.frame >= sent
        BY <2>1, <2>2 DEF Promise, Picture, WholeRead
      <4> QED
        BY <2>2, <3>2, <4>1 DEF LastShows
    <3> QED
      BY <3>1, <3>2
  <2> QED
    BY <1>2, <1>6, <2>2, <2>3 DEF Waits
<1> QED
  BY <1>1, <1>7, <1>8, <1>9, <1>10, <1>14, <1>15, <1>16, <1>17, <1>18, <1>21, <1>22, <1>23, <1>24
     DEF Next, Generate, Listen, Draw

LEMMA InitSignals == Init => SignalInv
<1> SUFFICES ASSUME Init PROVE SignalInv
  OBVIOUS
<1>1. Header /\ Linked
  BY DEF Init, Header, Linked, Back
<1>2. Drawing
  BY DEF Init, Drawing, NoDraw, NoRead, ReadOf, Readers
<1>3. Heard
  <2>1. Total = 0
    BY EmptySeq DEF Init, Total
  <2>2. Messages({1})
    BY <2>1 DEF Messages
  <2> QED
    BY <2>2 DEF Init, Heard, Waits, NoDraw
<1> QED
  BY <1>1, <1>2, <1>3, InitTear DEF SignalInv

LEMMA NextSignals == SignalInv /\ [Next]_vars => SignalInv'
<1> SUFFICES ASSUME SignalInv, [Next]_vars PROVE SignalInv'
  OBVIOUS
<1>1. TearInv'
  BY NextTear DEF SignalInv
<1>2. CASE Excused'
  BY <1>1, <1>2 DEF SignalInv
<1>3. CASE ~Excused'
  <2>1. Header /\ Linked /\ Drawing /\ Heard
    BY <1>3, ExcusedStays DEF SignalInv
  <2> QED
    BY <1>1, <1>3, <2>1, HeaderStep, LinkedStep, DrawingStep, HeardStep DEF SignalInv
<1> QED
  BY <1>2, <1>3

\* No signal is lost on its way to the window: the safety half of SignalledIsShown,
\* which needs no fairness.  What is left of that to scheduling is that the app comes
\* to have nothing left to do.
THEOREM NoSignalLost == Spec => []SignalsHeard
<1>1. SignalInv => SignalsHeard
  <2> SUFFICES ASSUME SignalInv, Quiet, ~Excused
               PROVE  shown.frame >= sent \/ shown.late \/ missed
    BY DEF SignalsHeard
  <2>1. PICK S : Messages(S) /\ Waits(S)
    BY DEF SignalInv, Heard
  <2>2. Total = 0
    BY EmptySeq DEF Quiet, Total
  <2>3. \A i \in S : ~(i <= Total)
    BY <2>1, <2>2 DEF Messages
  <2> QED
    BY <2>1, <2>3 DEF Waits, LastShows, Due, Quiet
<1> QED
  BY InitSignals, NextSignals, <1>1, PTL DEF Spec
=============================================================================
