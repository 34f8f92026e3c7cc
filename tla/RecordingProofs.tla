--------------------------- MODULE RecordingProofs ---------------------------
(* Theorems about Recording, for every number of handlers and every bound on *)
(* the chunks, the files, the joins and the failures.                        *)
EXTENDS Recording, SequenceTheorems, TLAPS

-----------------------------------------------------------------------------
(* The inductive invariant *)

(* An upload in work has a file that was written, and that can still be      *)
(* found: another handler only unlinks what the object store has.            *)
UploadIsKept ==
  \A h \in Handlers :
    /\ Uploading(h) => frame[h].file \in DOMAIN recordings /\ frame[h].file \in local \cup stored
    /\ At(h, "unlink") => frame[h].file \in stored

(* What is buffered is younger than every answer, and nothing is younger     *)
(* than what the client sent.                                                *)
BufferIsYounger ==
  /\ \A c \in ToSet(audio) : c <= client.audio
  /\ \A i \in DOMAIN answers : \A c \in ToSet(answers[i]) :
       c <= client.audio /\ \A d \in ToSet(audio) : c < d

Inv == TypeOK /\ UploadIsKept /\ RecordingIsKept /\ BufferIsYounger /\ AnswersAreApart

-----------------------------------------------------------------------------
(* Lemmas: frames *)

LEMMA IdleIsFrame == Idle \in Frame
BY BoundsAssumption DEF Idle, Frame

LEMMA ReturnFrame ==
  ASSUME frame \in [Handlers -> Frame], NEW h \in Handlers, Return(h)
  PROVE  /\ frame' \in [Handlers -> Frame]
         /\ frame'[h] = Idle
         /\ \A k \in Handlers : k # h => frame'[k] = frame[k]
BY IdleIsFrame DEF Return

LEMMA GotoFrame ==
  ASSUME frame \in [Handlers -> Frame], NEW h \in Handlers,
         NEW pc \in {"turn", "save", "read", "put", "unlink"}, Goto(h, pc)
  PROVE  /\ frame' \in [Handlers -> Frame]
         /\ frame'[h].pc = pc /\ frame'[h].file = frame[h].file
         /\ \A k \in Handlers : k # h => frame'[k] = frame[k]
BY DEF Goto, Frame

LEMMA BeginFrame ==
  ASSUME frame \in [Handlers -> Frame], NEW h \in Handlers,
         NEW pc \in {"find", "meeting"}, NEW file \in 0..MaxFiles, Begin(h, pc, file)
  PROVE  /\ frame' \in [Handlers -> Frame]
         /\ frame'[h].pc = pc /\ frame'[h].file = file
         /\ \A k \in Handlers : k # h => frame'[k] = frame[k]
BY DEF Begin, Frame

-----------------------------------------------------------------------------
(* Lemmas: sequences *)

LEMMA EmptyToSet == ToSet(<<>>) = {}
BY DEF ToSet

LEMMA ToSetIsSubset ==
  ASSUME NEW S, NEW s \in Seq(S)
  PROVE  ToSet(s) \subseteq S
BY DEF ToSet

(* A file is written: the ones before it stay what they are. *)
LEMMA FileAppended ==
  ASSUME NEW files \in Seq(Seq(1..MaxChunks)), NEW file \in Seq(1..MaxChunks)
  PROVE  /\ Append(files, file) \in Seq(Seq(1..MaxChunks))
         /\ Len(Append(files, file)) = Len(files) + 1 /\ Len(files) \in Nat
         /\ DOMAIN Append(files, file) = 1..(Len(files) + 1)
         /\ DOMAIN files = 1..Len(files)
         /\ \A i \in DOMAIN files : Append(files, file)[i] = files[i]
         /\ Append(files, file)[Len(files) + 1] = file
OBVIOUS

LEMMA ChunkAppended ==
  ASSUME NEW s \in Seq(1..MaxChunks), NEW chunk \in 1..MaxChunks
  PROVE  /\ Append(s, chunk) \in Seq(1..MaxChunks)
         /\ ToSet(Append(s, chunk)) = ToSet(s) \cup {chunk}
<1> DEFINE t == Append(s, chunk)
<1>1. t \in Seq(1..MaxChunks) /\ DOMAIN t = DOMAIN s \cup {Len(s) + 1}
  OBVIOUS
<1>2. (\A i \in DOMAIN s : t[i] = s[i]) /\ t[Len(s) + 1] = chunk
  OBVIOUS
<1> HIDE DEF t
<1>3. {t[i] : i \in DOMAIN t} = {s[i] : i \in DOMAIN s} \cup {chunk}
  BY <1>1, <1>2
<1>4. QED
  BY <1>1, <1>3 DEF ToSet, t

-----------------------------------------------------------------------------
(* The initial states *)

LEMMA InitInv == Init => Inv
<1> SUFFICES ASSUME Init PROVE Inv
  OBVIOUS
<1>1. TypeOK
  <2>1. <<>> \in Seq(1..MaxChunks) /\ <<>> \in Seq(Seq(1..MaxChunks)) /\ Len(<<>>) = 0
    OBVIOUS
  <2>2. frame \in [Handlers -> Frame]
    BY IdleIsFrame DEF Init
  <2>3. client \in [audio : 0..MaxChunks, video : 0..MaxChunks, resets : 0..MaxResets]
    BY BoundsAssumption DEF Init
  <2>4. /\ audio \in Seq(1..MaxChunks) /\ video \in Seq(1..MaxChunks)
        /\ answers \in Seq(Seq(1..MaxChunks)) /\ recordings \in Seq(Seq(1..MaxChunks))
        /\ videoUUID \in 0..Len(recordings)
    BY <2>1 DEF Init
  <2>5. /\ open \in BOOLEAN /\ raced \in BOOLEAN /\ failures \in 0..MaxFailures
        /\ unheard \subseteq DOMAIN answers /\ local \cup stored \subseteq DOMAIN recordings
        /\ discarded \subseteq 1..MaxChunks
    <3>1. open \in BOOLEAN /\ raced \in BOOLEAN
      BY Zenon DEF Init
    <3>2. failures \in 0..MaxFailures
      BY BoundsAssumption DEF Init
    <3>3. unheard = {} /\ local = {} /\ stored = {} /\ discarded = {}
      BY DEF Init
    <3>4. QED
      BY <3>1, <3>2, <3>3
  <2>6. QED
    BY <2>2, <2>3, <2>4, <2>5 DEF TypeOK
<1>2. UploadIsKept
  BY DEF Init, UploadIsKept, Uploading, At, Idle
<1>3. RecordingIsKept
  BY DEF Init, RecordingIsKept
<1>4. BufferIsYounger /\ AnswersAreApart
  BY EmptyToSet DEF Init, BufferIsYounger, AnswersAreApart
<1>5. QED
  BY <1>1, <1>2, <1>3, <1>4 DEF Inv

-----------------------------------------------------------------------------
(* Lemmas: the steps that leave a part of the invariant alone *)

LEMMA BuffersLeft ==
  ASSUME BufferIsYounger, AnswersAreApart, UNCHANGED <<audio, answers>>,
         client'.audio = client.audio
  PROVE  BufferIsYounger' /\ AnswersAreApart'
BY DEF BufferIsYounger, AnswersAreApart

LEMMA BuffersEmptied ==
  ASSUME BufferIsYounger, AnswersAreApart, audio' = <<>>, answers' = answers,
         client'.audio = client.audio
  PROVE  BufferIsYounger' /\ AnswersAreApart'
BY EmptyToSet DEF BufferIsYounger, AnswersAreApart

(* What is found stays to be found, files are only added, and only handler h *)
(* moves: it is enough to look at h.                                         *)
LEMMA OthersKeepTheirFiles ==
  ASSUME UploadIsKept, NEW h \in Handlers,
         \A k \in Handlers : k # h => frame'[k] = frame[k],
         DOMAIN recordings \subseteq DOMAIN recordings',
         local \cup stored \subseteq local' \cup stored', stored \subseteq stored',
         Uploading(h)' => /\ frame'[h].file \in DOMAIN recordings'
                          /\ frame'[h].file \in local' \cup stored',
         At(h, "unlink")' => frame'[h].file \in stored'
  PROVE  UploadIsKept'
BY DEF UploadIsKept, Uploading, At

LEMMA DiskLeft ==
  ASSUME UploadIsKept, RecordingIsKept, UNCHANGED <<disk, frame>>
  PROVE  UploadIsKept' /\ RecordingIsKept'
BY DEF UploadIsKept, RecordingIsKept, Uploading, At, disk

(* A handler goes on, or ends, and leaves the disk alone. *)
LEMMA HandlerMoves ==
  ASSUME Inv, NEW h \in Handlers, UNCHANGED disk,
         frame' \in [Handlers -> Frame],
         \A k \in Handlers : k # h => frame'[k] = frame[k],
         \/ frame'[h] = Idle
         \/ frame'[h].file = frame[h].file /\ Uploading(h) /\ frame'[h].pc # "unlink"
         \/ frame'[h].pc = "turn"
  PROVE  UploadIsKept' /\ RecordingIsKept'
<1>1. RecordingIsKept'
  BY DEF Inv, RecordingIsKept, disk
<1>2. Uploading(h)' => frame'[h].file = frame[h].file /\ Uploading(h)
  BY DEF Uploading, Idle
<1>3. ~ At(h, "unlink")'
  BY DEF At, Idle
<1>4. Uploading(h)' => /\ frame'[h].file \in DOMAIN recordings'
                       /\ frame'[h].file \in local' \cup stored'
  BY <1>2 DEF Inv, UploadIsKept, disk
<1>5. UploadIsKept'
  BY <1>3, <1>4, OthersKeepTheirFiles DEF Inv, disk
<1>6. QED
  BY <1>1, <1>5

-----------------------------------------------------------------------------
(* Lemmas: what the client has sent *)

LEMMA ClientType ==
  ASSUME TypeOK
  PROVE  /\ client = [audio |-> client.audio, video |-> client.video, resets |-> client.resets]
         /\ client.audio \in 0..MaxChunks /\ client.video \in 0..MaxChunks
         /\ client.resets \in 0..MaxResets
<1>1. client \in [audio : 0..MaxChunks, video : 0..MaxChunks, resets : 0..MaxResets]
  BY DEF TypeOK
<1>2. QED
  BY <1>1

LEMMA ResetCounted ==
  ASSUME TypeOK, client.resets < MaxResets, client' = [client EXCEPT !.resets = @ + 1]
  PROVE  /\ client' \in [audio : 0..MaxChunks, video : 0..MaxChunks, resets : 0..MaxResets]
         /\ client'.audio = client.audio
<1>1. client.resets + 1 \in 0..MaxResets
  BY ClientType, BoundsAssumption
<1>2. client' = [audio |-> client.audio, video |-> client.video, resets |-> client.resets + 1]
  BY ClientType
<1>3. QED
  BY <1>1, <1>2, ClientType

LEMMA AudioCounted ==
  ASSUME TypeOK, client.audio + client.video < MaxChunks,
         client' = [client EXCEPT !.audio = @ + 1]
  PROVE  /\ client' \in [audio : 0..MaxChunks, video : 0..MaxChunks, resets : 0..MaxResets]
         /\ client'.audio = client.audio + 1 /\ client'.audio \in 1..MaxChunks
<1>1. client.audio + 1 \in 1..MaxChunks
  BY ClientType, BoundsAssumption
<1>2. client' = [audio |-> client.audio + 1, video |-> client.video, resets |-> client.resets]
  BY ClientType
<1>3. QED
  BY <1>1, <1>2, ClientType

LEMMA VideoCounted ==
  ASSUME TypeOK, client.audio + client.video < MaxChunks,
         client' = [client EXCEPT !.video = @ + 1]
  PROVE  /\ client' \in [audio : 0..MaxChunks, video : 0..MaxChunks, resets : 0..MaxResets]
         /\ client'.audio = client.audio /\ client'.video \in 1..MaxChunks
<1>1. client.video + 1 \in 1..MaxChunks
  BY ClientType, BoundsAssumption
<1>2. client' = [audio |-> client.audio, video |-> client.video + 1, resets |-> client.resets]
  BY ClientType
<1>3. QED
  BY <1>1, <1>2, ClientType

-----------------------------------------------------------------------------
(* The steps that need no handler *)

LEMMA ResetKeepsInv ==
  ASSUME Inv, ResetBuffers, UNCHANGED <<disk, frame, raced, failures>>
  PROVE  Inv'
<1>1. client'.audio = client.audio
  BY ResetCounted DEF Inv, ResetBuffers
<1>2. TypeOK'
  <2>1. client' \in [audio : 0..MaxChunks, video : 0..MaxChunks, resets : 0..MaxResets]
    BY ResetCounted DEF Inv, ResetBuffers
  <2>2. audio' \in Seq(1..MaxChunks) /\ video' \in Seq(1..MaxChunks)
    BY DEF ResetBuffers
  <2>3. discarded' \subseteq 1..MaxChunks
    BY ToSetIsSubset DEF Inv, TypeOK, ResetBuffers
  <2>4. QED
    BY <2>1, <2>2, <2>3 DEF Inv, TypeOK, ResetBuffers, disk
<1>3. UploadIsKept' /\ RecordingIsKept'
  BY DiskLeft DEF Inv
<1>4. BufferIsYounger' /\ AnswersAreApart'
  BY <1>1, BuffersEmptied DEF Inv, ResetBuffers, disk
<1>5. QED
  BY <1>2, <1>3, <1>4 DEF Inv

LEMMA AudioChunkKeepsInv ==
  ASSUME Inv, handleAudioChunk
  PROVE  Inv'
<1> DEFINE chunk == client'.audio
<1>1. /\ chunk = client.audio + 1 /\ chunk \in 1..MaxChunks /\ client.audio \in Nat
      /\ client' \in [audio : 0..MaxChunks, video : 0..MaxChunks, resets : 0..MaxResets]
  BY AudioCounted, ClientType, BoundsAssumption DEF Inv, handleAudioChunk
<1>2. audio' = audio \/ audio' = Append(audio, chunk)
  BY DEF handleAudioChunk
<1>3. audio \in Seq(1..MaxChunks)
  BY DEF Inv, TypeOK
<1> HIDE DEF chunk
<1>4. ToSet(audio') \subseteq ToSet(audio) \cup {chunk}
  BY <1>1, <1>2, <1>3, ChunkAppended
<1>5. TypeOK'
  <2>1. audio' \in Seq(1..MaxChunks)
    BY <1>1, <1>2, <1>3, ChunkAppended
  <2>2. QED
    BY <1>1, <2>1 DEF Inv, TypeOK, handleAudioChunk, disk, history
<1>6. UploadIsKept' /\ RecordingIsKept'
  BY DiskLeft DEF Inv, handleAudioChunk
<1>7. BufferIsYounger' /\ AnswersAreApart'
  <2>1. answers' = answers
    BY DEF handleAudioChunk, disk
  <2>2. \A i \in DOMAIN answers : ToSet(answers[i]) \subseteq Int
    <3>1. \A i \in DOMAIN answers : answers[i] \in Seq(1..MaxChunks)
      BY DEF Inv, TypeOK
    <3>2. QED
      BY <3>1, ToSetIsSubset, BoundsAssumption
  <2>3. ToSet(audio) \subseteq Int
    BY <1>3, ToSetIsSubset, BoundsAssumption
  <2>4. AnswersAreApart'
    BY <2>1 DEF Inv, AnswersAreApart
  <2>5. BufferIsYounger'
    BY <1>1, <1>4, <2>1, <2>2, <2>3 DEF Inv, BufferIsYounger, chunk
  <2>6. QED
    BY <2>4, <2>5
<1>8. QED
  BY <1>5, <1>6, <1>7 DEF Inv

LEMMA VideoChunkKeepsInv ==
  ASSUME Inv, handleVideoChunks
  PROVE  Inv'
<1>1. /\ client'.video \in 1..MaxChunks /\ client'.audio = client.audio
      /\ client' \in [audio : 0..MaxChunks, video : 0..MaxChunks, resets : 0..MaxResets]
  BY VideoCounted DEF Inv, handleVideoChunks
<1>2. TypeOK'
  <2>1. video \in Seq(1..MaxChunks) /\ discarded \subseteq 1..MaxChunks
    BY DEF Inv, TypeOK
  <2>2. video' \in Seq(1..MaxChunks) /\ discarded' \subseteq 1..MaxChunks
    BY <1>1, <2>1, ChunkAppended DEF handleVideoChunks
  <2>3. raced' \in BOOLEAN
    BY DEF Inv, TypeOK, handleVideoChunks
  <2>4. QED
    BY <1>1, <2>2, <2>3 DEF Inv, TypeOK, handleVideoChunks, disk
<1>3. UploadIsKept' /\ RecordingIsKept'
  BY DiskLeft DEF Inv, handleVideoChunks
<1>4. BufferIsYounger' /\ AnswersAreApart'
  BY <1>1, BuffersLeft DEF Inv, handleVideoChunks, disk
<1>5. QED
  BY <1>2, <1>3, <1>4 DEF Inv

LEMMA CrashKeepsInv ==
  ASSUME Inv, Crash
  PROVE  Inv'
<1>1. TypeOK'
  <2>1. frame' \in [Handlers -> Frame]
    BY IdleIsFrame DEF Crash
  <2>2. audio' \in Seq(1..MaxChunks) /\ video' \in Seq(1..MaxChunks)
    BY DEF Crash
  <2>3. discarded' \subseteq 1..MaxChunks
    BY ToSetIsSubset DEF Inv, TypeOK, Crash
  <2>4. failures' \in 0..MaxFailures
    BY BoundsAssumption DEF Inv, TypeOK, Crash
  <2>5. QED
    BY <2>1, <2>2, <2>3, <2>4 DEF Inv, TypeOK, Crash, disk
<1>2. UploadIsKept'
  BY DEF Crash, UploadIsKept, Uploading, At, Idle
<1>3. RecordingIsKept'
  BY DEF Inv, Crash, RecordingIsKept, disk
<1>4. BufferIsYounger' /\ AnswersAreApart'
  BY BuffersEmptied DEF Inv, Crash, disk
<1>5. QED
  BY <1>1, <1>2, <1>3, <1>4 DEF Inv

-----------------------------------------------------------------------------
(* The steps of a handler *)

LEMMA SubmitKeepsInv ==
  ASSUME Inv, NEW h \in Handlers, handleSubmitAnswer(h)
  PROVE  Inv'
<1> DEFINE new == Len(answers) + 1
<1>1. /\ answers \in Seq(Seq(1..MaxChunks)) /\ audio \in Seq(1..MaxChunks)
      /\ recordings \in Seq(Seq(1..MaxChunks))
  BY DEF Inv, TypeOK
<1>2. answers' = Append(answers, audio)
  BY DEF handleSubmitAnswer
<1>3. /\ answers' \in Seq(Seq(1..MaxChunks)) /\ Len(answers') = new
      /\ DOMAIN answers' = 1..new /\ DOMAIN answers = 1..Len(answers) /\ Len(answers) \in Nat
      /\ \A i \in DOMAIN answers : answers'[i] = answers[i]
      /\ answers'[new] = audio
  BY <1>1, <1>2, FileAppended
<1>4. new \in 0..MaxFiles
  <2>1. Len(recordings) \in Nat
    BY <1>1
  <2>2. QED
    BY <1>3, <2>1, BoundsAssumption DEF handleSubmitAnswer
<1>5. /\ frame' \in [Handlers -> Frame]
      /\ frame'[h].pc = "meeting"
      /\ \A k \in Handlers : k # h => frame'[k] = frame[k]
  <2>1. frame \in [Handlers -> Frame] /\ Begin(h, "meeting", new)
    BY <1>3 DEF Inv, TypeOK, handleSubmitAnswer
  <2>2. QED
    BY <1>4, <2>1, BeginFrame
<1>6. TypeOK'
  <2>1. unheard' \subseteq DOMAIN answers'
    BY <1>3 DEF Inv, TypeOK, handleSubmitAnswer
  <2>2. audio' \in Seq(1..MaxChunks)
    BY DEF handleSubmitAnswer
  <2>3. QED
    BY <1>3, <1>5, <2>1, <2>2 DEF Inv, TypeOK, handleSubmitAnswer, history
<1>7. UNCHANGED <<recordings, local, stored, videoUUID, client>> /\ audio' = <<>>
  BY DEF handleSubmitAnswer
<1>8. UploadIsKept' /\ RecordingIsKept'
  <2>1. ~ Uploading(h)' /\ ~ At(h, "unlink")'
    BY <1>5 DEF Uploading, At
  <2>2. QED
    BY <1>5, <1>7, <2>1, OthersKeepTheirFiles DEF Inv, RecordingIsKept
<1>9. BufferIsYounger'
  <2>1. \A i \in DOMAIN answers' : \A c \in ToSet(answers'[i]) : c <= client.audio
    <3>1. \A i \in DOMAIN answers' : i \in DOMAIN answers \/ i = new
      BY <1>3
    <3>2. QED
      BY <1>3, <3>1 DEF Inv, BufferIsYounger
  <2>2. QED
    BY <1>7, <2>1, EmptyToSet DEF BufferIsYounger
<1>10. AnswersAreApart'
  <2> SUFFICES ASSUME NEW i \in DOMAIN answers', NEW j \in DOMAIN answers', i < j,
                      NEW c \in ToSet(answers'[i]), NEW d \in ToSet(answers'[j])
               PROVE  c < d
    BY DEF AnswersAreApart
  <2>1. i \in DOMAIN answers /\ answers'[i] = answers[i]
    BY <1>3
  <2>2. CASE j \in DOMAIN answers
    BY <1>3, <2>1, <2>2 DEF Inv, AnswersAreApart
  <2>3. CASE j = new
    BY <1>3, <2>1, <2>3 DEF Inv, BufferIsYounger
  <2>4. QED
    BY <1>3, <2>2, <2>3
<1>11. QED
  BY <1>6, <1>8, <1>9, <1>10 DEF Inv

LEMMA EndRecordingKeepsInv ==
  ASSUME Inv, NEW h \in Handlers, handleEndRecording(h)
  PROVE  Inv'
<1> DEFINE new == Len(recordings) + 1
<1>1. /\ answers \in Seq(Seq(1..MaxChunks)) /\ video \in Seq(1..MaxChunks)
      /\ recordings \in Seq(Seq(1..MaxChunks))
  BY DEF Inv, TypeOK
<1>2. recordings' = Append(recordings, video)
  BY DEF handleEndRecording
<1>3. /\ recordings' \in Seq(Seq(1..MaxChunks)) /\ Len(recordings') = new
      /\ DOMAIN recordings' = 1..new
      /\ DOMAIN recordings = 1..Len(recordings) /\ Len(recordings) \in Nat
  BY <1>1, <1>2, FileAppended
<1>4. new \in 0..MaxFiles
  <2>1. Len(answers) \in Nat
    BY <1>1
  <2>2. QED
    BY <1>3, <2>1, BoundsAssumption DEF handleEndRecording
<1>5. /\ frame' \in [Handlers -> Frame]
      /\ frame'[h].pc = "find" /\ frame'[h].file = new
      /\ \A k \in Handlers : k # h => frame'[k] = frame[k]
  <2>1. frame \in [Handlers -> Frame] /\ Begin(h, "find", new)
    BY <1>3 DEF Inv, TypeOK, handleEndRecording
  <2>2. QED
    BY <1>4, <2>1, BeginFrame
<1>6. /\ local' = local \cup {new} /\ stored' = stored /\ videoUUID' = videoUUID
      /\ UNCHANGED <<audio, answers>> /\ client'.audio = client.audio
  BY <1>3 DEF handleEndRecording, buffers
<1>7. TypeOK'
  <2>1. local' \cup stored' \subseteq DOMAIN recordings'
    BY <1>3, <1>6 DEF Inv, TypeOK
  <2>2. videoUUID' \in 0..Len(recordings')
    BY <1>3, <1>6 DEF Inv, TypeOK
  <2>3. QED
    BY <1>3, <1>5, <2>1, <2>2 DEF Inv, TypeOK, handleEndRecording, buffers, history
<1>8. RecordingIsKept'
  BY <1>6 DEF Inv, RecordingIsKept
<1>9. UploadIsKept'
  <2>1. ~ At(h, "unlink")'
    BY <1>5 DEF At
  <2>2. DOMAIN recordings \subseteq DOMAIN recordings' /\ frame'[h].file \in DOMAIN recordings'
    BY <1>3, <1>5
  <2>3. QED
    BY <1>5, <1>6, <2>1, <2>2, OthersKeepTheirFiles DEF Inv
<1>10. BufferIsYounger' /\ AnswersAreApart'
  BY <1>6, BuffersLeft DEF Inv
<1>11. QED
  BY <1>7, <1>8, <1>9, <1>10 DEF Inv

(* The steps that only move the frame. *)
LEMMA MoveKeepsInv ==
  ASSUME Inv, NEW h \in Handlers,
         internal_getMeeting(h) \/ FindMeeting(h) \/ ReadFile(h)
  PROVE  Inv'
<1>1. frame \in [Handlers -> Frame]
  BY DEF Inv, TypeOK
<1>2. UNCHANGED <<buffers, disk, client, history>>
  BY DEF internal_getMeeting, FindMeeting, ReadFile
<1>3. /\ frame' \in [Handlers -> Frame]
      /\ \A k \in Handlers : k # h => frame'[k] = frame[k]
      /\ \/ frame'[h] = Idle
         \/ frame'[h].file = frame[h].file /\ Uploading(h) /\ frame'[h].pc # "unlink"
         \/ frame'[h].pc = "turn"
  <2>1. CASE Return(h)
    BY <1>1, <2>1, ReturnFrame
  <2>2. CASE Goto(h, "turn")
    BY <1>1, <2>2, GotoFrame
  <2>3. CASE At(h, "find") /\ Goto(h, "save")
    BY <1>1, <2>3, GotoFrame DEF Uploading, At
  <2>4. CASE At(h, "read") /\ Goto(h, "put")
    BY <1>1, <2>4, GotoFrame DEF Uploading, At
  <2>5. QED
    BY <2>1, <2>2, <2>3, <2>4 DEF internal_getMeeting, FindMeeting, ReadFile
<1>4. TypeOK'
  BY <1>2, <1>3 DEF Inv, TypeOK, buffers, disk, history
<1>5. UploadIsKept' /\ RecordingIsKept'
  BY <1>2, <1>3, HandlerMoves
<1>6. BufferIsYounger' /\ AnswersAreApart'
  BY <1>2, BuffersLeft DEF Inv, buffers, disk
<1>7. QED
  BY <1>4, <1>5, <1>6 DEF Inv

LEMMA ThrowKeepsInv ==
  ASSUME Inv, NEW h \in Handlers, Throw(h)
  PROVE  Inv'
<1>1. /\ frame' \in [Handlers -> Frame] /\ frame'[h] = Idle
      /\ \A k \in Handlers : k # h => frame'[k] = frame[k]
  BY ReturnFrame DEF Inv, TypeOK, Throw
<1>2. TypeOK'
  <2>1. failures' \in 0..MaxFailures
    BY BoundsAssumption DEF Inv, TypeOK, Throw
  <2>2. QED
    BY <1>1, <2>1 DEF Inv, TypeOK, Throw, buffers, disk
<1>3. UploadIsKept' /\ RecordingIsKept'
  BY <1>1, HandlerMoves DEF Throw
<1>4. BufferIsYounger' /\ AnswersAreApart'
  BY BuffersLeft DEF Inv, Throw, buffers, disk
<1>5. QED
  BY <1>2, <1>3, <1>4 DEF Inv

LEMMA UnlinkAnswerKeepsInv ==
  ASSUME Inv, NEW h \in Handlers, unlinkAnswer(h)
  PROVE  Inv'
<1>1. /\ frame' \in [Handlers -> Frame] /\ frame'[h] = Idle
      /\ \A k \in Handlers : k # h => frame'[k] = frame[k]
  BY ReturnFrame DEF Inv, TypeOK, unlinkAnswer
<1>2. UNCHANGED <<buffers, answers, recordings, local, stored, videoUUID, client>>
  BY DEF unlinkAnswer
<1>3. TypeOK'
  BY <1>1, <1>2 DEF Inv, TypeOK, unlinkAnswer, buffers, history
<1>4. UploadIsKept'
  <2>1. ~ Uploading(h)' /\ ~ At(h, "unlink")'
    BY <1>1 DEF Uploading, At, Idle
  <2>2. QED
    BY <1>1, <1>2, <2>1, OthersKeepTheirFiles DEF Inv
<1>5. RecordingIsKept'
  BY <1>2 DEF Inv, RecordingIsKept
<1>6. BufferIsYounger' /\ AnswersAreApart'
  BY <1>2, BuffersLeft DEF Inv, buffers
<1>7. QED
  BY <1>3, <1>4, <1>5, <1>6 DEF Inv

LEMMA SaveKeepsInv ==
  ASSUME Inv, NEW h \in Handlers, SaveMeeting(h)
  PROVE  Inv'
<1>1. Uploading(h)
  BY DEF SaveMeeting, At, Uploading
<1>2. frame[h].file \in DOMAIN recordings /\ frame[h].file \in local \cup stored
  BY <1>1 DEF Inv, UploadIsKept
<1>3. /\ frame' \in [Handlers -> Frame]
      /\ frame'[h].pc = "read" /\ frame'[h].file = frame[h].file
      /\ \A k \in Handlers : k # h => frame'[k] = frame[k]
  BY GotoFrame DEF Inv, TypeOK, SaveMeeting
<1>4. /\ UNCHANGED <<buffers, answers, unheard, recordings, local, stored, client, history>>
      /\ videoUUID' = frame[h].file
  BY DEF SaveMeeting
<1>5. TypeOK'
  <2>1. videoUUID' \in 0..Len(recordings')
    <3>1. recordings \in Seq(Seq(1..MaxChunks))
      BY DEF Inv, TypeOK
    <3>2. DOMAIN recordings = 1..Len(recordings) /\ Len(recordings) \in Nat
      BY <3>1
    <3>3. QED
      BY <1>2, <1>4, <3>2
  <2>2. QED
    BY <1>3, <1>4, <2>1 DEF Inv, TypeOK, buffers, history
<1>6. UploadIsKept'
  <2>1. ~ At(h, "unlink")'
    BY <1>3 DEF At
  <2>2. QED
    BY <1>2, <1>3, <1>4, <2>1, OthersKeepTheirFiles DEF Inv
<1>7. RecordingIsKept'
  BY <1>2, <1>4 DEF RecordingIsKept
<1>8. BufferIsYounger' /\ AnswersAreApart'
  BY <1>4, BuffersLeft DEF Inv, buffers
<1>9. QED
  BY <1>5, <1>6, <1>7, <1>8 DEF Inv

LEMMA PutKeepsInv ==
  ASSUME Inv, NEW h \in Handlers, putObject(h)
  PROVE  Inv'
<1>1. Uploading(h)
  BY DEF putObject, At, Uploading
<1>2. frame[h].file \in DOMAIN recordings
  BY <1>1 DEF Inv, UploadIsKept
<1>3. /\ frame' \in [Handlers -> Frame]
      /\ frame'[h].pc = "unlink" /\ frame'[h].file = frame[h].file
      /\ \A k \in Handlers : k # h => frame'[k] = frame[k]
  BY GotoFrame DEF Inv, TypeOK, putObject
<1>4. /\ UNCHANGED <<buffers, answers, unheard, recordings, local, videoUUID, client, history>>
      /\ stored' = stored \cup {frame[h].file}
  BY DEF putObject
<1>5. TypeOK'
  <2>1. local' \cup stored' \subseteq DOMAIN recordings'
    BY <1>2, <1>4 DEF Inv, TypeOK
  <2>2. QED
    BY <1>3, <1>4, <2>1 DEF Inv, TypeOK, buffers, history
<1>6. UploadIsKept'
  BY <1>2, <1>3, <1>4, OthersKeepTheirFiles DEF Inv
<1>7. RecordingIsKept'
  BY <1>4 DEF Inv, RecordingIsKept
<1>8. BufferIsYounger' /\ AnswersAreApart'
  BY <1>4, BuffersLeft DEF Inv, buffers
<1>9. QED
  BY <1>5, <1>6, <1>7, <1>8 DEF Inv

(* What is unlinked is in the object store, whoever else works on it. *)
LEMMA UnlinkRecordingKeepsInv ==
  ASSUME Inv, NEW h \in Handlers, unlinkRecording(h)
  PROVE  Inv'
<1>1. frame[h].file \in stored
  BY DEF Inv, UploadIsKept, unlinkRecording
<1>2. /\ frame' \in [Handlers -> Frame] /\ frame'[h] = Idle
      /\ \A k \in Handlers : k # h => frame'[k] = frame[k]
  BY ReturnFrame DEF Inv, TypeOK, unlinkRecording
<1>3. /\ UNCHANGED <<open, audio, answers, unheard, recordings, stored, videoUUID, client, history>>
      /\ local' = local \ {frame[h].file} /\ video' = <<>>
  BY DEF unlinkRecording
<1>4. local \cup stored \subseteq local' \cup stored'
  BY <1>1, <1>3
<1>5. TypeOK'
  <2>1. video' \in Seq(1..MaxChunks)
    BY <1>3
  <2>2. local' \cup stored' \subseteq DOMAIN recordings'
    BY <1>3 DEF Inv, TypeOK
  <2>3. QED
    BY <1>2, <1>3, <2>1, <2>2 DEF Inv, TypeOK, history
<1>6. UploadIsKept'
  <2>1. ~ Uploading(h)' /\ ~ At(h, "unlink")'
    BY <1>2 DEF Uploading, At, Idle
  <2>2. QED
    BY <1>2, <1>3, <1>4, <2>1, OthersKeepTheirFiles DEF Inv
<1>7. RecordingIsKept'
  BY <1>3, <1>4 DEF Inv, RecordingIsKept
<1>8. BufferIsYounger' /\ AnswersAreApart'
  BY <1>3, BuffersLeft DEF Inv
<1>9. QED
  BY <1>5, <1>6, <1>7, <1>8 DEF Inv

-----------------------------------------------------------------------------
(* Theorems *)

LEMMA NextInv == Inv /\ [Next]_vars => Inv'
<1> SUFFICES ASSUME Inv, [Next]_vars PROVE Inv'
  OBVIOUS
<1>1. CASE handleJoinInterview \/ left
  BY <1>1, ResetKeepsInv DEF handleJoinInterview, left
<1>2. CASE handleAudioChunk
  BY <1>2, AudioChunkKeepsInv
<1>3. CASE handleVideoChunks
  BY <1>3, VideoChunkKeepsInv
<1>4. CASE Crash
  BY <1>4, CrashKeepsInv
<1>5. ASSUME NEW h \in Handlers, handleSubmitAnswer(h) PROVE Inv'
  BY <1>5, SubmitKeepsInv
<1>6. ASSUME NEW h \in Handlers, handleEndRecording(h) PROVE Inv'
  BY <1>6, EndRecordingKeepsInv
<1>7. ASSUME NEW h \in Handlers, Throw(h) PROVE Inv'
  BY <1>7, ThrowKeepsInv
<1>8. ASSUME NEW h \in Handlers, Continue(h) PROVE Inv'
  <2>1. CASE internal_getMeeting(h) \/ FindMeeting(h) \/ ReadFile(h)
    BY <2>1, MoveKeepsInv
  <2>2. CASE unlinkAnswer(h)
    BY <2>2, UnlinkAnswerKeepsInv
  <2>3. CASE SaveMeeting(h)
    BY <2>3, SaveKeepsInv
  <2>4. CASE putObject(h)
    BY <2>4, PutKeepsInv
  <2>5. CASE unlinkRecording(h)
    BY <2>5, UnlinkRecordingKeepsInv
  <2>6. QED
    BY <1>8, <2>1, <2>2, <2>3, <2>4, <2>5 DEF Continue
<1>9. CASE UNCHANGED vars
  <2>1. UNCHANGED <<open, audio, video, answers, unheard, recordings, local, stored,
                    videoUUID, frame, client, discarded, raced, failures>>
    BY <1>9 DEF vars, buffers, disk, history
  <2>2. TypeOK'
    BY <2>1 DEF Inv, TypeOK
  <2>3. UploadIsKept' /\ RecordingIsKept'
    BY <2>1, DiskLeft DEF Inv, disk
  <2>4. BufferIsYounger' /\ AnswersAreApart'
    BY <2>1, BuffersLeft DEF Inv
  <2>5. QED
    BY <2>2, <2>3, <2>4 DEF Inv
<1>10. QED
  BY <1>1, <1>2, <1>3, <1>4, <1>5, <1>6, <1>7, <1>8, <1>9 DEF Next

LEMMA InvHolds == Spec => []Inv
<1>1. QED
  BY InitInv, NextInv, PTL DEF Spec

(* The variables keep their types: no file is named that was not written,    *)
(* whatever throws and whenever the gateway stops.                           *)
THEOREM TypeCorrect == Spec => []TypeOK
<1>1. Inv => TypeOK
  BY DEF Inv
<1>2. QED
  BY <1>1, InvHolds, PTL

(* The recording that the meeting's row names is on the disk or in the       *)
(* object store: uploadMeetingVideo saves the name of a file that was        *)
(* written, and the gateway unlinks it only after putObject.                 *)
THEOREM NamedRecordingIsKept == Spec => []RecordingIsKept
<1>1. Inv => RecordingIsKept
  BY DEF Inv
<1>2. QED
  BY <1>1, InvHolds, PTL

(* No chunk of audio gets into two answers, and answers keep the order in    *)
(* which the chunks came: handleSubmitAnswer takes and empties the buffer    *)
(* before it awaits anything.                                                *)
THEOREM AnswersStayApart == Spec => []AnswersAreApart
<1>1. Inv => AnswersAreApart
  BY DEF Inv
<1>2. QED
  BY <1>1, InvHolds, PTL

-----------------------------------------------------------------------------
(* The chunks of video *)

(* As long as no video is sent during an upload, all that is buffered is in  *)
(* each file that is being uploaded: the buffer can be emptied after any of  *)
(* them.                                                                     *)
VideoIsWritten ==
  \/ raced
  \/ \A h \in Handlers : Uploading(h) => ToSet(video) \subseteq ToSet(recordings[frame[h].file])

Found(c) == \E id \in local \cup stored : c \in ToSet(recordings[id])

ChunkInv == ChunksAreKept /\ VideoIsWritten

LEMMA ChunksFound == ChunksAreKept <=>
  raced \/ \A c \in 1..client.video : c \in discarded \cup ToSet(video) \/ Found(c)
BY DEF ChunksAreKept, Found

(* Recordings that were written stay what they are, and stay to be found.    *)
RecordingsStay ==
  /\ \A id \in DOMAIN recordings : recordings'[id] = recordings[id]
  /\ local \cup stored \subseteq local' \cup stored'

LEMMA FoundStays ==
  ASSUME TypeOK, RecordingsStay
  PROVE  \A c : Found(c) => Found(c)'
BY DEF TypeOK, RecordingsStay, Found

(* No handler begins an upload. *)
NoneBegins ==
  \A h \in Handlers : Uploading(h)' => Uploading(h) /\ frame'[h].file = frame[h].file

(* The buffer keeps its video, or loses it to a join, a leave or a crash.    *)
LEMMA VideoLeft ==
  ASSUME Inv, ChunkInv, RecordingsStay, NoneBegins, raced' = raced,
         client'.video = client.video,
         \/ UNCHANGED <<video, discarded>>
         \/ video' = <<>> /\ discarded' = discarded \cup ToSet(video)
  PROVE  ChunkInv'
<1>1. ToSet(video') \subseteq ToSet(video)
  BY EmptyToSet
<1>2. discarded \cup ToSet(video) \subseteq discarded' \cup ToSet(video')
  OBVIOUS
<1>3. ChunksAreKept'
  <2>1. \A c : Found(c) => Found(c)'
    BY FoundStays DEF Inv
  <2>2. raced' \/ \A c \in 1..client'.video : c \in discarded' \cup ToSet(video') \/ Found(c)'
    BY <1>2, <2>1, ChunksFound DEF ChunkInv
  <2>3. QED
    BY <2>2 DEF ChunksAreKept, Found
<1>4. VideoIsWritten'
  <2> SUFFICES ASSUME ~raced', NEW h \in Handlers, Uploading(h)'
               PROVE  ToSet(video') \subseteq ToSet(recordings'[frame'[h].file])
    BY DEF VideoIsWritten
  <2>1. Uploading(h) /\ frame'[h].file = frame[h].file
    BY DEF NoneBegins
  <2>2. recordings'[frame[h].file] = recordings[frame[h].file]
    BY <2>1 DEF Inv, UploadIsKept, RecordingsStay
  <2>3. QED
    BY <1>1, <2>1, <2>2 DEF ChunkInv, VideoIsWritten
<1>5. QED
  BY <1>3, <1>4 DEF ChunkInv

(* Video that comes during an upload is a race; otherwise it is buffered. *)
LEMMA VideoChunkKeepsChunks ==
  ASSUME Inv, ChunkInv, handleVideoChunks
  PROVE  ChunkInv'
<1>1. CASE raced'
  BY <1>1 DEF ChunkInv, ChunksAreKept, VideoIsWritten
<1>2. CASE ~ raced'
  <2>1. ~ raced /\ \A h \in Handlers : ~ Uploading(h)
    BY <1>2 DEF handleVideoChunks
  <2>2. VideoIsWritten'
    BY <2>1 DEF VideoIsWritten, Uploading, handleVideoChunks
  <2>3. client'.video = client.video + 1 /\ client.video \in Nat /\ client'.video \in 1..MaxChunks
    <3>1. client' = [audio |-> client.audio, video |-> client.video + 1, resets |-> client.resets]
      BY ClientType DEF Inv, handleVideoChunks
    <3>2. QED
      BY <3>1, ClientType, VideoCounted DEF Inv, handleVideoChunks
  <2>4. discarded \cup ToSet(video) \cup {client'.video} \subseteq discarded' \cup ToSet(video')
    <3>1. video \in Seq(1..MaxChunks)
      BY DEF Inv, TypeOK
    <3>2. ToSet(Append(video, client'.video)) = ToSet(video) \cup {client'.video}
      BY <2>3, <3>1, ChunkAppended
    <3>3. QED
      BY <3>2 DEF handleVideoChunks
  <2>5. ChunksAreKept'
    <3>1. \A c : Found(c) => Found(c)'
      BY FoundStays DEF Inv, RecordingsStay, handleVideoChunks, disk
    <3>2. \A c \in 1..client.video : c \in discarded \cup ToSet(video) \/ Found(c)
      BY <2>1, ChunksFound DEF ChunkInv
    <3>3. \A c \in 1..client'.video : c \in 1..client.video \/ c = client'.video
      BY <2>3
    <3>4. \A c \in 1..client'.video : c \in discarded' \cup ToSet(video') \/ Found(c)'
      BY <2>4, <3>1, <3>2, <3>3
    <3>5. QED
      BY <3>4 DEF ChunksAreKept, Found
  <2>6. QED
    BY <2>2, <2>5 DEF ChunkInv
<1>3. QED
  BY <1>1, <1>2

LEMMA EndRecordingKeepsChunks ==
  ASSUME Inv, ChunkInv, NEW h \in Handlers, handleEndRecording(h)
  PROVE  ChunkInv'
<1> DEFINE new == Len(recordings) + 1
<1>1. /\ recordings \in Seq(Seq(1..MaxChunks)) /\ video \in Seq(1..MaxChunks)
      /\ recordings' = Append(recordings, video)
      /\ frame \in [Handlers -> Frame] /\ Len(answers) \in Nat
  BY DEF Inv, TypeOK, handleEndRecording
<1>2. /\ Len(recordings') = new /\ Len(recordings) \in Nat /\ recordings'[new] = video
      /\ \A id \in DOMAIN recordings : recordings'[id] = recordings[id]
  BY <1>1, FileAppended
<1>3. /\ UNCHANGED <<video, client, discarded, raced>>
      /\ stored' = stored /\ local' = local \cup {new}
  BY <1>2 DEF handleEndRecording, buffers, history
<1>4. /\ frame'[h].file = new
      /\ \A k \in Handlers : k # h => frame'[k] = frame[k]
  <2>1. new \in 0..MaxFiles /\ Begin(h, "find", new)
    BY <1>1, <1>2, BoundsAssumption DEF handleEndRecording
  <2>2. QED
    BY <1>1, <2>1, BeginFrame
<1>5. RecordingsStay
  BY <1>2, <1>3 DEF RecordingsStay
<1>6. ChunksAreKept'
  <2>1. \A c : Found(c) => Found(c)'
    BY <1>5, FoundStays DEF Inv
  <2>2. raced' \/ \A c \in 1..client'.video : c \in discarded' \cup ToSet(video') \/ Found(c)'
    BY <1>3, <2>1, ChunksFound DEF ChunkInv
  <2>3. QED
    BY <2>2 DEF ChunksAreKept, Found
<1>7. VideoIsWritten'
  <2> SUFFICES ASSUME ~raced', NEW k \in Handlers, Uploading(k)'
               PROVE  ToSet(video') \subseteq ToSet(recordings'[frame'[k].file])
    BY DEF VideoIsWritten
  <2>1. CASE k = h
    BY <1>2, <1>3, <1>4, <2>1
  <2>2. CASE k # h
    <3>1. Uploading(k) /\ frame'[k] = frame[k]
      BY <1>4, <2>2 DEF Uploading
    <3>2. recordings'[frame[k].file] = recordings[frame[k].file]
      BY <1>2, <3>1 DEF Inv, UploadIsKept
    <3>3. QED
      BY <1>3, <3>1, <3>2 DEF ChunkInv, VideoIsWritten
  <2>3. QED
    BY <2>1, <2>2
<1>8. QED
  BY <1>6, <1>7 DEF ChunkInv

(* What the buffer loses is in the file that was just stored. *)
LEMMA UnlinkRecordingKeepsChunks ==
  ASSUME Inv, ChunkInv, NEW h \in Handlers, unlinkRecording(h)
  PROVE  ChunkInv'
<1>1. /\ Uploading(h) /\ frame[h].file \in stored
  BY DEF Inv, UploadIsKept, unlinkRecording, At, Uploading
<1>2. /\ UNCHANGED <<recordings, stored, client, discarded, raced>>
      /\ local' = local \ {frame[h].file} /\ video' = <<>> /\ Return(h)
  BY DEF unlinkRecording, history
<1>3. ChunksAreKept'
  <2>1. \A c : Found(c) => Found(c)'
    <3>1. RecordingsStay
      BY <1>1, <1>2 DEF RecordingsStay
    <3>2. QED
      BY <3>1, FoundStays DEF Inv
  <2>2. raced \/ \A c \in ToSet(video) : Found(c)'
    BY <1>1, <1>2 DEF ChunkInv, VideoIsWritten, Found
  <2>3. raced' \/ \A c \in 1..client'.video : c \in discarded' \cup ToSet(video') \/ Found(c)'
    BY <1>2, <2>1, <2>2, ChunksFound DEF ChunkInv
  <2>4. QED
    BY <2>3 DEF ChunksAreKept, Found
<1>4. VideoIsWritten'
  BY <1>2, EmptyToSet DEF VideoIsWritten
<1>5. QED
  BY <1>3, <1>4 DEF ChunkInv

LEMMA ChunkInit == Init => ChunkInv
BY DEF Init, ChunkInv, ChunksAreKept, VideoIsWritten, Uploading, Idle

LEMMA ChunkNext == Inv /\ ChunkInv /\ [Next]_vars => ChunkInv'
<1> SUFFICES ASSUME Inv, ChunkInv, [Next]_vars PROVE ChunkInv'
  OBVIOUS
<1>1. CASE handleJoinInterview \/ left
  <2>1. /\ video' = <<>> /\ discarded' = discarded \cup ToSet(video)
        /\ UNCHANGED <<disk, frame, raced>> /\ client' = [client EXCEPT !.resets = @ + 1]
    BY <1>1 DEF handleJoinInterview, left, ResetBuffers
  <2>2. client'.video = client.video
    BY <2>1, ClientType DEF Inv
  <2>3. RecordingsStay /\ NoneBegins
    BY <2>1 DEF RecordingsStay, NoneBegins, Uploading, disk
  <2>4. QED
    BY <2>1, <2>2, <2>3, VideoLeft
<1>2. CASE handleAudioChunk
  <2>1. UNCHANGED <<video, disk, frame, history>> /\ client' = [client EXCEPT !.audio = @ + 1]
    BY <1>2 DEF handleAudioChunk
  <2>2. client'.video = client.video
    BY <2>1, ClientType DEF Inv
  <2>3. RecordingsStay /\ NoneBegins
    BY <2>1 DEF RecordingsStay, NoneBegins, Uploading, disk
  <2>4. QED
    BY <2>1, <2>2, <2>3, VideoLeft DEF history
<1>3. CASE handleVideoChunks
  BY <1>3, VideoChunkKeepsChunks
<1>4. CASE Crash
  <2>1. /\ video' = <<>> /\ discarded' = discarded \cup ToSet(video)
        /\ UNCHANGED <<disk, client, raced>> /\ frame' = [h \in Handlers |-> Idle]
    BY <1>4 DEF Crash
  <2>2. RecordingsStay /\ NoneBegins
    BY <2>1 DEF RecordingsStay, NoneBegins, Uploading, Idle, disk
  <2>3. QED
    BY <2>1, <2>2, VideoLeft
<1>5. ASSUME NEW h \in Handlers, handleEndRecording(h) PROVE ChunkInv'
  BY <1>5, EndRecordingKeepsChunks
<1>6. ASSUME NEW h \in Handlers, unlinkRecording(h) PROVE ChunkInv'
  BY <1>6, UnlinkRecordingKeepsChunks
<1>7. ASSUME NEW h \in Handlers,
             \/ handleSubmitAnswer(h) \/ Throw(h) \/ internal_getMeeting(h) \/ unlinkAnswer(h)
             \/ FindMeeting(h) \/ SaveMeeting(h) \/ ReadFile(h) \/ putObject(h)
      PROVE ChunkInv'
  <2>1. /\ UNCHANGED <<video, recordings, local, client, discarded, raced>>
        /\ stored \subseteq stored'
    BY <1>7 DEF handleSubmitAnswer, Throw, internal_getMeeting, unlinkAnswer, FindMeeting,
       SaveMeeting, ReadFile, putObject, buffers, disk, history
  <2>2. RecordingsStay
    BY <2>1 DEF RecordingsStay
  <2>3. frame \in [Handlers -> Frame] /\ frame[h] \in Frame
    BY DEF Inv, TypeOK
  <2>4. NoneBegins
    <3>1. CASE handleSubmitAnswer(h)
      BY <2>3, <3>1 DEF handleSubmitAnswer, Begin, NoneBegins, Uploading
    <3>2. CASE Return(h)
      BY <2>3, <3>2 DEF Return, NoneBegins, Uploading, Idle
    <3>3. CASE Goto(h, "turn")
      BY <2>3, <3>3 DEF Goto, NoneBegins, Uploading, Frame
    <3>4. CASE \E pc \in {"save", "read", "put", "unlink"} : Goto(h, pc) /\ Uploading(h)
      BY <2>3, <3>4 DEF Goto, NoneBegins, Uploading, Frame
    <3>5. QED
      BY <1>7, <3>1, <3>2, <3>3, <3>4 DEF Throw, internal_getMeeting, unlinkAnswer,
         FindMeeting, SaveMeeting, ReadFile, putObject, At, Uploading
  <2>5. QED
    BY <2>1, <2>2, <2>4, VideoLeft
<1>8. CASE UNCHANGED vars
  <2>1. UNCHANGED <<video, recordings, local, stored, client, discarded, raced, frame>>
    BY <1>8 DEF vars, buffers, disk, history
  <2>2. RecordingsStay /\ NoneBegins
    BY <2>1 DEF RecordingsStay, NoneBegins, Uploading
  <2>3. QED
    BY <2>1, <2>2, VideoLeft
<1>9. QED
  BY <1>1, <1>2, <1>3, <1>4, <1>5, <1>6, <1>7, <1>8 DEF Next, Continue

(* As long as no video is sent during an upload, every chunk of video is     *)
(* still buffered or is in a recording on the disk or in the object store,   *)
(* also when uploads overlap, throw, or are cut off: handleEndRecording      *)
(* empties the buffer only after an upload that had all of it.               *)
THEOREM VideoIsKept == Spec => []ChunksAreKept
<1>1. ChunkInv => ChunksAreKept
  BY DEF ChunkInv
<1>2. QED
  BY <1>1, InitInv, NextInv, ChunkInit, ChunkNext, PTL DEF Spec
=============================================================================
