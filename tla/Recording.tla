------------------------------ MODULE Recording ------------------------------
(* What the gateway does with the audio and the video of one meeting: the    *)
(* buffers it collects the chunks in, the answers it takes from the audio,   *)
(* and the recordings it writes, hands to uploadMeetingVideo and moves to    *)
(* the object store.                                                         *)
(*                                                                           *)
(* The maps of the gateway are keyed by meeting and nothing else is shared,  *)
(* so one meeting is modelled.  Chunks are numbered as the client sends      *)
(* them; a file is the sequence of its chunks.  What a turn does with an     *)
(* answer, and whether the meeting still takes one, is module Interview.     *)
EXTENDS Integers, SequencesExt

CONSTANTS
  Handlers,     \* the events of the client that may be in work at once
  MaxChunks,    \* chunks of audio and video that the client sends
  MaxFiles,     \* files written to tmp/answers and to tmp/recordings
  MaxResets,    \* how often the client joins and leaves
  MaxFailures   \* handlers that throw, and crashes of the process

ASSUME BoundsAssumption ==
  MaxChunks \in Nat /\ MaxFiles \in Nat /\ MaxResets \in Nat /\ MaxFailures \in Nat

VARIABLES
  open,        \* whether audioBuffers and videoBuffers have the meeting
  audio,       \* the audio buffer
  video,       \* the video buffer
  answers,     \* files ever written to tmp/answers
  unheard,     \* those that are still there
  recordings,  \* files ever written to tmp/recordings
  local,       \* those that are still there
  stored,      \* those in the object store
  videoUUID,   \* the recording of the meeting's row, 0 for none
  frame,       \* what each handler holds across its awaits
  client,      \* chunks of audio and video sent, joins and leaves so far
  discarded,   \* chunks of video a join, a leave or a crash dropped (history)
  raced,       \* whether video was sent during an upload (history)
  failures     \* handlers that threw, and crashes (history)

buffers == <<open, audio, video>>
disk == <<answers, unheard, recordings, local, stored, videoUUID>>
history == <<discarded, raced, failures>>
vars == <<buffers, disk, frame, client, history>>

Idle == [pc |-> "idle", file |-> 0]
Frame == [pc : {"idle", "find", "save", "read", "put", "unlink", "meeting", "turn"},
          file : 0..MaxFiles]

TypeOK ==
  /\ open \in BOOLEAN
  /\ audio \in Seq(1..MaxChunks)
  /\ video \in Seq(1..MaxChunks)
  /\ answers \in Seq(Seq(1..MaxChunks)) /\ unheard \subseteq DOMAIN answers
  /\ recordings \in Seq(Seq(1..MaxChunks)) /\ local \cup stored \subseteq DOMAIN recordings
  /\ videoUUID \in 0..Len(recordings)
  /\ frame \in [Handlers -> Frame]
  /\ client \in [audio : 0..MaxChunks, video : 0..MaxChunks, resets : 0..MaxResets]
  /\ discarded \subseteq 1..MaxChunks
  /\ raced \in BOOLEAN
  /\ failures \in 0..MaxFailures

Init ==
  /\ open = FALSE
  /\ audio = <<>> /\ video = <<>>
  /\ answers = <<>> /\ unheard = {}
  /\ recordings = <<>> /\ local = {} /\ stored = {}
  /\ videoUUID = 0
  /\ frame = [h \in Handlers |-> Idle]
  /\ client = [audio |-> 0, video |-> 0, resets |-> 0]
  /\ discarded = {} /\ raced = FALSE /\ failures = 0

-----------------------------------------------------------------------------
At(h, pc) == frame[h].pc = pc
Goto(h, pc) == frame' = [frame EXCEPT ![h].pc = pc]
Return(h) == frame' = [frame EXCEPT ![h] = Idle]
Begin(h, pc, file) ==
  frame[h] = Idle /\ frame' = [frame EXCEPT ![h] = [pc |-> pc, file |-> file]]

Uploading(h) == frame[h].pc \in {"find", "save", "read", "put", "unlink"}

-----------------------------------------------------------------------------
(* Handlers without an await *)

(* Both buffers become empty and are there from now on. *)
ResetBuffers ==
  /\ client.resets < MaxResets
  /\ client' = [client EXCEPT !.resets = @ + 1]
  /\ open' = TRUE
  /\ audio' = <<>> /\ video' = <<>>
  /\ discarded' = discarded \cup ToSet(video)

handleJoinInterview == ResetBuffers /\ UNCHANGED <<disk, frame, raced, failures>>

(* What leaving does to the meeting's row is module Interview. *)
left == ResetBuffers /\ UNCHANGED <<disk, frame, raced, failures>>

(* A chunk that comes without a join before it is dropped. *)
handleAudioChunk ==
  /\ client.audio + client.video < MaxChunks
  /\ client' = [client EXCEPT !.audio = @ + 1]
  /\ audio' = IF open THEN Append(audio, client'.audio) ELSE audio
  /\ UNCHANGED <<open, video, disk, frame, history>>

handleVideoChunks ==
  /\ client.audio + client.video < MaxChunks
  /\ client' = [client EXCEPT !.video = @ + 1]
  /\ IF open
     THEN video' = Append(video, client'.video) /\ UNCHANGED discarded
     ELSE UNCHANGED video /\ discarded' = discarded \cup {client'.video}
  /\ raced' = (raced \/ \E h \in Handlers : Uploading(h))
  /\ UNCHANGED <<open, audio, disk, frame, failures>>

-----------------------------------------------------------------------------
(* submit-answer *)

\* Mutant: the buffer is not emptied.
handleSubmitAndKeep(h) ==
  /\ open /\ Len(answers) + Len(recordings) < MaxFiles
  /\ answers' = Append(answers, audio)
  /\ unheard' = unheard \cup {Len(answers')}
  /\ Begin(h, "meeting", Len(answers'))
  /\ UNCHANGED <<buffers, recordings, local, stored, videoUUID, client, history>>

(* The audio is taken, written and forgotten before the first await. *)
handleSubmitAnswer(h) ==
  /\ open /\ Len(answers) + Len(recordings) < MaxFiles
  /\ answers' = Append(answers, audio)
  /\ unheard' = unheard \cup {Len(answers')}
  /\ audio' = <<>>
  /\ Begin(h, "meeting", Len(answers'))
  /\ UNCHANGED <<open, video, recordings, local, stored, videoUUID, client, history>>

(* A meeting that is completed or in error takes no answer; the file stays. *)
internal_getMeeting(h) ==
  /\ At(h, "meeting")
  /\ Goto(h, "turn") \/ Return(h)
  /\ UNCHANGED <<buffers, disk, client, history>>

(* conductAssessmentMeeting has transcribed the file, and came back. *)
unlinkAnswer(h) ==
  /\ At(h, "turn")
  /\ unheard' = unheard \ {frame[h].file}
  /\ Return(h)
  /\ UNCHANGED <<buffers, answers, recordings, local, stored, videoUUID, client, history>>

-----------------------------------------------------------------------------
(* end-recording, with uploadMeetingVideo *)

\* Mutant: the upload is given another name than the file.
handleEndRecordingElsewhere(h) ==
  /\ open /\ Len(answers) + Len(recordings) < MaxFiles
  /\ recordings' = Append(recordings, video)
  /\ local' = local \cup {Len(recordings')}
  /\ Begin(h, "find", Len(recordings') + 1)
  /\ UNCHANGED <<buffers, answers, unheard, stored, videoUUID, client, history>>

(* The file is written, and found to be there, before the first await; the   *)
(* buffer stays until the upload is over.                                    *)
handleEndRecording(h) ==
  /\ open /\ Len(answers) + Len(recordings) < MaxFiles
  /\ recordings' = Append(recordings, video)
  /\ local' = local \cup {Len(recordings')}
  /\ Begin(h, "find", Len(recordings'))
  /\ UNCHANGED <<buffers, answers, unheard, stored, videoUUID, client, history>>

\* Mutant: a meeting that has a recording is not given another one.
FindUnrecorded(h) ==
  /\ At(h, "find")
  /\ IF videoUUID = 0 THEN Goto(h, "save") ELSE Return(h)
  /\ UNCHANGED <<buffers, disk, client, history>>

(* The meeting's row exists: no handler deletes one. *)
FindMeeting(h) ==
  /\ At(h, "find")
  /\ Goto(h, "save")
  /\ UNCHANGED <<buffers, disk, client, history>>

SaveMeeting(h) ==
  /\ At(h, "save")
  /\ videoUUID' = frame[h].file
  /\ Goto(h, "read")
  /\ UNCHANGED <<buffers, answers, unheard, recordings, local, stored, client, history>>

\* Mutant: the file is unlinked once it is read.
ReadAndUnlink(h) ==
  /\ At(h, "read")
  /\ local' = local \ {frame[h].file}
  /\ Goto(h, "put")
  /\ UNCHANGED <<buffers, answers, unheard, recordings, stored, videoUUID, client, history>>

ReadFile(h) ==
  /\ At(h, "read")
  /\ Goto(h, "put")
  /\ UNCHANGED <<buffers, disk, client, history>>

\* Mutant: a refusal of the object store is caught, and the upload goes on.
putObjectQuietly(h) ==
  /\ At(h, "put")
  /\ stored' = stored \cup {frame[h].file} \/ UNCHANGED stored
  /\ Goto(h, "unlink")
  /\ UNCHANGED <<buffers, answers, unheard, recordings, local, videoUUID, client, history>>

putObject(h) ==
  /\ At(h, "put")
  /\ stored' = stored \cup {frame[h].file}
  /\ Goto(h, "unlink")
  /\ UNCHANGED <<buffers, answers, unheard, recordings, local, videoUUID, client, history>>

(* Back from the upload the gateway empties the buffer, whatever is in it.   *)
unlinkRecording(h) ==
  /\ At(h, "unlink")
  /\ local' = local \ {frame[h].file}
  /\ video' = <<>>
  /\ Return(h)
  /\ UNCHANGED <<open, audio, answers, unheard, recordings, stored, videoUUID, client, history>>

-----------------------------------------------------------------------------
(* Failures *)

(* A call of the database, the object store or the model fails: the handler  *)
(* ends where it is, and the gateway answers with an exception.              *)
Throw(h) ==
  /\ frame[h] # Idle /\ ~ At(h, "unlink")
  /\ failures < MaxFailures
  /\ failures' = failures + 1
  /\ Return(h)
  /\ UNCHANGED <<buffers, disk, client, discarded, raced>>

(* The process stops and is started again: the buffers are gone, the files   *)
(* are not.                                                                  *)
Crash ==
  /\ failures < MaxFailures
  /\ failures' = failures + 1
  /\ open' = FALSE
  /\ audio' = <<>> /\ video' = <<>>
  /\ discarded' = discarded \cup ToSet(video)
  /\ frame' = [h \in Handlers |-> Idle]
  /\ UNCHANGED <<disk, client, raced>>

Continue(h) ==
  \/ internal_getMeeting(h) \/ unlinkAnswer(h)
  \/ FindMeeting(h) \/ SaveMeeting(h) \/ ReadFile(h) \/ putObject(h) \/ unlinkRecording(h)

Next ==
  \/ handleJoinInterview \/ left \/ handleAudioChunk \/ handleVideoChunks
  \/ \E h \in Handlers :
       handleSubmitAnswer(h) \/ handleEndRecording(h) \/ Continue(h) \/ Throw(h)
  \/ Crash

Spec == Init /\ [][Next]_vars

(* The event loop resumes every handler whose call came back. *)
FairSpec == Spec /\ \A h \in Handlers : WF_vars(Continue(h))

-----------------------------------------------------------------------------
(* Properties *)

(* However submissions overlap, no chunk of audio is in two answers, and     *)
(* what was said first is in the earlier one: the buffer is taken and        *)
(* emptied before anything is awaited.                                       *)
AnswersAreApart ==
  \A i, j \in DOMAIN answers :
    i < j => \A c \in ToSet(answers[i]), d \in ToSet(answers[j]) : c < d

(* The recording that the meeting's row names can be found, on the disk or   *)
(* in the object store, whatever threw and whenever the process stopped.     *)
RecordingIsKept == videoUUID # 0 => videoUUID \in local \cup stored

(* As long as the client sends no video during an upload, each chunk it sent *)
(* is in the buffer or in a recording that can be found; only joining,       *)
(* leaving and a crash drop chunks.                                          *)
ChunksAreKept ==
  \/ raced
  \/ \A c \in 1 .. client.video :
       \/ c \in discarded \cup ToSet(video)
       \/ \E id \in local \cup stored : c \in ToSet(recordings[id])

(* A recording that was begun reaches the object store and leaves the disk,  *)
(* unless something fails.                                                   *)
RecordingIsStored ==
  \A id \in 1..MaxFiles :
    id \in local ~> (id \in stored /\ id \notin local) \/ failures > 0
=============================================================================
