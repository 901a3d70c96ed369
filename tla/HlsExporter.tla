----------------------------- MODULE HlsExporter -----------------------------
(***************************************************************************)
(* The exporter of the handler process (core/common/src/exporters.cpp), the *)
(* video repository it writes, which outlives it, and the HTTP handler of   *)
(* the host that reads the repository at the same time (core/src/http.cpp). *)
(*                                                                         *)
(* The exporter takes FrameRate frames from the ring, writes them to the    *)
(* next segment file, appends the file's name to the playlist and only then *)
(* closes the file, when its VideoWriter goes out of scope.  An exception   *)
(* or a signal ends the process at any of these steps; the next session     *)
(* starts a new handler on the same repository, which learns the number of  *)
(* its first segment from the playlist.                                     *)
(*                                                                         *)
(* The ring is the one of ShmQueue: here it hands over the next message.    *)
(* Frames are numbered as they are taken.  Left out: regular expressions,   *)
(* formatting, the playlist torn by a full disk, two handlers that share a  *)
(* repository.                                                             *)
(***************************************************************************)
EXTENDS Naturals, Sequences, FiniteSets, FiniteSetsExt, Functions

CONSTANTS
    FrameRate,      \* frame_rate_, and so the frames of a segment
    FrameSizes,     \* what the header of a frame may say of rows and columns
    MaxFrames,      \* bound: frames the ring hands over
    MaxRestarts,    \* bound: sessions after the first
    None

ASSUME ExporterAssumption ==
    /\ FrameRate \in Nat \ {0} /\ MaxFrames \in Nat /\ MaxRestarts \in Nat
    /\ FrameSizes # {} /\ None \notin FrameSizes

VARIABLES
    \* the handler process
    pc,             \* "number" once the batch is complete, and so on
    message_buffer, \* the batch: frames with their number and size
    segmentNumber,
    written,        \* frames given to the VideoWriter
    \* the repository
    segments,       \* segment files: number -> [frames, closed]
    playlist,       \* the segment numbers it names, in order
    headers,        \* how often the header of the playlist is in it
    \* a client of the HTTP server: the last playlist it got, the last segment
    view, got,
    \* history: frames taken, frames lost with a handler, files never closed
    taken, lost, torn, deaths

handler == <<pc, message_buffer, segmentNumber, written>>
repository == <<segments, playlist, headers>>
reader == <<view, got>>
vars == <<pc, message_buffer, segmentNumber, written, segments, playlist, headers,
          view, got, taken, lost, torn, deaths>>

Init ==
    /\ pc = "fetch" /\ message_buffer = <<>> /\ segmentNumber = 0 /\ written = 0
    /\ segments = <<>> /\ playlist = <<>> /\ headers = 0
    /\ view = <<>> /\ got = None
    /\ taken = 0 /\ lost = {} /\ torn = {} /\ deaths = 0

-----------------------------------------------------------------------------
(* ListenSHMQueue: a message without data is dropped and fetched again.     *)

FramesOf(batch) == {batch[i].frame : i \in 1 .. Len(batch)}

BatchHasRoom == Len(message_buffer) < FrameRate

FetchMessage ==
    /\ pc = "fetch" /\ BatchHasRoom /\ taken < MaxFrames
    /\ \E s \in FrameSizes :
          message_buffer' = Append(message_buffer, [frame |-> taken + 1, size |-> s])
    /\ taken' = taken + 1
    /\ UNCHANGED <<pc, segmentNumber, written, repository, reader, lost, torn, deaths>>

\* The end of the process: an exception nothing catches, or a signal.  Nothing is
\* unwound, so an open segment file is never closed; the batch is gone unless the
\* playlist names its file.
Dies ==
    /\ pc' = "dead" /\ deaths' = deaths + 1
    /\ message_buffer' = <<>> /\ written' = 0
    /\ lost' = IF pc = "release" THEN lost ELSE lost \cup FramesOf(message_buffer)
    /\ torn' = IF pc = "release" THEN torn \cup {segmentNumber} ELSE torn
    /\ UNCHANGED <<segmentNumber, repository, reader, taken>>

\* The callback.  A message shorter than the header of a frame makes the size
\* of the copy wrap around, and the allocation throws.
UnmarshalMessages ==
    /\ pc = "fetch" /\ ~BatchHasRoom
    /\ pc' = "number"
    /\ UNCHANGED <<message_buffer, segmentNumber, written, repository, reader,
                   taken, lost, torn, deaths>>

UnmarshalThrows == pc = "fetch" /\ ~BatchHasRoom /\ Dies

-----------------------------------------------------------------------------
(* CreateHLSVideoSegment.                                                  *)

\* mutant: the number of the last segment is taken again
LastSegmentPlusOne_Same ==
    IF playlist = <<>> THEN 0 ELSE Max({playlist[i] : i \in 1 .. Len(playlist)})

\* readLastSegmentNumber: -1 when the playlist is missing or names nothing.
LastSegmentPlusOne ==
    IF playlist = <<>> THEN 0 ELSE Max({playlist[i] : i \in 1 .. Len(playlist)}) + 1

ReadLastSegmentNumber ==
    /\ pc = "number"
    /\ segmentNumber' = LastSegmentPlusOne
    /\ pc' = "open"
    /\ UNCHANGED <<message_buffer, written, repository, reader, taken, lost, torn, deaths>>

SetSegment(n, file) ==
    segments' = [k \in DOMAIN segments \cup {n} |-> IF k = n THEN file ELSE segments[k]]

\* VideoWriter::open makes the file anew, also when a handler that died has left
\* one of this number.
OpenWriter ==
    /\ pc = "open"
    /\ SetSegment(segmentNumber, [frames |-> <<>>, closed |-> FALSE])
    /\ pc' = "write"
    /\ UNCHANGED <<message_buffer, segmentNumber, written, playlist, headers, reader,
                   taken, lost, torn, deaths>>

OpenFails == pc = "open" /\ Dies

SameSize == message_buffer[written + 1].size = message_buffer[1].size

WriteFrame ==
    /\ pc = "write" /\ written < Len(message_buffer) /\ SameSize
    /\ SetSegment(segmentNumber,
          [segments[segmentNumber] EXCEPT !.frames =
              Append(@, message_buffer[written + 1].frame)])
    /\ written' = written + 1
    /\ UNCHANGED <<pc, message_buffer, segmentNumber, playlist, headers, reader,
                   taken, lost, torn, deaths>>

WrongSize == pc = "write" /\ written < Len(message_buffer) /\ ~SameSize /\ Dies

Complete == written = Len(message_buffer)

\* mutant: the playlist is opened without app
AppendTo_Truncates(n) == playlist' = <<n>>

AppendTo(n) == playlist' = Append(playlist, n)

\* The header, when the playlist is empty, and the entry reach the file together
\* when it is closed.
AppendPlaylist ==
    /\ pc = "write" /\ Complete
    /\ AppendTo(segmentNumber)
    /\ headers' = IF playlist = <<>> THEN headers + 1 ELSE headers
    /\ pc' = "release"
    /\ UNCHANGED <<message_buffer, segmentNumber, written, segments, reader,
                   taken, lost, torn, deaths>>

\* mutant: the writer is kept open
Close_Never(n) == UNCHANGED segments

Close(n) == SetSegment(n, [segments[n] EXCEPT !.closed = TRUE])

\* The VideoWriter goes out of scope, HandleMessages begins the next batch.
ReleaseWriter ==
    /\ pc = "release"
    /\ Close(segmentNumber)
    /\ message_buffer' = <<>> /\ written' = 0
    /\ pc' = "fetch"
    /\ UNCHANGED <<segmentNumber, playlist, headers, reader, taken, lost, torn, deaths>>

\* SIGTERM, SIGKILL, a fault: at any step.
Killed == pc # "dead" /\ Dies

\* The next session on the same repository.
Restart ==
    /\ pc = "dead" /\ deaths <= MaxRestarts
    /\ pc' = "fetch"
    /\ UNCHANGED <<message_buffer, segmentNumber, written, repository, reader,
                   taken, lost, torn, deaths>>

-----------------------------------------------------------------------------
(* readPlaylist for a client that gets the playlist and then the segments.  *)

GetPlaylist ==
    /\ view' = playlist
    /\ got' = None
    /\ UNCHANGED <<handler, repository, taken, lost, torn, deaths>>

\* A file that cannot be opened gives 404.
GetSegment ==
    \E i \in 1 .. Len(view) :
        /\ got' = LET n == view[i] IN
              IF n \in DOMAIN segments
              THEN [number |-> n, found |-> TRUE, last |-> i = Len(view),
                    frames |-> segments[n].frames, closed |-> segments[n].closed]
              ELSE [number |-> n, found |-> FALSE, last |-> i = Len(view),
                    frames |-> <<>>, closed |-> FALSE]
        /\ UNCHANGED <<handler, repository, view, taken, lost, torn, deaths>>

Export == \/ UnmarshalMessages \/ ReadLastSegmentNumber \/ OpenWriter
          \/ WriteFrame \/ AppendPlaylist \/ ReleaseWriter

Fail == UnmarshalThrows \/ OpenFails \/ WrongSize \/ Killed

Next == FetchMessage \/ Export \/ Fail \/ Restart \/ GetPlaylist \/ GetSegment

Spec == Init /\ [][Next]_vars

\* The exporter never waits: while its process lives it goes on.  Nothing says
\* that a frame comes, or that a dead handler is started again.
FairSpec == Spec /\ WF_vars(Export) /\ WF_vars(WrongSize)

-----------------------------------------------------------------------------
(* Properties.                                                             *)

PlaylistFrames == UNION {Range(segments[n].frames) : n \in Range(playlist)}

\* Types; the file being written has the number the handler chose.
TypeOK ==
    /\ pc \in {"fetch", "number", "open", "write", "release", "dead"}
    /\ message_buffer \in Seq([frame : Nat, size : FrameSizes])
    /\ Len(message_buffer) <= FrameRate /\ written \in 0 .. Len(message_buffer)
    /\ segmentNumber \in Nat
    /\ IsFiniteSet(DOMAIN segments) /\ DOMAIN segments \subseteq Nat
    /\ \A n \in DOMAIN segments :
          segments[n].frames \in Seq(Nat) /\ segments[n].closed \in BOOLEAN
    /\ playlist \in Seq(Nat) /\ headers \in {0, 1}
    /\ taken \in Nat /\ lost \subseteq 1 .. taken /\ deaths \in Nat

\* However often the handler dies and wherever, the playlist has its header once
\* and names segments 0, 1, 2, ... without a gap or a repetition: a number that
\* was taken by a file but not listed is used again.
PlaylistConsecutive ==
    /\ \A i \in 1 .. Len(playlist) : playlist[i] = i - 1
    /\ headers = IF playlist = <<>> THEN 0 ELSE 1
    /\ Range(playlist) \subseteq DOMAIN segments

\* Every frame taken from the ring is in a listed segment, in the batch, or went
\* with a handler that died, and in one of them only; a death costs at most one
\* batch.
FramesAccounted ==
    /\ 1 .. taken = PlaylistFrames \cup FramesOf(message_buffer) \cup lost
    /\ lost \cap (PlaylistFrames \cup FramesOf(message_buffer)) = {}
    /\ pc # "release" => PlaylistFrames \cap FramesOf(message_buffer) = {}
    /\ Cardinality(lost) <= FrameRate * deaths

\* Whoever plays the segments in the order of the playlist sees the frames in
\* the order they were taken, FrameRate in each segment.
FramesInOrder ==
    \A i \in 1 .. Len(playlist) :
        LET frames == segments[playlist[i]].frames IN
        /\ Len(frames) = FrameRate
        /\ \A p \in 2 .. FrameRate : frames[p - 1] < frames[p]
        /\ i > 1 => segments[playlist[i - 1]].frames[FrameRate] < frames[1]

\* The playlist plays: segments 0, 1, 2, ... with the frames as they came.
PlaylistInOrder == PlaylistConsecutive /\ FramesInOrder

\* A client that got a playlist, however old, finds every file it names, with all
\* its frames; only the file that was the last then, or one whose writer died,
\* may not have been closed.
FollowerServed ==
    got # None =>
        /\ got.found /\ Len(got.frames) = FrameRate
        /\ got.closed \/ got.last \/ got.number \in torn

\* What the playlist names stays named, and no handler, now or after a restart,
\* writes into it again.
SegmentsKept ==
    [][/\ Len(playlist') >= Len(playlist)
       /\ \A n \in Range(playlist) :
             /\ n \in Range(playlist') /\ segments'[n].frames = segments[n].frames
             /\ segments[n].closed => segments'[n].closed]_vars

\* A complete batch gets into the playlist and its file is closed, unless the
\* handler dies.
BatchesListed ==
    \A f \in 1 .. MaxFrames :
        (Len(message_buffer) = FrameRate /\ f \in FramesOf(message_buffer)) ~>
            \/ f \in lost
            \/ \E n \in Range(playlist) :
                  f \in Range(segments[n].frames) /\ (segments[n].closed \/ n \in torn)
=============================================================================
