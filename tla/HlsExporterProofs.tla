------------------------- MODULE HlsExporterProofs --------------------------
(***************************************************************************)
(* Theorems about HlsExporter: for segments of any length, any number of   *)
(* frames, and handlers that die at any step and are started again any      *)
(* number of times on the same repository, the playlist numbers the         *)
(* segments without a gap, every frame is accounted for and in order, and a *)
(* client that follows the playlist is served.                              *)
(***************************************************************************)
EXTENDS HlsExporter, FiniteSetTheorems, TLAPS

\* The numbers the playlist names.
Listed == 0 .. Len(playlist) - 1

Frames(n) == segments[n].frames

IndTypes ==
    /\ \A n \in DOMAIN segments : segments[n] \in [frames : Seq(Nat), closed : BOOLEAN]
    /\ view \in Seq(Nat)

\* The batch is what was taken last, and complete from the unmarshalling on.
IndBatch ==
    /\ Len(message_buffer) <= taken
    /\ \A i \in 1 .. Len(message_buffer) :
          message_buffer[i].frame = taken - Len(message_buffer) + i
    /\ pc \in {"number", "open", "write", "release"} => Len(message_buffer) = FrameRate
    /\ pc \in {"fetch", "number", "open", "dead"} => written = 0
    /\ pc = "release" => written = FrameRate
    /\ pc = "dead" => message_buffer = <<>>

\* The file that is being written is the one behind the last one listed; until the
\* writer is released it is the last one listed.
IndFile ==
    /\ pc \in {"open", "write"} => segmentNumber = Len(playlist)
    /\ pc = "release" => playlist # <<>> /\ segmentNumber = Len(playlist) - 1
    /\ pc \in {"write", "release"} =>
          /\ segmentNumber \in DOMAIN segments
          /\ Len(Frames(segmentNumber)) = written
          /\ \A i \in 1 .. written : Frames(segmentNumber)[i] = message_buffer[i].frame

InWork(n) == pc = "release" /\ n = segmentNumber

\* A listed segment holds FrameRate frames that follow each other, all taken before
\* those of the next one and of the batch; its file is closed or its writer died.
IndListed ==
    /\ \A n \in Listed :
          /\ Len(Frames(n)) = FrameRate
          /\ \A p \in 1 .. FrameRate : Frames(n)[p] = Frames(n)[1] + p - 1
          /\ Frames(n)[1] >= 1
          /\ segments[n].closed \/ n \in torn \/ InWork(n)
          /\ ~InWork(n) => Frames(n)[FrameRate] <= taken - Len(message_buffer)
    /\ \A n, m \in Listed : n < m => Frames(n)[FrameRate] < Frames(m)[1]

\* What a client has is a beginning of the playlist.
IndView ==
    /\ Len(view) <= Len(playlist)
    /\ \A i \in 1 .. Len(view) : view[i] = i - 1

IndInv == /\ TypeOK /\ IndTypes /\ IndBatch /\ PlaylistConsecutive
          /\ IndFile /\ IndListed /\ IndView /\ FramesAccounted /\ FollowerServed

-----------------------------------------------------------------------------
(* The playlist, the files and the frames.                                 *)

\* The next number is the number of segments listed.
LEMMA PlaylistNames ==
    ASSUME TypeOK, PlaylistConsecutive
    PROVE  /\ Range(playlist) = Listed /\ Listed \subseteq DOMAIN segments
           /\ Len(playlist) \in Nat /\ (playlist = <<>> <=> Len(playlist) = 0)
           /\ LastSegmentPlusOne = Len(playlist)
<1>1. /\ playlist \in Seq(Nat) /\ Len(playlist) \in Nat /\ DOMAIN playlist = 1 .. Len(playlist)
      /\ (playlist = <<>> <=> Len(playlist) = 0)
    BY DEF TypeOK
<1> DEFINE numbers == {playlist[i] : i \in 1 .. Len(playlist)}
<1>2. numbers = Listed
    <2>1. ASSUME NEW n \in Listed PROVE n \in numbers
        <3>1. n + 1 \in 1 .. Len(playlist) /\ playlist[n + 1] = n
            BY <1>1, <2>1 DEF PlaylistConsecutive, Listed
        <3> QED
            BY <3>1
    <2>2. ASSUME NEW i \in 1 .. Len(playlist) PROVE playlist[i] \in Listed
        BY <1>1, <2>2 DEF PlaylistConsecutive, Listed
    <2> QED
        BY <2>1, <2>2
<1>3. Range(playlist) = Listed
    BY <1>1, <1>2 DEF Range
<1>4. CASE playlist # <<>>
    <2>1. Len(playlist) - 1 \in Listed /\ \A n \in Listed : Len(playlist) - 1 >= n
        BY <1>1, <1>4 DEF Listed
    <2>2. ASSUME NEW m \in Listed, \A n \in Listed : m >= n PROVE m = Len(playlist) - 1
        <3>1. m >= Len(playlist) - 1
            BY <2>1, <2>2
        <3>2. m \in Int /\ m <= Len(playlist) - 1
            BY <1>1, <2>2 DEF Listed
        <3>3. Len(playlist) - 1 \in Int
            BY <1>1
        <3>4. \A x, y \in Int : x >= y /\ x <= y => x = y
            OBVIOUS
        <3> QED
            BY <3>1, <3>2, <3>3, <3>4
    <2>3. Max(Listed) = Len(playlist) - 1
        BY <2>1, <2>2 DEF Max
    <2>4. LastSegmentPlusOne = Max(Listed) + 1
        BY <1>2, <1>4 DEF LastSegmentPlusOne
    <2> QED
        BY <1>1, <1>3, <2>3, <2>4 DEF PlaylistConsecutive
<1>5. CASE playlist = <<>>
    BY <1>1, <1>3, <1>5 DEF LastSegmentPlusOne, PlaylistConsecutive
<1> QED
    BY <1>4, <1>5

LEMMA SegmentSet ==
    ASSUME NEW n, NEW file, SetSegment(n, file)
    PROVE  /\ DOMAIN segments' = DOMAIN segments \cup {n}
           /\ segments'[n] = file
           /\ \A k \in DOMAIN segments \ {n} : segments'[k] = segments[k]
BY DEF SetSegment

\* The types of what a step does to the files.
LEMMA SegmentsTyped ==
    ASSUME TypeOK, IndTypes, NEW n \in Nat, NEW file \in [frames : Seq(Nat), closed : BOOLEAN],
           SetSegment(n, file)
    PROVE  /\ IsFiniteSet(DOMAIN segments') /\ DOMAIN segments' \subseteq Nat
           /\ \A k \in DOMAIN segments' :
                  /\ segments'[k] \in [frames : Seq(Nat), closed : BOOLEAN]
                  /\ segments'[k].frames \in Seq(Nat) /\ segments'[k].closed \in BOOLEAN
<1>1. IsFiniteSet(DOMAIN segments \cup {n})
    BY FS_AddElement DEF TypeOK
<1>2. /\ DOMAIN segments' = DOMAIN segments \cup {n} /\ segments'[n] = file
      /\ \A k \in DOMAIN segments \ {n} : segments'[k] = segments[k]
    BY SegmentSet
<1>3. \A k \in DOMAIN segments' : segments'[k] \in [frames : Seq(Nat), closed : BOOLEAN]
    BY <1>2 DEF IndTypes
<1> QED
    BY <1>1, <1>2, <1>3 DEF TypeOK

LEMMA ListedFrames ==
    ASSUME TypeOK, PlaylistConsecutive
    PROVE  \A f : f \in PlaylistFrames <=>
               \E n \in Listed : \E p \in 1 .. Len(Frames(n)) : f = Frames(n)[p]
<1>1. \A n \in Listed : DOMAIN Frames(n) = 1 .. Len(Frames(n))
    BY PlaylistNames DEF TypeOK, Frames
<1> QED
    BY <1>1, PlaylistNames DEF PlaylistFrames, Range, Frames

\* The frames of the batch are the last ones taken.
LEMMA BatchFrames ==
    ASSUME TypeOK, IndBatch
    PROVE  /\ taken \in Nat /\ Len(message_buffer) \in Nat
           /\ FramesOf(message_buffer) = taken - Len(message_buffer) + 1 .. taken
<1>1. taken \in Nat /\ Len(message_buffer) \in Nat
    BY DEF TypeOK
<1>2. ASSUME NEW f \in taken - Len(message_buffer) + 1 .. taken
      PROVE  f \in FramesOf(message_buffer)
    <2>1. f - taken + Len(message_buffer) \in 1 .. Len(message_buffer)
        BY <1>1
    <2>2. message_buffer[f - taken + Len(message_buffer)].frame = f
        BY <1>1, <2>1 DEF IndBatch
    <2> QED
        BY <2>1, <2>2 DEF FramesOf
<1>3. ASSUME NEW i \in 1 .. Len(message_buffer)
      PROVE  message_buffer[i].frame \in taken - Len(message_buffer) + 1 .. taken
    BY <1>1, <1>3 DEF IndBatch
<1> QED
    BY <1>1, <1>2, <1>3 DEF FramesOf

\* A step that leaves the playlist and its files alone, and no file without a reason
\* to be open.
LEMMA ListedStay ==
    ASSUME TypeOK, PlaylistConsecutive, IndListed,
           DOMAIN segments \subseteq DOMAIN segments', UNCHANGED <<playlist, headers>>,
           \A n \in Listed : segments'[n].frames = segments[n].frames,
           \A n \in Listed : segments[n].closed \/ InWork(n) \/ n \in torn =>
               segments'[n].closed \/ InWork(n)' \/ n \in torn',
           \A n \in Listed : InWork(n)' => InWork(n),
           \A n \in Listed : InWork(n) /\ ~InWork(n)' =>
               Frames(n)[FrameRate] <= taken' - Len(message_buffer'),
           taken' - Len(message_buffer') \in Int,
           taken' - Len(message_buffer') >= taken - Len(message_buffer)
    PROVE  /\ IndListed' /\ PlaylistConsecutive'
           /\ Listed' = Listed /\ PlaylistFrames' = PlaylistFrames
<1>1. Listed' = Listed /\ \A n \in Listed : segments'[n].frames = segments[n].frames
    BY DEF Listed
<1>2. PlaylistConsecutive'
    BY DEF PlaylistConsecutive
<1>3. PlaylistFrames' = PlaylistFrames
    BY PlaylistNames DEF PlaylistFrames
<1>4. \A n \in Listed : Frames(n) \in Seq(Nat)
    BY PlaylistNames DEF TypeOK, Frames
<1>5. FrameRate \in 1 .. FrameRate /\ taken \in Nat /\ Len(message_buffer) \in Nat
    BY ExporterAssumption DEF TypeOK
<1>6. \A n \in Listed : Frames(n)[FrameRate] \in Nat
    BY <1>4, <1>5 DEF IndListed
<1>7. ASSUME NEW n \in Listed, ~InWork(n)'
      PROVE  segments'[n].frames[FrameRate] <= taken' - Len(message_buffer')
    <2>1. segments'[n].frames[FrameRate] = Frames(n)[FrameRate] /\ Frames(n)[FrameRate] \in Nat
        BY <1>1, <1>6 DEF Frames
    <2>2. CASE InWork(n)
        BY <1>7, <2>1, <2>2
    <2>3. CASE ~InWork(n)
        <3>1. Frames(n)[FrameRate] <= taken - Len(message_buffer)
            BY <2>3 DEF IndListed
        <3> HIDE DEF IndListed
        <3> QED
            BY <1>5, <2>1, <3>1
    <2> QED
        BY <2>2, <2>3
<1>8. \A n \in Listed : segments'[n].closed \/ n \in torn' \/ InWork(n)'
    BY DEF IndListed
<1>9. IndListed'
    BY <1>1, <1>7, <1>8 DEF IndListed, Frames
<1> QED
    BY <1>1, <1>2, <1>3, <1>9

\* Nothing that a client has changes.
LEMMA ReaderStays ==
    ASSUME IndView, FollowerServed, UNCHANGED reader, torn \subseteq torn',
           Len(playlist') \in Nat, Len(playlist) \in Nat, Len(view) \in Nat,
           Len(playlist') >= Len(playlist)
    PROVE  IndView' /\ FollowerServed'
BY DEF IndView, FollowerServed, reader

\* A step that takes no frame, loses none, and keeps the batch.
LEMMA AccountStays ==
    ASSUME FramesAccounted, UNCHANGED <<taken, message_buffer, lost, deaths>>,
           PlaylistFrames' = PlaylistFrames, pc' # "release" => pc # "release"
    PROVE  FramesAccounted'
BY DEF FramesAccounted

LEMMA FramesOfAppend ==
    ASSUME NEW S, NEW b \in Seq(S), NEW x \in S
    PROVE  FramesOf(Append(b, x)) = FramesOf(b) \cup {x.frame}
<1>1. /\ Len(Append(b, x)) = Len(b) + 1 /\ Len(b) \in Nat
      /\ \A i \in 1 .. Len(b) : Append(b, x)[i] = b[i]
      /\ Append(b, x)[Len(b) + 1] = x
    OBVIOUS
<1>2. 1 .. Len(b) + 1 = 1 .. Len(b) \cup {Len(b) + 1}
    BY <1>1
<1> QED
    BY <1>1, <1>2 DEF FramesOf

\* What an open or listed file holds of the batch lies in the past.
LEMMA WorkInPast ==
    ASSUME IndInv, pc = "release"
    PROVE  /\ segmentNumber \in Listed /\ Frames(segmentNumber)[FrameRate] <= taken
           /\ FramesOf(message_buffer) \subseteq PlaylistFrames
<1>1. /\ segmentNumber = Len(playlist) - 1 /\ Len(playlist) \in Nat /\ Len(playlist) # 0
      /\ written = FrameRate /\ Len(message_buffer) = FrameRate
      /\ FrameRate \in 1 .. FrameRate /\ FrameRate \in Nat
    BY PlaylistNames, ExporterAssumption DEF IndInv, IndFile, IndBatch
<1>2. segmentNumber \in Listed
    BY <1>1 DEF Listed
<1>3. \A i \in 1 .. FrameRate : Frames(segmentNumber)[i] = message_buffer[i].frame
    BY <1>1 DEF IndInv, IndFile
<1>4. message_buffer[FrameRate].frame = taken /\ taken \in Nat
    BY <1>1 DEF IndInv, IndBatch, TypeOK
<1>5. Len(Frames(segmentNumber)) = FrameRate
    BY <1>1 DEF IndInv, IndFile
<1>6. FramesOf(message_buffer) \subseteq PlaylistFrames
    BY <1>1, <1>2, <1>3, <1>5, ListedFrames DEF FramesOf, IndInv
<1> QED
    BY <1>1, <1>2, <1>3, <1>4, <1>6

-----------------------------------------------------------------------------
(* The steps.                                                              *)

LEMMA FetchNext ==
    ASSUME IndInv, FetchMessage
    PROVE  IndInv'
<1> USE DEF repository, reader
<1>1. PICK x \in [frame : {taken + 1}, size : FrameSizes] :
          message_buffer' = Append(message_buffer, x)
    BY DEF FetchMessage
<1>2. /\ taken \in Nat /\ x.frame = taken + 1 /\ x \in [frame : Nat, size : FrameSizes]
      /\ message_buffer \in Seq([frame : Nat, size : FrameSizes]) /\ Len(message_buffer) \in Nat
    BY <1>1 DEF IndInv, TypeOK
<1>3. /\ message_buffer' \in Seq([frame : Nat, size : FrameSizes])
      /\ Len(message_buffer') = Len(message_buffer) + 1
      /\ \A i \in 1 .. Len(message_buffer) : message_buffer'[i] = message_buffer[i]
      /\ message_buffer'[Len(message_buffer) + 1] = x
    BY <1>1, <1>2
<1>4. /\ pc = "fetch" /\ Len(message_buffer) < FrameRate /\ FrameRate \in Nat
      /\ taken' = taken + 1
      /\ UNCHANGED <<pc, segmentNumber, written, segments, playlist, headers, view, got,
                     lost, torn, deaths>>
    BY ExporterAssumption DEF FetchMessage, BatchHasRoom
<1>5. TypeOK'
    BY <1>2, <1>3, <1>4 DEF IndInv, TypeOK
<1>6. IndTypes'
    BY <1>4 DEF IndInv, IndTypes
<1>7. IndBatch'
    <2>1. ASSUME NEW i \in 1 .. Len(message_buffer')
          PROVE  message_buffer'[i].frame = taken' - Len(message_buffer') + i
        <3>1. CASE i \in 1 .. Len(message_buffer)
            <4>1. message_buffer'[i].frame = taken - Len(message_buffer) + i
                BY <1>3, <3>1 DEF IndInv, IndBatch
            <4> QED
                BY <1>2, <1>3, <1>4, <3>1, <4>1
        <3>2. CASE i = Len(message_buffer) + 1
            BY <1>2, <1>3, <1>4, <3>2
        <3> QED
            BY <1>2, <1>3, <2>1, <3>1, <3>2
    <2>2. Len(message_buffer') <= taken' /\ written = 0
        BY <1>2, <1>3, <1>4 DEF IndInv, IndBatch
    <2> QED
        BY <1>4, <2>1, <2>2 DEF IndBatch
<1>8. IndFile'
    BY <1>4 DEF IndInv, IndFile
<1>9. /\ IndListed' /\ PlaylistConsecutive' /\ PlaylistFrames' = PlaylistFrames
    BY <1>2, <1>3, <1>4, ListedStay DEF IndInv, InWork
<1>10. IndView' /\ FollowerServed'
    BY <1>4 DEF IndInv, IndView, FollowerServed
<1>11. FramesAccounted'
    <2> DEFINE S == [frame : Nat, size : FrameSizes]
    <2>0. message_buffer \in Seq(S) /\ x \in S
        BY <1>2
    <2> HIDE DEF S
    <2>1. FramesOf(Append(message_buffer, x)) = FramesOf(message_buffer) \cup {x.frame}
        BY <2>0, FramesOfAppend
    <2>4. FramesOf(message_buffer') = FramesOf(message_buffer) \cup {taken + 1}
        BY <1>1, <1>2, <2>1
    <2>2. 1 .. taken' = 1 .. taken \cup {taken + 1} /\ taken + 1 \notin 1 .. taken
        BY <1>2, <1>4
    <2>3. taken + 1 \notin PlaylistFrames \cup lost \cup FramesOf(message_buffer)
        BY <2>2 DEF IndInv, FramesAccounted
    <2> QED
        BY <1>4, <1>9, <2>4, <2>2, <2>3 DEF IndInv, FramesAccounted
<1> QED
    BY <1>5, <1>6, <1>7, <1>8, <1>9, <1>10, <1>11 DEF IndInv

LEMMA DiesNext ==
    ASSUME IndInv, Dies
    PROVE  IndInv'
<1> USE DEF repository, reader
<1>1. /\ pc' = "dead" /\ deaths' = deaths + 1 /\ message_buffer' = <<>> /\ written' = 0
      /\ UNCHANGED <<segmentNumber, segments, playlist, headers, view, got, taken>>
      /\ torn \subseteq torn'
    BY DEF Dies
<1>2. /\ FramesOf(message_buffer) = taken - Len(message_buffer) + 1 .. taken
      /\ taken \in Nat /\ Len(message_buffer) \in Nat /\ Len(message_buffer) <= taken
      /\ Len(message_buffer) <= FrameRate /\ FrameRate \in Nat /\ deaths \in Nat
    BY BatchFrames, ExporterAssumption DEF IndInv, IndBatch, TypeOK
<1>3. FramesOf(message_buffer') = {} /\ Len(message_buffer') = 0
    BY <1>1 DEF FramesOf
<1>4. /\ lost' = IF pc = "release" THEN lost ELSE lost \cup FramesOf(message_buffer)
      /\ lost \subseteq 1 .. taken
    BY DEF Dies, IndInv, TypeOK
<1>5. TypeOK'
    <2>1. lost' \subseteq 1 .. taken
        <3>1. \A f \in FramesOf(message_buffer) : f \in 1 .. taken
            BY <1>2
        <3> QED
            BY <1>4, <3>1
    <2>2. <<>> \in Seq([frame : Nat, size : FrameSizes]) /\ Len(<<>>) = 0
        OBVIOUS
    <2> QED
        BY <1>1, <1>2, <2>1, <2>2 DEF IndInv, TypeOK
<1>6. IndTypes' /\ IndBatch' /\ IndFile'
    BY <1>1, <1>2, <1>3 DEF IndInv, IndTypes, IndBatch, IndFile
<1>7. /\ IndListed' /\ PlaylistConsecutive' /\ PlaylistFrames' = PlaylistFrames
    <2>1. \A n \in Listed : InWork(n) => n \in torn' /\ Frames(n)[FrameRate] <= taken
        BY WorkInPast DEF InWork, Dies
    <2>2. \A n : ~InWork(n)'
        BY <1>1 DEF InWork
    <2> QED
        BY <1>1, <1>2, <1>3, <2>1, <2>2, ListedStay DEF IndInv
<1>8. IndView' /\ FollowerServed'
    BY <1>1 DEF IndInv, IndView, FollowerServed
<1>9. FramesAccounted'
    <2>1. PlaylistFrames \cup FramesOf(message_buffer) \cup lost = PlaylistFrames \cup lost'
        BY <1>4, WorkInPast
    <2>2. lost' \cap PlaylistFrames = {}
        BY <1>4 DEF IndInv, FramesAccounted
    <2>3. IsFiniteSet(lost) /\ Cardinality(lost) \in Nat
        <3>1. IsFiniteSet(1 .. taken)
            BY <1>2, FS_Interval
        <3>2. IsFiniteSet(lost)
            BY <1>4, <3>1, FS_Subset
        <3> QED
            BY <3>2, FS_CardinalityType
    <2>4. /\ IsFiniteSet(FramesOf(message_buffer))
          /\ Cardinality(FramesOf(message_buffer)) <= FrameRate
        <3> DEFINE a == taken - Len(message_buffer) + 1
        <3>1. a \in Int /\ taken \in Int
            BY <1>2
        <3> HIDE DEF a
        <3>2. /\ IsFiniteSet(a .. taken)
              /\ Cardinality(a .. taken) = IF a > taken THEN 0 ELSE taken - a + 1
            BY <3>1, FS_Interval
        <3> QED
            BY <1>2, <3>2 DEF a
    <2>5. Cardinality(lost') <= Cardinality(lost) + FrameRate
        <3>1. CASE lost' = lost
            BY <1>2, <2>3, <3>1
        <3>2. CASE lost' = lost \cup FramesOf(message_buffer)
            <4>1. Cardinality(lost \cup FramesOf(message_buffer)) =
                      Cardinality(lost) + Cardinality(FramesOf(message_buffer))
                          - Cardinality(lost \cap FramesOf(message_buffer))
                BY <2>3, <2>4, FS_Union
            <4>2. lost \cap FramesOf(message_buffer) = {}
                BY DEF IndInv, FramesAccounted
            <4>3. Cardinality(FramesOf(message_buffer)) \in Nat
                BY <2>4, FS_CardinalityType
            <4>4. Cardinality(lost \cap FramesOf(message_buffer)) = 0
                BY <4>2, FS_EmptySet
            <4>5. \A x, y, z \in Nat : y <= z => x + y - 0 <= x + z
                OBVIOUS
            <4> QED
                BY <1>2, <2>3, <2>4, <3>2, <4>1, <4>3, <4>4, <4>5
        <3> QED
            BY <1>4, <3>1, <3>2
    <2>6. Cardinality(lost') <= FrameRate * deaths'
        <3>1. Cardinality(lost) <= FrameRate * deaths /\ FrameRate * deaths \in Nat
            BY <1>2 DEF IndInv, FramesAccounted
        <3>2. FrameRate * (deaths + 1) = FrameRate * deaths + FrameRate
            BY <1>2
        <3>3. Cardinality(lost') \in Int
            <4>1. IsFiniteSet(lost')
                BY <1>4, <2>3, <2>4, FS_Union
            <4> QED
                BY <4>1, FS_CardinalityType
        <3> QED
            BY <1>1, <1>2, <2>3, <2>5, <3>1, <3>2, <3>3
    <2> QED
        BY <1>1, <1>3, <1>7, <2>1, <2>2, <2>6 DEF IndInv, FramesAccounted
<1> QED
    BY <1>5, <1>6, <1>7, <1>8, <1>9 DEF IndInv

LEMMA UnmarshalNext ==
    ASSUME IndInv, UnmarshalMessages
    PROVE  IndInv'
<1> USE DEF repository, reader
<1>1. /\ pc = "fetch" /\ pc' = "number"
      /\ UNCHANGED <<message_buffer, segmentNumber, written, segments, playlist, headers,
                     view, got, taken, lost, torn, deaths>>
    BY DEF UnmarshalMessages
<1>2. /\ Len(message_buffer) = FrameRate /\ taken \in Nat
    BY ExporterAssumption DEF UnmarshalMessages, BatchHasRoom, IndInv, TypeOK
<1>3. TypeOK' /\ IndTypes' /\ IndBatch' /\ IndFile'
    BY <1>1, <1>2 DEF IndInv, TypeOK, IndTypes, IndBatch, IndFile
<1>4. IndListed' /\ PlaylistConsecutive' /\ PlaylistFrames' = PlaylistFrames
    BY <1>1, <1>2, ExporterAssumption, ListedStay DEF IndInv, InWork
<1>5. IndView' /\ FollowerServed' /\ FramesAccounted'
    BY <1>1, <1>4, AccountStays DEF IndInv, IndView, FollowerServed
<1> QED
    BY <1>3, <1>4, <1>5 DEF IndInv

LEMMA NumberNext ==
    ASSUME IndInv, ReadLastSegmentNumber
    PROVE  IndInv'
<1> USE DEF repository, reader
<1>1. /\ pc = "number" /\ pc' = "open" /\ segmentNumber' = Len(playlist)
      /\ UNCHANGED <<message_buffer, written, segments, playlist, headers,
                     view, got, taken, lost, torn, deaths>>
    BY PlaylistNames DEF ReadLastSegmentNumber, IndInv
<1>2. taken \in Nat /\ Len(message_buffer) \in Nat /\ Len(playlist) \in Nat
    BY DEF IndInv, TypeOK
<1>3. TypeOK' /\ IndTypes' /\ IndBatch' /\ IndFile'
    BY <1>1, <1>2 DEF IndInv, TypeOK, IndTypes, IndBatch, IndFile
<1>4. IndListed' /\ PlaylistConsecutive' /\ PlaylistFrames' = PlaylistFrames
    BY <1>1, <1>2, ListedStay DEF IndInv, InWork
<1>5. IndView' /\ FollowerServed' /\ FramesAccounted'
    BY <1>1, <1>4, AccountStays DEF IndInv, IndView, FollowerServed
<1> QED
    BY <1>3, <1>4, <1>5 DEF IndInv

LEMMA OpenNext ==
    ASSUME IndInv, OpenWriter
    PROVE  IndInv'
<1> USE DEF repository, reader
<1>1. /\ pc = "open" /\ pc' = "write"
      /\ SetSegment(segmentNumber, [frames |-> <<>>, closed |-> FALSE])
      /\ UNCHANGED <<message_buffer, segmentNumber, written, playlist, headers,
                     view, got, taken, lost, torn, deaths>>
    BY DEF OpenWriter
<1>2. /\ taken \in Nat /\ Len(message_buffer) \in Nat /\ segmentNumber \in Nat
      /\ segmentNumber = Len(playlist) /\ written = 0
    BY <1>1 DEF IndInv, TypeOK, IndFile, IndBatch
<1>3. [frames |-> <<>>, closed |-> FALSE] \in [frames : Seq(Nat), closed : BOOLEAN]
    OBVIOUS
<1>4. /\ DOMAIN segments' = DOMAIN segments \cup {segmentNumber}
      /\ segments'[segmentNumber] = [frames |-> <<>>, closed |-> FALSE]
      /\ \A k \in DOMAIN segments \ {segmentNumber} : segments'[k] = segments[k]
    BY <1>1, SegmentSet
<1>5. TypeOK' /\ IndTypes'
    BY <1>1, <1>2, <1>3, SegmentsTyped DEF IndInv, TypeOK, IndTypes
<1>6. IndBatch' /\ IndFile'
    BY <1>1, <1>2, <1>4 DEF IndInv, IndBatch, IndFile, Frames
<1>7. \A n \in Listed : segments'[n] = segments[n]
    BY <1>2, <1>4, PlaylistNames DEF Listed, IndInv
<1>8. IndListed' /\ PlaylistConsecutive' /\ PlaylistFrames' = PlaylistFrames
    BY <1>1, <1>2, <1>4, <1>7, ListedStay DEF IndInv, InWork
<1>9. IndView' /\ FollowerServed' /\ FramesAccounted'
    BY <1>1, <1>8, AccountStays DEF IndInv, IndView, FollowerServed
<1> QED
    BY <1>5, <1>6, <1>8, <1>9 DEF IndInv

LEMMA WriteNext ==
    ASSUME IndInv, WriteFrame
    PROVE  IndInv'
<1> USE DEF repository, reader
<1> DEFINE f == message_buffer[written + 1].frame
           file == [segments[segmentNumber] EXCEPT !.frames = Append(@, f)]
<1>1. /\ pc = "write" /\ written < Len(message_buffer) /\ written' = written + 1
      /\ SetSegment(segmentNumber, file)
      /\ UNCHANGED <<pc, message_buffer, segmentNumber, playlist, headers,
                     view, got, taken, lost, torn, deaths>>
    BY DEF WriteFrame
<1>2. /\ taken \in Nat /\ Len(message_buffer) \in Nat /\ segmentNumber \in Nat
      /\ segmentNumber = Len(playlist) /\ written \in Nat
      /\ segmentNumber \in DOMAIN segments
      /\ Len(Frames(segmentNumber)) = written
      /\ \A i \in 1 .. written : Frames(segmentNumber)[i] = message_buffer[i].frame
    BY <1>1 DEF IndInv, TypeOK, IndFile
<1>3. f \in Nat
    <2>1. written + 1 \in 1 .. Len(message_buffer)
        BY <1>1, <1>2
    <2> DEFINE S == [frame : Nat, size : FrameSizes]
    <2>2. message_buffer \in Seq(S)
        BY DEF IndInv, TypeOK
    <2> HIDE DEF S
    <2>3. message_buffer[written + 1] \in S
        BY <2>1, <2>2
    <2> QED
        BY <2>3 DEF S
<1>4. /\ segments[segmentNumber] \in [frames : Seq(Nat), closed : BOOLEAN]
      /\ Frames(segmentNumber) \in Seq(Nat)
    BY <1>2 DEF IndInv, IndTypes, Frames
<1> HIDE DEF f
<1>5. /\ file \in [frames : Seq(Nat), closed : BOOLEAN]
      /\ file.frames = Append(Frames(segmentNumber), f)
    <2> DEFINE longer == Append(Frames(segmentNumber), f)
    <2>1. longer \in Seq(Nat)
        BY <1>3, <1>4
    <2>2. file = [segments[segmentNumber] EXCEPT !.frames = longer]
        BY DEF Frames
    <2> HIDE DEF longer, file
    <2>3. file \in [frames : Seq(Nat), closed : BOOLEAN] /\ file.frames = longer
        BY <1>4, <2>1, <2>2
    <2> QED
        BY <2>3 DEF longer
<1> HIDE DEF file
<1>6. /\ DOMAIN segments' = DOMAIN segments \cup {segmentNumber}
      /\ segments'[segmentNumber] = file
      /\ \A k \in DOMAIN segments \ {segmentNumber} : segments'[k] = segments[k]
    BY <1>1, SegmentSet
<1>7. TypeOK' /\ IndTypes'
    BY SMTT(60), <1>1, <1>2, <1>5, SegmentsTyped DEF IndInv, TypeOK, IndTypes
<1>8. IndBatch'
    BY <1>1 DEF IndInv, IndBatch
<1>9. IndFile'
    <2>1. /\ Len(file.frames) = written + 1
          /\ \A i \in 1 .. written : file.frames[i] = Frames(segmentNumber)[i]
          /\ file.frames[written + 1] = f
        BY SMTT(60), <1>2, <1>3, <1>4, <1>5
    <2>2. \A i \in 1 .. written + 1 : file.frames[i] = message_buffer[i].frame
        BY <1>2, <2>1 DEF f
    <2> QED
        BY <1>1, <1>2, <1>6, <2>1, <2>2 DEF IndFile, Frames
<1>10. \A n \in Listed : segments'[n] = segments[n]
    BY <1>2, <1>6, PlaylistNames DEF Listed, IndInv
<1>11. IndListed' /\ PlaylistConsecutive' /\ PlaylistFrames' = PlaylistFrames
    BY <1>1, <1>2, <1>6, <1>10, ListedStay DEF IndInv, InWork
<1>12. IndView' /\ FollowerServed' /\ FramesAccounted'
    BY <1>1, <1>11, AccountStays DEF IndInv, IndView, FollowerServed
<1> QED
    BY <1>7, <1>8, <1>9, <1>11, <1>12 DEF IndInv

LEMMA AppendNext ==
    ASSUME IndInv, AppendPlaylist
    PROVE  IndInv'
<1> USE DEF repository, reader
<1>1. /\ pc = "write" /\ pc' = "release" /\ written = Len(message_buffer)
      /\ playlist' = Append(playlist, segmentNumber)
      /\ headers' = IF playlist = <<>> THEN headers + 1 ELSE headers
      /\ UNCHANGED <<message_buffer, segmentNumber, written, segments,
                     view, got, taken, lost, torn, deaths>>
    BY DEF AppendPlaylist, Complete, AppendTo
<1>2. /\ taken \in Nat /\ FrameRate \in Nat /\ FrameRate \in 1 .. FrameRate
      /\ Len(message_buffer) = FrameRate
      /\ segmentNumber \in Nat /\ segmentNumber = Len(playlist)
      /\ segmentNumber \in DOMAIN segments /\ playlist \in Seq(Nat)
    BY <1>1, ExporterAssumption DEF IndInv, TypeOK, IndFile, IndBatch
<1>3. /\ Len(Frames(segmentNumber)) = FrameRate
      /\ \A i \in 1 .. FrameRate : Frames(segmentNumber)[i] = message_buffer[i].frame
    BY <1>1, <1>2 DEF IndInv, IndFile
<1>4. \A i \in 1 .. FrameRate : Frames(segmentNumber)[i] = taken - FrameRate + i
    BY <1>2, <1>3 DEF IndInv, IndBatch
<1>5. /\ playlist' \in Seq(Nat) /\ Len(playlist') = Len(playlist) + 1
      /\ \A i \in 1 .. Len(playlist) : playlist'[i] = playlist[i]
      /\ playlist'[Len(playlist) + 1] = segmentNumber /\ playlist' # <<>>
    BY <1>1, <1>2
<1>6. headers' = 1
    BY <1>1 DEF IndInv, PlaylistConsecutive
<1>7. TypeOK'
    BY <1>1, <1>2, <1>5, <1>6 DEF IndInv, TypeOK
<1>8. IndTypes'
    BY <1>1 DEF IndInv, IndTypes
<1>9. IndBatch'
    BY <1>1, <1>2 DEF IndInv, IndBatch
<1>10. IndFile'
    BY <1>1, <1>2, <1>5 DEF IndInv, IndFile, Frames
<1>11. Listed' = Listed \cup {segmentNumber} /\ segmentNumber \notin Listed
    BY <1>2, <1>5 DEF Listed
<1>12. PlaylistConsecutive' /\ Range(playlist') = Range(playlist) \cup {segmentNumber}
    <2>1. ASSUME NEW i \in 1 .. Len(playlist') PROVE playlist'[i] = i - 1
        <3>1. CASE i \in 1 .. Len(playlist)
            BY <1>5, <3>1 DEF IndInv, PlaylistConsecutive
        <3>2. CASE i = Len(playlist) + 1
            BY <1>2, <1>5, <3>2
        <3> QED
            BY <1>2, <1>5, <2>1, <3>1, <3>2
    <2>2. /\ DOMAIN playlist' = 1 .. Len(playlist) + 1 /\ DOMAIN playlist = 1 .. Len(playlist)
          /\ 1 .. Len(playlist) + 1 = 1 .. Len(playlist) \cup {Len(playlist) + 1}
        BY <1>2, <1>5
    <2>3. Range(playlist') = Range(playlist) \cup {segmentNumber}
        BY <1>5, <2>2 DEF Range
    <2> QED
        BY <1>1, <1>2, <1>5, <1>6, <2>1, <2>3 DEF IndInv, PlaylistConsecutive
<1>13. \A n : InWork(n)' <=> n = segmentNumber
    BY <1>1 DEF InWork
<1>14. \A n \in Listed : Frames(n) \in Seq(Nat)
    BY PlaylistNames DEF IndInv, TypeOK, Frames
<1>15. \A n \in Listed : Frames(n)[FrameRate] \in Nat /\ Frames(n)[FrameRate] <= taken - FrameRate
    BY <1>1, <1>2, <1>14 DEF IndInv, IndListed, InWork
<1>16. Frames(segmentNumber)[1] = taken - FrameRate + 1 /\ taken - FrameRate >= 0
    BY <1>2, <1>4 DEF IndInv, IndBatch
<1>17. IndListed'
    <2>1. ASSUME NEW n \in Listed
          PROVE  /\ Len(Frames(n)) = FrameRate
                 /\ \A p \in 1 .. FrameRate : Frames(n)[p] = Frames(n)[1] + p - 1
                 /\ Frames(n)[1] >= 1
                 /\ segments[n].closed \/ n \in torn
                 /\ Frames(n)[FrameRate] <= taken - Len(message_buffer)
        BY <1>1 DEF IndInv, IndListed, InWork
    <2>2. /\ \A p \in 1 .. FrameRate :
                 Frames(segmentNumber)[p] = Frames(segmentNumber)[1] + p - 1
          /\ Frames(segmentNumber)[1] >= 1
        BY <1>2, <1>4, <1>16
    <2>3. ASSUME NEW n \in Listed', NEW m \in Listed', n < m
          PROVE  Frames(n)[FrameRate] < Frames(m)[1]
        <3>1. n # segmentNumber
            BY <1>2, <1>11, <2>3 DEF Listed
        <3>2. CASE m \in Listed
            BY <1>11, <2>3, <3>1, <3>2 DEF IndInv, IndListed
        <3>3. CASE m = segmentNumber
            BY <1>2, <1>11, <1>15, <1>16, <3>1, <3>3
        <3> QED
            BY <1>11, <3>2, <3>3
    <2> QED
        BY <1>1, <1>3, <1>11, <1>13, <2>1, <2>2, <2>3 DEF IndListed, Frames
<1>18. IndView' /\ FollowerServed'
    BY <1>1, <1>2, <1>5 DEF IndInv, IndView, FollowerServed, TypeOK, IndTypes
<1>19. PlaylistFrames' = PlaylistFrames \cup FramesOf(message_buffer)
    <2>1. PlaylistFrames' = PlaylistFrames \cup Range(Frames(segmentNumber))
        BY <1>1, <1>12 DEF PlaylistFrames, Frames
    <2>2. DOMAIN Frames(segmentNumber) = 1 .. FrameRate
        <3>1. Frames(segmentNumber) \in Seq(Nat)
            BY <1>2 DEF IndInv, TypeOK, Frames
        <3> QED
            BY <1>3, <3>1
    <2>3. Range(Frames(segmentNumber)) = FramesOf(message_buffer)
        BY <1>2, <1>3, <2>2 DEF Range, FramesOf
    <2> QED
        BY <2>1, <2>3
<1>20. FramesAccounted'
    BY <1>1, <1>19 DEF IndInv, FramesAccounted
<1> QED
    BY <1>7, <1>8, <1>9, <1>10, <1>12, <1>17, <1>18, <1>20 DEF IndInv

LEMMA ReleaseNext ==
    ASSUME IndInv, ReleaseWriter
    PROVE  IndInv'
<1> USE DEF repository, reader
<1> DEFINE file == [segments[segmentNumber] EXCEPT !.closed = TRUE]
<1>1. /\ pc = "release" /\ pc' = "fetch" /\ message_buffer' = <<>> /\ written' = 0
      /\ SetSegment(segmentNumber, file)
      /\ UNCHANGED <<segmentNumber, playlist, headers, view, got, taken, lost, torn, deaths>>
    BY DEF ReleaseWriter, Close
<1>2. /\ taken \in Nat /\ Len(message_buffer) \in Nat /\ segmentNumber \in Nat
      /\ segmentNumber \in DOMAIN segments /\ Len(message_buffer) <= taken /\ FrameRate \in Nat
    BY <1>1, ExporterAssumption DEF IndInv, TypeOK, IndFile, IndBatch
<1>3. segments[segmentNumber] \in [frames : Seq(Nat), closed : BOOLEAN]
    BY <1>2 DEF IndInv, IndTypes
<1>4. /\ file \in [frames : Seq(Nat), closed : BOOLEAN]
      /\ file.frames = segments[segmentNumber].frames /\ file.closed
    BY <1>3
<1> HIDE DEF file
<1>5. /\ DOMAIN segments' = DOMAIN segments \cup {segmentNumber}
      /\ segments'[segmentNumber] = file
      /\ \A k \in DOMAIN segments \ {segmentNumber} : segments'[k] = segments[k]
    BY <1>1, SegmentSet
<1>6. FramesOf(message_buffer') = {} /\ Len(message_buffer') = 0
    BY <1>1 DEF FramesOf
<1>7. TypeOK' /\ IndTypes'
    <2>1. <<>> \in Seq([frame : Nat, size : FrameSizes]) /\ Len(<<>>) = 0
        OBVIOUS
    <2> QED
        BY <1>1, <1>2, <1>4, <2>1, SegmentsTyped DEF IndInv, TypeOK, IndTypes
<1>8. IndBatch' /\ IndFile'
    BY <1>1, <1>2, <1>6 DEF IndBatch, IndFile
<1>9. \A n \in Listed : /\ segments'[n].frames = segments[n].frames
                        /\ segments[n].closed => segments'[n].closed
    BY <1>4, <1>5, PlaylistNames DEF IndInv
<1>10. IndListed' /\ PlaylistConsecutive' /\ PlaylistFrames' = PlaylistFrames
    <2>1. \A n \in Listed : InWork(n) =>
              segments'[n].closed /\ Frames(n)[FrameRate] <= taken' - Len(message_buffer')
        BY <1>1, <1>2, <1>4, <1>5, <1>6, WorkInPast DEF InWork
    <2>2. \A n : ~InWork(n)'
        BY <1>1 DEF InWork
    <2> QED
        BY <1>1, <1>2, <1>5, <1>6, <1>9, <2>1, <2>2, ListedStay DEF IndInv
<1>11. IndView' /\ FollowerServed'
    BY <1>1 DEF IndInv, IndView, FollowerServed
<1>12. FramesAccounted'
    BY <1>1, <1>6, <1>10, WorkInPast DEF IndInv, FramesAccounted
<1> QED
    BY <1>7, <1>8, <1>10, <1>11, <1>12 DEF IndInv

LEMMA RestartNext ==
    ASSUME IndInv, Restart
    PROVE  IndInv'
<1> USE DEF repository, reader
<1>1. /\ pc = "dead" /\ pc' = "fetch"
      /\ UNCHANGED <<message_buffer, segmentNumber, written, segments, playlist, headers,
                     view, got, taken, lost, torn, deaths>>
    BY DEF Restart
<1>2. taken \in Nat /\ Len(message_buffer) \in Nat
    BY DEF IndInv, TypeOK
<1>3. TypeOK' /\ IndTypes' /\ IndBatch' /\ IndFile'
    BY <1>1 DEF IndInv, TypeOK, IndTypes, IndBatch, IndFile
<1>4. IndListed' /\ PlaylistConsecutive' /\ PlaylistFrames' = PlaylistFrames
    BY <1>1, <1>2, ListedStay DEF IndInv, InWork
<1>5. IndView' /\ FollowerServed' /\ FramesAccounted'
    BY <1>1, <1>4, AccountStays DEF IndInv, IndView, FollowerServed
<1> QED
    BY <1>3, <1>4, <1>5 DEF IndInv

LEMMA ReaderNext ==
    ASSUME IndInv, GetPlaylist \/ GetSegment
    PROVE  IndInv'
<1> USE DEF handler, repository
<1>1. UNCHANGED <<pc, message_buffer, segmentNumber, written, segments, playlist, headers,
                  taken, lost, torn, deaths>>
    BY DEF GetPlaylist, GetSegment
<1>2. playlist \in Seq(Nat) /\ Len(playlist) \in Nat
    BY DEF IndInv, TypeOK
<1>3. IndView'
    BY <1>1, <1>2 DEF IndInv, IndView, GetPlaylist, GetSegment, PlaylistConsecutive
<1>4. IndTypes'
    BY <1>1, <1>2 DEF IndInv, IndTypes, GetPlaylist, GetSegment
<1>5. FollowerServed'
    <2>1. CASE GetPlaylist
        BY <2>1 DEF GetPlaylist, FollowerServed
    <2>2. CASE GetSegment
        <3>1. PICK i \in 1 .. Len(view) :
                got' = LET n == view[i] IN
                    IF n \in DOMAIN segments
                    THEN [number |-> n, found |-> TRUE, last |-> i = Len(view),
                          frames |-> segments[n].frames, closed |-> segments[n].closed]
                    ELSE [number |-> n, found |-> FALSE, last |-> i = Len(view),
                          frames |-> <<>>, closed |-> FALSE]
            BY <2>2 DEF GetSegment
        <3>2. Len(view) \in Nat /\ Len(view) <= Len(playlist)
            BY DEF IndInv, IndTypes, IndView
        <3>3. view[i] = i - 1 /\ i - 1 \in Listed
            BY <1>2, <3>2 DEF IndInv, IndView, Listed
        <3>4. i - 1 \in DOMAIN segments
            BY <3>3, PlaylistNames DEF IndInv
        <3>5. got' = [number |-> i - 1, found |-> TRUE, last |-> i = Len(view),
                      frames |-> segments[i - 1].frames, closed |-> segments[i - 1].closed]
            BY <3>1, <3>3, <3>4
        <3>6. /\ Len(segments[i - 1].frames) = FrameRate
              /\ segments[i - 1].closed \/ i - 1 \in torn \/ InWork(i - 1)
            BY <3>3 DEF IndInv, IndListed, Frames
        <3>7. InWork(i - 1) => i = Len(view)
            BY <1>2, <3>2 DEF IndInv, IndFile, InWork
        <3> QED
            BY <1>1, <3>5, <3>6, <3>7 DEF FollowerServed
    <2> QED
        BY <2>1, <2>2
<1>6. /\ TypeOK' /\ IndBatch' /\ IndFile' /\ PlaylistConsecutive'
    BY <1>1 DEF IndInv, TypeOK, IndBatch, IndFile, PlaylistConsecutive, Frames
<1>8. FramesAccounted'
    BY <1>1, AccountStays DEF IndInv, PlaylistFrames
<1>7. IndListed'
    BY <1>1 DEF IndInv, IndListed, Listed, Frames, InWork
<1> QED
    BY <1>3, <1>4, <1>5, <1>6, <1>7, <1>8 DEF IndInv

-----------------------------------------------------------------------------
(* The theorems.                                                           *)

LEMMA IndInit == Init => IndInv
<1> SUFFICES ASSUME Init PROVE IndInv
    OBVIOUS
<1>1. /\ Len(playlist) = 0 /\ Len(message_buffer) = 0 /\ Len(view) = 0 /\ DOMAIN segments = {}
      /\ playlist = <<>> /\ headers = 0 /\ lost = {} /\ taken = 0 /\ deaths = 0
      /\ pc = "fetch" /\ got = None /\ written = 0
      /\ message_buffer = <<>> /\ view = <<>> /\ segmentNumber = 0
    BY DEF Init
<1>2. IsFiniteSet({}) /\ Cardinality({}) = 0
    BY FS_EmptySet
<1>3. Range(playlist) = {} /\ PlaylistFrames = {} /\ FramesOf(message_buffer) = {}
    BY <1>1 DEF Range, PlaylistFrames, FramesOf
<1>4. TypeOK /\ IndTypes
    BY <1>1, <1>2, ExporterAssumption DEF TypeOK, IndTypes
<1>5. IndBatch /\ IndFile /\ IndView /\ FollowerServed /\ IndListed
    BY <1>1 DEF IndBatch, IndFile, IndView, FollowerServed, IndListed, Listed
<1>6. PlaylistConsecutive
    BY <1>1, <1>3 DEF PlaylistConsecutive
<1>7. FramesAccounted
    <2>1. FrameRate * deaths = 0
        BY <1>1, ExporterAssumption
    <2> QED
        BY <1>1, <1>2, <1>3, <2>1 DEF FramesAccounted
<1> QED
    BY <1>4, <1>5, <1>6, <1>7 DEF IndInv

LEMMA IndNext == IndInv /\ [Next]_vars => IndInv'
<1> SUFFICES ASSUME IndInv, [Next]_vars PROVE IndInv'
    OBVIOUS
<1>1. CASE Export
    BY <1>1, UnmarshalNext, NumberNext, OpenNext, WriteNext, AppendNext, ReleaseNext DEF Export
<1>2. CASE Fail
    BY <1>2, DiesNext DEF Fail, UnmarshalThrows, OpenFails, WrongSize, Killed
<1>3. CASE UNCHANGED vars
    BY SMTT(60), <1>3 DEF vars, IndInv, TypeOK, IndTypes, IndBatch, IndFile, IndListed, IndView, InWork,
                Listed, Frames, PlaylistConsecutive, FramesAccounted, PlaylistFrames,
                FollowerServed
<1> QED
    BY <1>1, <1>2, <1>3, FetchNext, RestartNext, ReaderNext DEF Next

LEMMA Inductive == Spec => []IndInv
BY IndInit, IndNext, PTL DEF Spec

\* Types, for segments of any length and any number of deaths.
THEOREM ExporterTypeCorrect == Spec => []TypeOK
<1>1. IndInv => TypeOK
    BY DEF IndInv
<1> QED
    BY <1>1, Inductive, PTL

\* The playlist has its header once and names the segments 0, 1, 2, ...
THEOREM PlaylistIsConsecutive == Spec => []PlaylistConsecutive
<1>1. IndInv => PlaylistConsecutive
    BY DEF IndInv
<1> QED
    BY <1>1, Inductive, PTL

\* Every frame is in a listed segment, in the batch, or went with a handler, and no
\* handler takes more than one batch with it.
THEOREM FramesAreAccounted == Spec => []FramesAccounted
<1>1. IndInv => FramesAccounted
    BY DEF IndInv
<1> QED
    BY <1>1, Inductive, PTL

\* The listed segments show the frames in the order they were taken.
THEOREM FramesAreInOrder == Spec => []FramesInOrder
<1>1. IndInv => FramesInOrder
    <2> SUFFICES ASSUME IndInv, NEW i \in 1 .. Len(playlist)
                 PROVE  LET frames == segments[playlist[i]].frames IN
                        /\ Len(frames) = FrameRate
                        /\ \A p \in 2 .. FrameRate : frames[p - 1] < frames[p]
                        /\ i > 1 => segments[playlist[i - 1]].frames[FrameRate] < frames[1]
        BY DEF FramesInOrder
    <2>1. /\ Len(playlist) \in Nat /\ playlist[i] = i - 1 /\ i - 1 \in Listed
          /\ i > 1 => playlist[i - 1] = i - 2 /\ i - 2 \in Listed
        BY DEF IndInv, TypeOK, PlaylistConsecutive, Listed
    <2>2. /\ Len(Frames(i - 1)) = FrameRate
          /\ \A p \in 1 .. FrameRate : Frames(i - 1)[p] = Frames(i - 1)[1] + p - 1
          /\ i > 1 => Frames(i - 2)[FrameRate] < Frames(i - 1)[1]
        BY <2>1 DEF IndInv, IndListed
    <2>3. Frames(i - 1)[1] \in Nat /\ FrameRate \in Nat
        <3>1. Frames(i - 1) \in Seq(Nat)
            BY <2>1, PlaylistNames DEF IndInv, TypeOK, Frames
        <3> QED
            BY <2>2, <3>1, ExporterAssumption
    <2>4. \A p \in 2 .. FrameRate : Frames(i - 1)[p - 1] < Frames(i - 1)[p]
        <3> TAKE p \in 2 .. FrameRate
        <3>1. /\ p \in 1 .. FrameRate /\ p - 1 \in 1 .. FrameRate
            BY <2>3
        <3>2. Frames(i - 1)[p] = Frames(i - 1)[1] + p - 1
            BY <2>2, <3>1
        <3>3. Frames(i - 1)[p - 1] = Frames(i - 1)[1] + (p - 1) - 1
            BY <2>2, <3>1
        <3> QED
            BY <2>3, <3>1, <3>2, <3>3
    <2> QED
        BY <2>1, <2>2, <2>4 DEF Frames
<1> QED
    BY <1>1, Inductive, PTL

\* The playlist plays the segments 0, 1, 2, ... with the frames as they came.
THEOREM PlaylistIsInOrder == Spec => []PlaylistInOrder
<1>1. PlaylistConsecutive /\ FramesInOrder => PlaylistInOrder
    BY DEF PlaylistInOrder
<1> QED
    BY <1>1, PlaylistIsConsecutive, FramesAreInOrder, PTL

\* A client finds every file a playlist named, with all its frames.
THEOREM FollowerIsServed == Spec => []FollowerServed
<1>1. IndInv => FollowerServed
    BY DEF IndInv
<1> QED
    BY <1>1, Inductive, PTL

\* What the playlist names stays named, and no handler writes into it again.
THEOREM SegmentsAreKept == Spec => SegmentsKept
<1> DEFINE Kept == /\ Len(playlist') >= Len(playlist)
                   /\ \A n \in Range(playlist) :
                         /\ n \in Range(playlist') /\ segments'[n].frames = segments[n].frames
                         /\ segments[n].closed => segments'[n].closed
<1>1. IndInv /\ [Next]_vars => [Kept]_vars
    <2> SUFFICES ASSUME IndInv, [Next]_vars PROVE Kept \/ UNCHANGED vars
        OBVIOUS
    <2>1. Len(playlist) \in Nat /\ playlist \in Seq(Nat)
        BY DEF IndInv, TypeOK
    <2>2. CASE UNCHANGED <<playlist, segments>>
        BY <2>1, <2>2
    <2>3. ASSUME NEW file, SetSegment(segmentNumber, file), UNCHANGED playlist,
                 segmentNumber \in Range(playlist) =>
                     /\ file.frames = segments[segmentNumber].frames
                     /\ segments[segmentNumber].closed => file.closed
          PROVE  Kept
        <3>1. /\ segments'[segmentNumber] = file
              /\ \A k \in DOMAIN segments \ {segmentNumber} : segments'[k] = segments[k]
            BY <2>3, SegmentSet
        <3>2. Range(playlist) \subseteq DOMAIN segments /\ Range(playlist') = Range(playlist)
            BY <2>3 DEF IndInv, PlaylistConsecutive
        <3>3. ASSUME NEW n \in Range(playlist)
              PROVE  /\ segments'[n].frames = segments[n].frames
                     /\ segments[n].closed => segments'[n].closed
            BY <2>3, <3>1, <3>2, <3>3
        <3> QED
            BY <2>1, <2>3, <3>2, <3>3
    <2>4. pc \in {"open", "write"} => segmentNumber \notin Range(playlist)
        BY <2>1, PlaylistNames DEF IndInv, IndFile, Listed
    <2>5. CASE OpenWriter
        BY <2>3, <2>4, <2>5 DEF OpenWriter
    <2>6. CASE WriteFrame
        BY <2>3, <2>4, <2>6 DEF WriteFrame
    <2>7. CASE ReleaseWriter
        <3>1. segments[segmentNumber] \in [frames : Seq(Nat), closed : BOOLEAN]
            BY <2>7 DEF IndInv, IndFile, IndTypes, ReleaseWriter
        <3> DEFINE file == [segments[segmentNumber] EXCEPT !.closed = TRUE]
        <3>2. file.frames = segments[segmentNumber].frames /\ file.closed
            BY <3>1
        <3>3. SetSegment(segmentNumber, file) /\ UNCHANGED playlist
            BY <2>7 DEF ReleaseWriter, Close
        <3> HIDE DEF file
        <3> QED
            BY <2>3, <3>2, <3>3
    <2>8. CASE AppendPlaylist
        <3>1. playlist' = Append(playlist, segmentNumber) /\ UNCHANGED segments
            BY <2>8 DEF AppendPlaylist, AppendTo
        <3>2. segmentNumber \in Nat
            BY DEF IndInv, TypeOK
        <3>3. /\ Len(playlist') = Len(playlist) + 1
              /\ DOMAIN playlist' = 1 .. Len(playlist) + 1 /\ DOMAIN playlist = 1 .. Len(playlist)
              /\ \A i \in 1 .. Len(playlist) : playlist'[i] = playlist[i]
            BY <2>1, <3>1, <3>2
        <3>4. Range(playlist) \subseteq Range(playlist')
            BY <2>1, <3>3 DEF Range
        <3> QED
            BY <2>1, <3>1, <3>3, <3>4
    <2> QED
        BY <2>2, <2>5, <2>6, <2>7, <2>8
        DEF Next, Export, Fail, UnmarshalThrows, OpenFails, WrongSize, Killed, Dies, FetchMessage,
            UnmarshalMessages, ReadLastSegmentNumber, Restart, GetPlaylist, GetSegment,
            repository, vars, handler
<1> QED
    BY <1>1, Inductive, PTL DEF Spec, SegmentsKept

\* Place (h, g) of the playlist is before place (i, j).
PlayedBefore(h, g, i, j) == h < i \/ (h = i /\ g < j)

\* Who plays the playlist up to any place has seen growing frame numbers, and every
\* frame taken before the last one shown, but for those lost with a handler.
PlayedInOrder ==
    \A i \in 1 .. Len(playlist), j \in 1 .. FrameRate :
        LET f == segments[playlist[i]].frames[j] IN
        /\ f \in 1 .. taken
        /\ \A h \in 1 .. Len(playlist), g \in 1 .. FrameRate :
              PlayedBefore(h, g, i, j) => segments[playlist[h]].frames[g] < f
        /\ \A e \in 1 .. f - 1 :
              \/ e \in lost
              \/ \E h \in 1 .. Len(playlist), g \in 1 .. FrameRate :
                    PlayedBefore(h, g, i, j) /\ segments[playlist[h]].frames[g] = e

\* The frames shown are, in playing order, all that were taken and not lost.
THEOREM PlaylistMissesNothing == Spec => []PlayedInOrder
<1>1. IndInv => PlayedInOrder
    <2> SUFFICES ASSUME IndInv, NEW i \in 1 .. Len(playlist), NEW j \in 1 .. FrameRate
                 PROVE  LET f == segments[playlist[i]].frames[j] IN
                        /\ f \in 1 .. taken
                        /\ \A h \in 1 .. Len(playlist), g \in 1 .. FrameRate :
                              PlayedBefore(h, g, i, j) => segments[playlist[h]].frames[g] < f
                        /\ \A e \in 1 .. f - 1 :
                              \/ e \in lost
                              \/ \E h \in 1 .. Len(playlist), g \in 1 .. FrameRate :
                                    /\ PlayedBefore(h, g, i, j)
                                    /\ segments[playlist[h]].frames[g] = e
        BY DEF PlayedInOrder
    <2> DEFINE At(h, g) == segments[playlist[h]].frames[g]
    <2>1. /\ TypeOK /\ PlaylistConsecutive /\ IndBatch /\ IndListed /\ FramesAccounted
          /\ Len(playlist) \in Nat /\ FrameRate \in Nat \ {0} /\ taken \in Nat
          /\ Len(message_buffer) \in Nat
        BY ExporterAssumption, PlaylistNames, BatchFrames DEF IndInv
    <2>2. \A h \in 1 .. Len(playlist) :
              playlist[h] = h - 1 /\ h - 1 \in Listed /\ Len(Frames(h - 1)) = FrameRate
        BY <2>1 DEF PlaylistConsecutive, Listed, IndListed
    <2>3. \A h \in 1 .. Len(playlist), g \in 1 .. FrameRate :
              /\ At(h, g) \in Nat /\ At(h, g) >= 1
              /\ At(h, g) = At(h, 1) + g - 1
              /\ At(h, g) \in PlaylistFrames
        <3> SUFFICES ASSUME NEW h \in 1 .. Len(playlist), NEW g \in 1 .. FrameRate
                     PROVE  /\ At(h, g) \in Nat /\ At(h, g) >= 1
                            /\ At(h, g) = At(h, 1) + g - 1
                            /\ At(h, g) \in PlaylistFrames
            OBVIOUS
        <3>1. h - 1 \in Listed /\ playlist[h] = h - 1 /\ Len(Frames(h - 1)) = FrameRate
            BY <2>2
        <3>2. h - 1 \in DOMAIN segments
            BY <2>1, <3>1, PlaylistNames
        <3>3. Frames(h - 1) \in Seq(Nat) /\ 1 \in 1 .. FrameRate
            BY <2>1, <3>2 DEF TypeOK, Frames
        <3>4. Frames(h - 1)[g] \in Nat /\ Frames(h - 1)[1] \in Nat
            BY <3>1, <3>3
        <3>5. Frames(h - 1)[g] = Frames(h - 1)[1] + g - 1 /\ Frames(h - 1)[1] >= 1
            BY <2>1, <3>1 DEF IndListed
        <3>6. Frames(h - 1)[g] \in PlaylistFrames
            BY <2>1, <3>1, ListedFrames
        <3> QED
            BY <3>1, <3>4, <3>5, <3>6 DEF Frames
    <2>4. \A h, k \in 1 .. Len(playlist) : h < k => At(h, FrameRate) < At(k, 1)
        <3> SUFFICES ASSUME NEW h \in 1 .. Len(playlist), NEW k \in 1 .. Len(playlist), h < k
                     PROVE  At(h, FrameRate) < At(k, 1)
            OBVIOUS
        <3>1. h - 1 \in Listed /\ k - 1 \in Listed /\ h - 1 < k - 1
            BY <2>1, <2>2
        <3>2. Frames(h - 1)[FrameRate] < Frames(k - 1)[1]
            BY <2>1, <3>1 DEF IndListed
        <3> QED
            BY <2>2, <3>2 DEF Frames
    <2>5. \A h, k \in 1 .. Len(playlist), g, l \in 1 .. FrameRate :
              PlayedBefore(h, g, k, l) => At(h, g) < At(k, l)
        <3> SUFFICES ASSUME NEW h \in 1 .. Len(playlist), NEW k \in 1 .. Len(playlist),
                            NEW g \in 1 .. FrameRate, NEW l \in 1 .. FrameRate,
                            PlayedBefore(h, g, k, l)
                     PROVE  At(h, g) < At(k, l)
            OBVIOUS
        <3>1. /\ At(h, 1) \in Nat /\ At(k, 1) \in Nat /\ At(h, g) = At(h, 1) + g - 1
              /\ At(k, l) = At(k, 1) + l - 1 /\ At(h, FrameRate) = At(h, 1) + FrameRate - 1
            BY SMTT(60), <2>1, <2>3
        <3> HIDE DEF At
        <3>2. CASE h < k
            BY <2>1, <2>4, <3>1, <3>2
        <3>3. CASE h = k /\ g < l
            BY <2>1, <3>1, <3>3
        <3> QED
            BY <3>2, <3>3 DEF PlayedBefore
    <2>6. At(i, j) \in 1 .. taken
        <3>1. At(i, j) \in 1 .. taken
            BY <2>1, <2>3 DEF FramesAccounted
        <3> QED
            BY <3>1
    <2>7. ASSUME NEW e \in 1 .. At(i, j) - 1, e \notin lost
          PROVE  \E h \in 1 .. Len(playlist), g \in 1 .. FrameRate :
                     PlayedBefore(h, g, i, j) /\ At(h, g) = e
        <3>1. e \in PlaylistFrames \cup FramesOf(message_buffer)
            BY SMTT(60), <2>1, <2>6, <2>7 DEF FramesAccounted
        <3>2. e \in PlaylistFrames
            <4>1. CASE pc = "release"
                BY <3>1, <4>1, WorkInPast
            <4>2. CASE pc # "release"
                <5>1. e \notin FramesOf(message_buffer)
                    <6>1. At(i, j) \notin FramesOf(message_buffer)
                        BY <2>1, <2>3, <4>2 DEF FramesAccounted
                    <6>2. FramesOf(message_buffer) = taken - Len(message_buffer) + 1 .. taken
                        BY <2>1, BatchFrames
                    <6> HIDE DEF At
                    <6> QED
                        BY <2>1, <2>6, <2>7, <6>1, <6>2
                <5> QED
                    BY <3>1, <5>1
            <4> QED
                BY <4>1, <4>2
        <3>3. PICK n \in Listed, g \in 1 .. FrameRate : Frames(n)[g] = e
            BY <2>1, <3>2, ListedFrames DEF IndListed
        <3>4. n + 1 \in 1 .. Len(playlist) /\ At(n + 1, g) = e
            BY <2>1, <2>2, <3>3 DEF Listed, Frames
        <3>5. PlayedBefore(n + 1, g, i, j)
            <4>1. At(n + 1, g) < At(i, j) /\ At(i, j) \in Nat /\ At(n + 1, g) \in Nat
                BY <2>3, <2>7, <3>4
            <4>2. ~PlayedBefore(i, j, n + 1, g) /\ ~(n + 1 = i /\ g = j)
                BY <2>5, <3>4, <4>1
            <4> QED
                BY <2>1, <3>3, <3>4, <4>2 DEF PlayedBefore
        <3> QED
            BY <3>4, <3>5
    <2> QED
        BY <2>5, <2>6, <2>7
<1> QED
    BY <1>1, Inductive, PTL
=============================================================================
