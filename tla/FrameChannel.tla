---------------------------- MODULE FrameChannel ----------------------------
(***************************************************************************)
(* What the message ring promises its users: an unbounded, lossless,       *)
(* first-in first-out channel of frames from one streamer to one handler.  *)
(* Frames are numbered in the order they are published.  ShmQueue is shown *)
(* to implement it as long as the handler keeps up (DrainedAtWrap).        *)
(***************************************************************************)
EXTENDS Integers, Sequences

VARIABLES
    published,  \* how many frames Enqueue has published
    inflight,   \* the frames in the channel, oldest first
    taken       \* the frames Deque has taken out, in that order

vars == <<published, inflight, taken>>

Init ==
    /\ published = 0
    /\ inflight = <<>>
    /\ taken = <<>>

Publish ==
    /\ published' = published + 1
    /\ inflight' = Append(inflight, published + 1)
    /\ UNCHANGED taken

Take ==
    /\ inflight # <<>>
    /\ taken' = Append(taken, Head(inflight))
    /\ inflight' = Tail(inflight)
    /\ UNCHANGED published

Next == Publish \/ Take

Spec == Init /\ [][Next]_vars

\* A frame in the channel is eventually taken.
FairSpec == Spec /\ WF_vars(Take)

-----------------------------------------------------------------------------
(* The frames leave in the order they came, and none is missing: taken and *)
(* inflight together number the published frames.                          *)
InOrder ==
    /\ Len(taken) + Len(inflight) = published
    /\ \A i \in 1 .. Len(taken) : taken[i] = i
    /\ \A i \in 1 .. Len(inflight) : inflight[i] = Len(taken) + i
=============================================================================
