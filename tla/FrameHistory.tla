----------------------------- MODULE FrameHistory -----------------------------
(***************************************************************************)
(* The three histories of ControllerImplementation: frames, image pairs    *)
(* and point mappings, newest first, and how onTracking, onImage and       *)
(* onPointMappingChange bring together what has the same frame id.         *)
(***************************************************************************)
EXTENDS Integers, Sequences

Seqs == INSTANCE SequencesExt

CONSTANT History    \* DEFAULT_FRAME_HISTORY_SIZE

ASSUME HistoryAssumption == History \in Nat \ {0}

\* Variant with a defect: nothing is dropped.
KeepAll(s) == s

\* pop_back of a deque that grew past the history.
Keep(s) == IF Len(s) > History THEN Seqs!Front(s) ELSE s

\* onTracking gives the frame the images and points that came before it.
NewFrame(id, images, maps) ==
    [id |-> id, image |-> Seqs!Contains(images, id), map |-> Seqs!Contains(maps, id)]

\* Variant with a defect: the erase begins after the match.
NotOlderThan(maps, id) ==
    LET i == Seqs!SelectInSeq(maps, LAMBDA m : m = id)
    IN  IF i = 0 THEN maps ELSE SubSeq(maps, 1, i)

\* onTracking discards the points it used and all older ones.
NewerThan(maps, id) ==
    LET i == Seqs!SelectInSeq(maps, LAMBDA m : m = id)
    IN  IF i = 0 THEN maps ELSE SubSeq(maps, 1, i - 1)

\* The place of frame `id`, or 0: the search gives up at the first older frame.
Place(frames, id) ==
    LET i == Seqs!SelectInSeq(frames, LAMBDA f : f.id <= id)
    IN  IF i > 0 /\ frames[i].id = id THEN i ELSE 0

\* setImages and setMapPoints of the frame `id`, if it is kept.
GiveImage(frames, id) ==
    IF Place(frames, id) = 0 THEN frames
    ELSE [frames EXCEPT ![Place(frames, id)].image = TRUE]

GivePoints(frames, id) == [frames EXCEPT ![Place(frames, id)].map = TRUE]
=============================================================================
