------------------------- MODULE FileSelector_proof -------------------------
(***************************************************************************)
(* Proofs about FileSelector: whatever the number of lines, the size of    *)
(* media_file_list and the directories, the selection is on the screen and *)
(* goes around a ring.                                                     *)
(***************************************************************************)
EXTENDS FileSelector, TLAPS

Browsing == screen \in {"select", "playing", "nostream"}

(* The inductive invariant: a list in use is not empty, so that the last   *)
(* file, where MoveUp wraps to, exists.                                    *)
IInv == /\ TypeOK
        /\ SelectionVisible
        /\ WindowFull
        /\ Browsing => list_end >= 0

-----------------------------------------------------------------------------
(* What the two moves do, for every window: both keep the selection        *)
(* visible and the window full, and follow the ring.                       *)
Placed(s, i) == /\ i \in 0 .. list_end /\ s \in 0 .. list_end
                /\ s <= i /\ i < s + ItemNum
                /\ s = 0 \/ s + ItemNum - 1 <= list_end

(* get_prev_file and the UP key: one file back around the ring; the window *)
(* moves only to a selection that was outside it.                          *)
LEMMA MoveUpCorrect ==
  ASSUME IInv, list_end >= 0, MoveUp
  PROVE  /\ Placed(start_idx', media_idx')
         /\ media_idx' = IF media_idx = 0 THEN list_end ELSE media_idx - 1
         /\ start_idx' # start_idx =>
              media_idx' \notin start_idx .. start_idx + ItemNum - 1
         /\ last_media_idx' = media_idx
<1> USE FileSelectorAssumption
<1>1. /\ list_end \in 0 .. MaxMediaFiles - 1
      /\ media_idx \in 0 .. list_end /\ start_idx \in 0 .. media_idx
      /\ media_idx < start_idx + ItemNum
      /\ start_idx = 0 \/ start_idx + ItemNum - 1 <= list_end
  BY DEF IInv, TypeOK, SelectionVisible, WindowFull
<1>2. CASE media_idx = 0
  BY <1>1, <1>2 DEF MoveUp, LastStart, Placed
<1>3. CASE media_idx > 0
  BY <1>1, <1>3 DEF MoveUp, Placed
<1> QED
  BY <1>1, <1>2, <1>3

(* get_next_file and the DOWN key, likewise forward.                       *)
LEMMA MoveDownCorrect ==
  ASSUME IInv, list_end >= 0, MoveDown
  PROVE  /\ Placed(start_idx', media_idx')
         /\ media_idx' = IF media_idx = list_end THEN 0 ELSE media_idx + 1
         /\ start_idx' # start_idx =>
              media_idx' \notin start_idx .. start_idx + ItemNum - 1
         /\ last_media_idx' = media_idx
<1> USE FileSelectorAssumption
<1>1. /\ list_end \in 0 .. MaxMediaFiles - 1
      /\ media_idx \in 0 .. list_end /\ start_idx \in 0 .. media_idx
      /\ media_idx < start_idx + ItemNum
      /\ start_idx = 0 \/ start_idx + ItemNum - 1 <= list_end
  BY DEF IInv, TypeOK, SelectionVisible, WindowFull
<1>2. CASE media_idx = list_end
  BY <1>1, <1>2 DEF MoveDown, PastEnd, Placed
<1>3. CASE media_idx < list_end
  BY <1>1, <1>3 DEF MoveDown, PastEnd, BelowWindow, Placed
<1> QED
  BY <1>1, <1>2, <1>3

(* A step that changes neither the list nor the two places of a browsing   *)
(* screen keeps the invariant, if the names it writes are well typed.      *)
LEMMA SameList ==
  ASSUME IInv, UNCHANGED <<entries, list>>,
         screen' \in {"type", "select", "playing", "nostream", "crashed",
                      "exited"},
         screen' \in {"select", "playing", "nostream"} => Browsing,
         FileName' \in [dir : Type, file : NoFile .. MaxMediaFiles - 1],
         plays' \in {"video", "audio", "nothing"}
  PROVE  IInv'
BY DEF IInv, TypeOK, SelectionVisible, WindowFull, Browsing, list

(* A move keeps it too.                                                    *)
LEMMA Moved ==
  ASSUME IInv, list_end >= 0, Placed(start_idx', media_idx'),
         last_media_idx' = media_idx,
         UNCHANGED <<entries, type, list_end>>,
         screen' \in {"type", "select", "playing", "nostream"},
         FileName' \in [dir : Type, file : NoFile .. MaxMediaFiles - 1],
         plays' \in {"video", "audio", "nothing"}
  PROVE  IInv'
<1> USE FileSelectorAssumption
<1>1. list_end \in 0 .. MaxMediaFiles - 1
  BY DEF IInv, TypeOK
<1>2. TypeOK'
  BY <1>1 DEF IInv, TypeOK, Placed
<1>3. list_end' = list_end
  OBVIOUS
<1>4. SelectionVisible'
  <2>1. media_idx' <= list_end' /\ start_idx' <= media_idx'
    BY <1>1, <1>3 DEF Placed
  <2>2. media_idx' < start_idx' + ItemNum
    BY DEF Placed
  <2> QED
    BY <2>1, <2>2 DEF SelectionVisible
<1>5. WindowFull'
  BY <1>1, <1>3 DEF WindowFull, Placed
<1> QED
  BY <1>2, <1>4, <1>5 DEF IInv

-----------------------------------------------------------------------------
LEMMA InitIInv == Init => IInv
BY FileSelectorAssumption
   DEF Init, IInv, TypeOK, SelectionVisible, WindowFull, Browsing, Type, NoFile

LEMMA OpenListIInv ==
  ASSUME IInv, NEW t \in Type, OpenList(t)
  PROVE  IInv'
<1> USE FileSelectorAssumption
<1>1. Listed(t) \in 0 .. MaxMediaFiles
  BY DEF IInv, TypeOK, Listed
<1> QED
  BY <1>1 DEF IInv, TypeOK, SelectionVisible, WindowFull, Browsing, OpenList

LEMMA SkipIInv ==
  ASSUME IInv, PrevFile \/ NextFile \/ FileFinished
  PROVE  IInv'
<1> USE FileSelectorAssumption
<1>1. /\ list_end >= 0
      /\ UNCHANGED <<entries, type, list_end>>
      /\ screen' \in {"type", "playing", "nostream"}
  BY DEF IInv, Browsing, PrevFile, NextFile, FileFinished, SkipTo, Open
<1>2. Placed(start_idx', media_idx') /\ last_media_idx' = media_idx
  BY <1>1, MoveUpCorrect, MoveDownCorrect
     DEF PrevFile, NextFile, FileFinished, SkipTo
<1>3. media_idx' \in 0 .. MaxMediaFiles - 1
  BY <1>2 DEF Placed, IInv, TypeOK
<1>4. /\ FileName' \in [dir : Type, file : NoFile .. MaxMediaFiles - 1]
      /\ plays' \in {"video", "audio", "nothing"}
  BY <1>3 DEF IInv, TypeOK, PrevFile, NextFile, FileFinished, SkipTo, Open,
     Type, NoFile
<1> QED
  BY <1>1, <1>2, <1>4, Moved

LEMMA NextIInv == IInv /\ [Next]_vars => IInv'
<1> SUFFICES ASSUME IInv, [Next]_vars PROVE IInv'
  OBVIOUS
<1> USE FileSelectorAssumption
<1>1. CASE \E t \in Type : OpenList(t)
  BY <1>1, OpenListIInv
<1>2. CASE Up
  <2>1. list_end >= 0
    BY <1>2 DEF IInv, Browsing, Up
  <2>2. Placed(start_idx', media_idx') /\ last_media_idx' = media_idx
    BY <1>2, <2>1, MoveUpCorrect DEF Up
  <2> QED
    BY <1>2, <2>1, <2>2, Moved DEF Up, IInv, TypeOK
<1>3. CASE Down
  <2>1. list_end >= 0
    BY <1>3 DEF IInv, Browsing, Down
  <2>2. Placed(start_idx', media_idx') /\ last_media_idx' = media_idx
    BY <1>3, <2>1, MoveDownCorrect DEF Down
  <2> QED
    BY <1>3, <2>1, <2>2, Moved DEF Down, IInv, TypeOK
<1>4. CASE Choose
  BY <1>4, SameList DEF Choose, Open, IInv, TypeOK, Browsing, NoFile
<1>5. CASE Back \/ RefreshNoStream \/ StopPlaying \/ Exit
  BY <1>5, SameList
     DEF Back, RefreshNoStream, StopPlaying, Exit, IInv, TypeOK, Browsing
<1>6. CASE PrevFile \/ NextFile \/ FileFinished
  BY <1>6, SkipIInv
<1>7. CASE Ended \/ UNCHANGED vars
  BY <1>7, SameList DEF Ended, vars, IInv, TypeOK, Browsing
<1> QED
  BY <1>1, <1>2, <1>3, <1>4, <1>5, <1>6, <1>7 DEF Next

(* The invariant holds in every state of the program.                      *)
THEOREM Invariance == Spec => []IInv
BY InitIInv, NextIInv, PTL DEF Spec

(* Type correctness; media_idx stays within media_file_list.               *)
THEOREM TypeCorrect == Spec => []TypeOK
<1>1. IInv => TypeOK
  BY DEF IInv
<1> QED
  BY <1>1, Invariance, PTL

(* The selected file is always shown, and an empty line only with all.     *)
THEOREM Shown == Spec => []SelectionShown
<1>1. IInv => SelectionShown
  BY DEF IInv, SelectionShown
<1> QED
  BY <1>1, Invariance, PTL

-----------------------------------------------------------------------------
(* The window stays where it is while the selection does not leave it.     *)
LEMMA ScrollStep ==
  ASSUME IInv, [Next]_vars, start_idx' # start_idx, screen # "type"
  PROVE  media_idx' \notin start_idx .. start_idx + ItemNum - 1
<1>1. /\ Up \/ Down \/ PrevFile \/ NextFile \/ FileFinished
      /\ MoveUp \/ MoveDown
      /\ list_end >= 0
  BY DEF Next, vars, list, OpenList, Up, Down, Choose, Back, PrevFile,
     NextFile, FileFinished, SkipTo, RefreshNoStream, StopPlaying, Exit, Ended,
     IInv, Browsing
<1> QED
  BY <1>1, MoveUpCorrect, MoveDownCorrect

THEOREM Scrolls == Spec => ScrollsOnlyWhenNeeded
<1>1. IInv /\ [Next]_vars =>
        [start_idx' # start_idx /\ screen # "type" =>
           media_idx' \notin start_idx .. start_idx + ItemNum - 1]_vars
  BY ScrollStep
<1> QED
  BY <1>1, Invariance, PTL DEF Spec, ScrollsOnlyWhenNeeded

(* Prev and next open another file, unless there is only one.              *)
LEMMA SkipStep ==
  ASSUME IInv, PrevFile \/ NextFile \/ FileFinished
  PROVE  IF list_end = 0 THEN screen' # "playing"
                         ELSE /\ screen' = "playing"
                              /\ FileName'.file = media_idx'
                              /\ FileName'.file # media_idx
<1>1. list_end >= 0 /\ (MoveUp \/ MoveDown)
  BY DEF IInv, Browsing, PrevFile, NextFile, FileFinished, SkipTo
<1>2. /\ media_idx \in 0 .. list_end /\ list_end \in Nat
      /\ last_media_idx' = media_idx
      /\ \/ media_idx' = IF media_idx = 0 THEN list_end ELSE media_idx - 1
         \/ media_idx' = IF media_idx = list_end THEN 0 ELSE media_idx + 1
  BY <1>1, MoveUpCorrect, MoveDownCorrect DEF IInv, TypeOK, SelectionVisible
<1>3. Alone <=> list_end = 0
  BY <1>2 DEF Alone
<1>4. /\ Alone => screen' \in {"type", "nostream"}
      /\ ~Alone => /\ screen' = "playing"
                   /\ FileName' = [dir |-> "music", file |-> media_idx']
  BY DEF PrevFile, NextFile, FileFinished, SkipTo, Open
<1>5. ~Alone => media_idx' # media_idx
  BY <1>2 DEF Alone
<1> QED
  BY <1>3, <1>4, <1>5

THEOREM Skips == Spec => SkipsToAnother
<1>1. IInv /\ [Next]_vars =>
        [PrevFile \/ NextFile \/ FileFinished =>
           IF list_end = 0 THEN screen' # "playing"
                           ELSE /\ screen' = "playing"
                                /\ FileName'.file = media_idx'
                                /\ FileName'.file # media_idx]_vars
  BY SkipStep
<1> QED
  BY <1>1, Invariance, PTL DEF Spec, SkipsToAnother

-----------------------------------------------------------------------------
(* Every step of the media list is a step of the ring, or a stutter.       *)
LEMMA RingStep ==
  ASSUME IInv, IInv', [Next]_vars
  PROVE  [Ring!Next]_<<list_end + 1, media_idx,
                       screen \in {"select", "playing", "nostream"}>>
<1> USE FileSelectorAssumption DEF Ring!Next
<1>1. CASE \E t \in Type : OpenList(t)
  <2> PICK t \in Type : OpenList(t)
    BY <1>1
  <2>1. Listed(t) \in Nat
    BY DEF IInv, TypeOK, Listed
  <2> QED
    BY <2>1 DEF OpenList, Ring!Load
<1>2. CASE MoveUp /\ Browsing /\ UNCHANGED list_end
  <2>1. list_end \in Nat /\ list_end >= 0 /\ media_idx \in Nat
    BY <1>2 DEF IInv, TypeOK
  <2>2. media_idx' = IF media_idx = 0 THEN list_end ELSE media_idx - 1
    BY <1>2, <2>1, MoveUpCorrect
  <2>3. Ring!Backward
    BY <2>1, <2>2 DEF Ring!Backward
  <2> QED
    BY <1>2, <2>1, <2>3 DEF Ring!Move, Browsing
<1>3. CASE MoveDown /\ Browsing /\ UNCHANGED list_end
  <2>1. list_end \in Nat /\ list_end >= 0 /\ media_idx \in Nat
    BY <1>3 DEF IInv, TypeOK
  <2>2. media_idx' = IF media_idx = list_end THEN 0 ELSE media_idx + 1
    BY <1>3, <2>1, MoveDownCorrect
  <2>3. Ring!Forward
    BY <2>1, <2>2 DEF Ring!Forward
  <2> QED
    BY <1>3, <2>1, <2>3 DEF Ring!Move, Browsing
<1>4. CASE UNCHANGED <<list_end, media_idx>> /\ (Browsing' => Browsing)
  BY <1>4 DEF Ring!Leave, Browsing
<1>5. CASE Up
  BY <1>2, <1>5 DEF Up, Browsing
<1>6. CASE Down
  BY <1>3, <1>6 DEF Down, Browsing
<1>7. CASE PrevFile \/ NextFile \/ FileFinished
  BY <1>2, <1>3, <1>7 DEF PrevFile, NextFile, FileFinished, SkipTo, Browsing
<1>8. CASE \/ Choose \/ Back \/ RefreshNoStream \/ StopPlaying \/ Exit
           \/ Ended \/ UNCHANGED vars
  BY <1>4, <1>8 DEF Choose, Open, Back, RefreshNoStream, StopPlaying, Exit,
     Ended, vars, list, Browsing
<1> QED
  BY <1>1, <1>5, <1>6, <1>7, <1>8 DEF Next

(* The media list implements the ring of files.                            *)
THEOREM Refinement == Spec => ImplementsRing
<1>1. Init => Ring!Init
  BY DEF Init, Ring!Init
<1>2. IInv /\ IInv' /\ [Next]_vars =>
        [Ring!Next]_<<list_end + 1, media_idx,
                      screen \in {"select", "playing", "nostream"}>>
  BY RingStep
<1> QED
  BY <1>1, <1>2, Invariance, PTL DEF Spec, ImplementsRing, Ring!Spec
=============================================================================
