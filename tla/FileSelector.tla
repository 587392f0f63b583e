---------------------------- MODULE FileSelector ----------------------------
(***************************************************************************)
(* The media list of ffplay.c: reading a directory, moving the selection   *)
(* and the window of lines that shows it, choosing a file, and moving on   *)
(* to the previous or next file while music plays.  select_file and        *)
(* get_prev_file / get_next_file each carry their own copy of the moves    *)
(* and share the variables; event_loop runs between them.                  *)
(*                                                                         *)
(* A file is its place in the directory it was listed from.                *)
(*                                                                         *)
(* Operators whose name ends in a word after an underscore are mutants of  *)
(* the definition below them.                                              *)
(***************************************************************************)
EXTENDS Integers

CONSTANTS ItemNum,         \* ITEM_NUM, the lines on the screen
          MaxMediaFiles,   \* MAX_MEDIA_FILES, the size of media_file_list
          MaxEntries       \* bound on the files in a directory

ASSUME FileSelectorAssumption ==
         /\ ItemNum \in Nat \ {0}
         /\ MaxMediaFiles \in Nat \ {0}
         /\ MaxEntries \in Nat

Type == {"video", "music"}     \* media_type, each with its directory
NoFile == -1

VARIABLES
  entries,        \* files in each directory of the memory stick
  screen,         \* where the main thread is
  type,           \* the type the list was made for
  list_end,       \* media_file_num - 1
  media_idx,      \* the selected file
  start_idx,      \* the file on the first line
  last_media_idx, \* the file selected before
  FileName,       \* directory and file that were opened last
  plays           \* what the opened file turned out to contain

list == <<type, list_end, media_idx, start_idx, last_media_idx>>
vars == <<entries, screen, list, FileName, plays>>

-----------------------------------------------------------------------------
Init == /\ entries \in [Type -> 0 .. MaxEntries]
        /\ screen = "type"
        /\ type = "video"
        /\ list_end = -1
        /\ media_idx = 0 /\ start_idx = 0 /\ last_media_idx = 0
        /\ FileName = [dir |-> "video", file |-> NoFile]
        /\ plays = "nothing"

(* file_list_init reads regular files until the list is full.              *)
Listed(t) == IF entries[t] > MaxMediaFiles THEN MaxMediaFiles ELSE entries[t]

(* select_type returned t and select_file makes the list.  An empty or     *)
(* missing directory gives a message box and the greeting again.           *)
OpenList(t) == /\ screen = "type"
               /\ type' = t
               /\ last_media_idx' = 0 /\ media_idx' = 0 /\ start_idx' = 0
               /\ list_end' = Listed(t) - 1
               /\ screen' = IF Listed(t) = 0 THEN "type" ELSE "select"
               /\ UNCHANGED <<entries, FileName, plays>>

-----------------------------------------------------------------------------
(* The moves.                                                              *)

(* First line of the window that shows the end of the list.                *)
LastStart == IF list_end >= ItemNum THEN list_end - ItemNum + 1 ELSE 0

MoveUp ==
  /\ last_media_idx' = media_idx
  /\ \/ /\ media_idx - 1 < 0
        /\ media_idx' = list_end
        /\ start_idx' = LastStart
     \/ /\ media_idx - 1 >= 0
        /\ media_idx' = media_idx - 1
        /\ start_idx' = IF media_idx - 1 < start_idx THEN media_idx - 1
                                                     ELSE start_idx

BelowWindow_late(i) == i > start_idx + ItemNum
BelowWindow(i) == i >= start_idx + ItemNum

PastEnd_last(i) == i >= list_end
PastEnd(i) == i > list_end

MoveDown ==
  /\ last_media_idx' = media_idx
  /\ \/ /\ PastEnd(media_idx + 1)
        /\ media_idx' = 0
        /\ start_idx' = 0
     \/ /\ ~PastEnd(media_idx + 1)
        /\ media_idx' = media_idx + 1
        /\ start_idx' = IF BelowWindow(media_idx + 1)
                          THEN media_idx + 1 - ItemNum + 1
                          ELSE start_idx

-----------------------------------------------------------------------------
(* select_file                                                             *)

Up == /\ screen = "select"
      /\ MoveUp
      /\ UNCHANGED <<entries, screen, type, list_end, FileName, plays>>

Down == /\ screen = "select"
        /\ MoveDown
        /\ UNCHANGED <<entries, screen, type, list_end, FileName, plays>>

(* stream_open: the Decode thread finds out what the file contains.        *)
Open(f) == /\ FileName' = f
           /\ plays' \in {"video", "audio", "nothing"}
           /\ screen' = "playing"

Choose == /\ screen = "select"
          /\ Open([dir |-> type, file |-> media_idx])
          /\ UNCHANGED <<entries, list>>

Back == /\ screen = "select"
        /\ screen' = "type"
        /\ UNCHANGED <<entries, list, FileName, plays>>

-----------------------------------------------------------------------------
(* event_loop                                                              *)

(* get_prev_file and get_next_file tell a list of one file from others by  *)
(* the selection not having moved.                                         *)
Alone_end == media_idx' = list_end
Alone == last_media_idx' = media_idx'

(* A trigger key while an audio file plays: stop it, move, open the file   *)
(* of that name in the MUSIC directory, or return if there is no other.    *)
SkipTo(Move) ==
  /\ screen = "playing" /\ plays = "audio"
  /\ Move
  /\ IF Alone THEN screen' = "type" /\ UNCHANGED <<FileName, plays>>
              ELSE Open([dir |-> "music", file |-> media_idx'])
  /\ UNCHANGED <<entries, type, list_end>>

PrevFile == SkipTo(MoveUp)
NextFile == SkipTo(MoveDown)

(* play_finished: the same as NextFile, but the loop goes on when there is *)
(* no other file, without a stream.                                        *)
FileFinished ==
  /\ screen = "playing" /\ plays = "audio"
  /\ MoveDown
  /\ IF Alone THEN screen' = "nostream" /\ UNCHANGED <<FileName, plays>>
              ELSE Open([dir |-> "music", file |-> media_idx'])
  /\ UNCHANGED <<entries, type, list_end>>

(* The refresh timer of the stopped stream fires: cur_stream is NULL.      *)
RefreshNoStream == /\ screen = "nostream"
                   /\ screen' = "crashed"
                   /\ UNCHANGED <<entries, list, FileName, plays>>

(* The SQUARE key, or catched_error set by the Decode thread.              *)
StopPlaying == /\ screen \in {"playing", "nostream"}
               /\ screen' = "type"
               /\ UNCHANGED <<entries, list, FileName, plays>>

(* The exit callback sets done, or START is pressed in the list.           *)
Exit == /\ screen \notin {"exited", "crashed"}
        /\ screen' = "exited"
        /\ UNCHANGED <<entries, list, FileName, plays>>

Ended == screen \in {"exited", "crashed"} /\ UNCHANGED vars

Next == \/ \E t \in Type : OpenList(t)
        \/ Up \/ Down \/ Choose \/ Back
        \/ PrevFile \/ NextFile \/ FileFinished \/ RefreshNoStream
        \/ StopPlaying \/ Exit \/ Ended

Spec == Init /\ [][Next]_vars

-----------------------------------------------------------------------------
(* Among the types: media_idx never leaves media_file_list.                *)
TypeOK ==
  /\ entries \in [Type -> 0 .. MaxEntries]
  /\ screen \in {"type", "select", "playing", "nostream", "crashed", "exited"}
  /\ type \in Type
  /\ list_end \in -1 .. MaxMediaFiles - 1
  /\ media_idx \in 0 .. MaxMediaFiles - 1
  /\ start_idx \in 0 .. MaxMediaFiles - 1
  /\ last_media_idx \in 0 .. MaxMediaFiles - 1
  /\ FileName \in [dir : Type, file : NoFile .. MaxMediaFiles - 1]
  /\ plays \in {"video", "audio", "nothing"}

(* The selected file is in the list and on a line of the screen.           *)
SelectionVisible ==
  list_end >= 0 => /\ media_idx <= list_end
                   /\ start_idx <= media_idx
                   /\ media_idx < start_idx + ItemNum

(* The window has an empty line only if it shows the whole list.           *)
WindowFull == start_idx = 0 \/ start_idx + ItemNum - 1 <= list_end

(* However the user moves, in the list or from file to file while music    *)
(* plays, the window shows the selection and wastes no line.               *)
SelectionShown == SelectionVisible /\ WindowFull

(* The window stays where it is while the selection does not leave it.     *)
ScrollsOnlyWhenNeeded ==
  [][start_idx' # start_idx /\ screen # "type" =>
       media_idx' \notin start_idx .. start_idx + ItemNum - 1]_vars

(* Prev and next leave the player only from a list with a single file, and *)
(* otherwise open another file than the one that was selected.             *)
SkipsToAnother ==
  [][PrevFile \/ NextFile \/ FileFinished =>
       IF list_end = 0 THEN screen' # "playing"
                       ELSE /\ screen' = "playing"
                            /\ FileName'.file = media_idx'
                            /\ FileName'.file # media_idx]_vars

(* The moves of the list and those of the playing music keep the selection *)
(* going around one ring.                                                  *)
Ring == INSTANCE FileRing
          WITH count <- list_end + 1, selected <- media_idx,
               browsing <- screen \in {"select", "playing", "nostream"}

ImplementsRing == Ring!Spec
=============================================================================
