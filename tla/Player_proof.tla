---------------------------- MODULE Player_proof ----------------------------
(***************************************************************************)
(* Proofs about Player, for any number of streams and whatever is on the   *)
(* memory stick: no VideoState is freed under its Decode thread, and the   *)
(* audio callback finds its stream.  The theorems say what they need of    *)
(* the files.                                                              *)
(***************************************************************************)
EXTENDS Player, TLAPS

Stutter == Ended \/ UNCHANGED vars

Action ==
  \/ \E k \in Kinds : ChooseFile(k) \/ OpenNext(k)
  \/ AssignStream \/ ExitFromMenu \/ NoKey \/ PressTriangle
  \/ PressSquare \/ PressTrigger \/ Refresh
  \/ CheckFinished \/ CheckSleep \/ CheckError \/ CheckDone \/ FreeStream
  \/ ClearStream \/ Return \/ NoNext \/ ReopenSaved \/ ExitGame
  \/ \E s \in Streams :
       \/ OpenFile(s) \/ ConfirmError(s) \/ ExitFromBox(s) \/ ReachEnd(s)
       \/ ReadError(s) \/ ServeSeek(s) \/ SeesAbort(s) \/ CloseFile(s)
  \/ AudioCallback \/ ExitCallback \/ Suspend \/ Resume \/ Stutter

LEMMA NextIsAction == [Next]_vars => Action
BY DEF Next, MainThread, DecodeThread, Action, Stutter

-----------------------------------------------------------------------------
(* The parts of TypeOK.                                                    *)
Call == {"return", "skip", "finish", "resume", "exit"}   \* after do_exit
Opener == {"keys", "refresh", "sleep", "error"}          \* after stream_open

TMain == /\ main \in Loop \cup Over \cup {"menu", "assign", "closing", "freed",
                          "return", "skip", "finish", "resume", "exit"}
         /\ after \in {"menu"} \cup Call \cup Opener
TStreams == /\ opened \in 0 .. MaxStreams
            /\ cur_stream \in 0 .. opened
            /\ kind \in [Streams -> Kind \cup {NoFile}]
            /\ thread \in [Streams -> Running \cup {"none", "ended"}]
            /\ \A s \in 1 .. opened : kind[s] \in Kind /\ thread[s] # "none"
            /\ abort_request \in [Streams -> {0, 1}]
            /\ live \subseteq 1 .. opened
TFlags == /\ installed \in {0, 1}
          /\ catched_error \in {0, 1} /\ play_finished \in {0, 1}
          /\ return_from_sleep \in {0, 1} /\ done \in {0, 1}
          /\ suspended \in {0, 1}
          /\ saved_filename \in Kind \cup {NoFile} /\ saved_pos \in {0, -1}
          /\ cpu_freq \in {222, 266, 333}

(* A file is reopened only if there is one to reopen.                      *)
SavedExists ==
  /\ suspended = 1 /\ saved_pos >= 0 => saved_filename \in Kind
  /\ return_from_sleep = 1 => saved_filename \in Kind
  /\ after = "resume" \/ main = "resume" => saved_filename \in Kind

IInv == TypeOK /\ SavedExists /\ StateOutlivesThread

LEMMA TypeParts == TypeOK <=> TMain /\ TStreams /\ TFlags
BY DEF TypeOK, TMain, TStreams, TFlags, Call, Opener

-----------------------------------------------------------------------------
LEMMA InitIInv == Init => IInv
BY PlayerAssumption
   DEF Init, IInv, TypeOK, SavedExists, StateOutlivesThread, Loop, Over,
   Running, Decoding, Kind, Streams, NoStream, NoFile

(* Where the main thread is.                                               *)
LEMMA TypeMain ==
  ASSUME TMain, Action
  PROVE  TMain'
<1>1. ASSUME NEW k \in Kinds, ChooseFile(k) \/ OpenNext(k)
      PROVE  TMain'
  BY <1>1
     DEF ChooseFile, OpenNext, StreamOpen, TMain, Loop, Call, Opener, stream,
     flags, power, saved, main_side, others
<1>2. CASE NoKey \/ PressTriangle \/ PressSquare \/ PressTrigger
          \/ Refresh \/ CheckFinished
          \/ CheckSleep \/ CheckError \/ CheckDone \/ FreeStream \/ ClearStream
          \/ Return \/ NoNext \/ ReopenSaved \/ ExitGame \/ ExitFromMenu
          \/ AssignStream
  BY <1>2
     DEF AssignStream, CheckDone, CheckError, CheckFinished, CheckSleep,
     ClearStream, ExitFromMenu, ExitGame, FreeStream, NoKey, NoNext,
     PressSquare, PressTriangle, PressTrigger, Refresh, ReopenSaved, Return,
     DoExit, StreamOpen, TMain, Loop, Over, Call, Opener, stream, flags,
     power, saved, main_side, others
<1>3. ASSUME NEW s \in Streams, OpenFile(s) \/ ConfirmError(s)
           \/ ExitFromBox(s) \/ ReachEnd(s) \/ ReadError(s) \/ ServeSeek(s)
           \/ SeesAbort(s) \/ CloseFile(s)
      PROVE  TMain'
  BY <1>3
     DEF CloseFile, ConfirmError, ExitFromBox, OpenFile, ReachEnd, ReadError,
     SeesAbort, ServeSeek, TMain, Over, stream, flags, power, saved,
     main_side, others
<1>4. CASE AudioCallback \/ ExitCallback \/ Suspend \/ Resume \/ Stutter
  BY <1>4
     DEF AudioCallback, ExitCallback, Resume, Stutter, Suspend, Ended, vars,
     TMain, Over, stream, flags, power, saved, main_side, others
<1> QED
  BY <1>1, <1>2, <1>3, <1>4 DEF Action

LEMMA OpenedStream ==
  ASSUME TStreams, NEW k \in Kind, NEW then, StreamOpen(k, then), UNCHANGED
  <<cur_stream, abort_request>>
  PROVE  TStreams'
<1>1. /\ opened \in Nat /\ MaxStreams \in Nat /\ opened + 1 \in Streams
      /\ opened' = opened + 1 /\ cur_stream' = cur_stream
  BY PlayerAssumption DEF TStreams, StreamOpen, Streams
<1>2. /\ opened' \in 0 .. MaxStreams /\ cur_stream' \in 0 .. opened'
      /\ live' \subseteq 1 .. opened'
  BY <1>1 DEF TStreams, StreamOpen, Streams
<1>3. /\ kind' \in [Streams -> Kind \cup {NoFile}]
      /\ thread' \in [Streams -> Running \cup {"none", "ended"}]
      /\ abort_request' \in [Streams -> {0, 1}]
  BY <1>1 DEF TStreams, StreamOpen, Running, Decoding
<1>4. ASSUME NEW s \in 1 .. opened'
      PROVE  kind'[s] \in Kind /\ thread'[s] # "none"
  BY <1>1 DEF TStreams, StreamOpen, Streams
<1> QED
  BY <1>2, <1>3, <1>4 DEF TStreams

LEMMA MovedThread ==
  ASSUME TStreams, NEW s \in Streams, NEW v \in Running \cup {"ended"},
         thread' = [thread EXCEPT ![s] = v],
         UNCHANGED <<stream, cur_stream, abort_request>>
  PROVE  TStreams'
<1>1. thread' \in [Streams -> Running \cup {"none", "ended"}]
  BY DEF TStreams
<1>2. ASSUME NEW t \in 1 .. opened
      PROVE  thread'[t] # "none"
  <2>1. t \in Streams /\ thread[t] # "none" /\ v # "none"
    BY PlayerAssumption DEF TStreams, Streams, Running, Decoding
  <2> QED
    BY <2>1 DEF TStreams
<1> QED
  BY <1>1, <1>2 DEF TStreams, stream

(* The streams.                                                            *)
LEMMA TypeStreams ==
  ASSUME TStreams, SavedExists, Action
  PROVE  TStreams'
<1>1. ASSUME NEW k \in Kinds, ChooseFile(k) \/ OpenNext(k)
      PROVE  TStreams'
  BY <1>1, OpenedStream, PlayerAssumption
     DEF ChooseFile, OpenNext, stream, flags, power, saved, main_side, others
<1>2. CASE ReopenSaved
  BY <1>2, OpenedStream
     DEF ReopenSaved, StreamOpen, SavedExists, stream, flags, power, saved,
     main_side, others
<1>3. CASE PressSquare \/ PressTrigger \/ CheckFinished \/ CheckSleep
          \/ CheckDone
  <2>1. UNCHANGED <<stream, cur_stream, thread>>
    BY <1>3 DEF PressSquare, PressTrigger, CheckFinished, CheckSleep, CheckDone
  <2>2. \/ UNCHANGED abort_request
        \/ /\ cur_stream # NoStream
           /\ abort_request' = [abort_request EXCEPT ![cur_stream] = 1]
    BY <1>3 DEF PressSquare, PressTrigger, CheckFinished, CheckSleep,
    CheckDone,
       DoExit
  <2>3. abort_request' \in [Streams -> {0, 1}]
    BY <2>2 DEF TStreams
  <2> QED
    BY <2>1, <2>3 DEF TStreams, stream
<1>4. CASE FreeStream \/ ClearStream
  <2>1. CASE FreeStream
    <3>1. /\ live' = live \ {cur_stream}
          /\ UNCHANGED <<opened, cur_stream, kind, thread, abort_request>>
      BY <2>1 DEF FreeStream, Freed
    <3> QED
      BY <3>1 DEF TStreams
  <2>2. CASE ClearStream
    <3>1. /\ cur_stream' = 0
          /\ UNCHANGED <<opened, kind, live, thread, abort_request>>
      BY <2>2 DEF ClearStream, NoStream, stream
    <3>2. opened \in Nat /\ 0 \in 0 .. opened
      BY PlayerAssumption DEF TStreams
    <3> QED
      BY <3>1, <3>2 DEF TStreams
  <2> QED
    BY <1>4, <2>1, <2>2
<1>5. CASE NoKey \/ PressTriangle \/ Refresh \/ CheckError \/ Return \/ NoNext
          \/ ExitGame \/ ExitFromMenu
  BY <1>5
     DEF CheckError, ExitFromMenu, ExitGame, NoKey, NoNext, PressTriangle,
     Refresh, Return, TStreams, stream, flags, power, saved, main_side, others
<1>6. ASSUME NEW s \in Streams, OpenFile(s)
      PROVE  TStreams'
  BY <1>6, MovedThread
     DEF OpenFile, Running, Decoding, stream, flags, power, saved, main_side,
     others
<1>7. ASSUME NEW s \in Streams, ConfirmError(s) \/ ReadError(s)
      PROVE  TStreams'
  BY <1>7, MovedThread
     DEF ConfirmError, ReadError, Running, Decoding, stream, flags, power,
     saved, main_side, others
<1>8. ASSUME NEW s \in Streams, SeesAbort(s) \/ CloseFile(s)
      PROVE  TStreams'
  BY <1>8, MovedThread
     DEF CloseFile, SeesAbort, Running, Decoding, stream, flags, power, saved,
     main_side, others
<1>9. ASSUME NEW s \in Streams, ExitFromBox(s) \/ ReachEnd(s) \/ ServeSeek(s)
      PROVE  TStreams'
  BY <1>9
     DEF ExitFromBox, ReachEnd, ServeSeek, TStreams, stream, flags, power,
     saved, main_side, others
<1>10. CASE AudioCallback \/ ExitCallback \/ Suspend \/ Resume \/ Stutter
  BY <1>10
     DEF AudioCallback, ExitCallback, Resume, Stutter, Suspend, Ended, vars,
     TStreams, stream, flags, power, saved, main_side, others
<1>11. CASE AssignStream
  <2>1. cur_stream' = opened /\ UNCHANGED <<stream, thread, abort_request>>
    BY <1>11 DEF AssignStream
  <2>2. opened \in 0 .. opened
    BY PlayerAssumption DEF TStreams
  <2> QED
    BY <2>1, <2>2 DEF TStreams, stream
<1> QED
  BY <1>1, <1>2, <1>3, <1>4, <1>5, <1>6, <1>7, <1>8, <1>9, <1>10, <1>11
     DEF Action

(* The flags.                                                              *)
LEMMA TypeFlags ==
  ASSUME TStreams, TFlags, Action
  PROVE  TFlags'
<1>1. ASSUME NEW k \in Kinds, ChooseFile(k) \/ OpenNext(k)
      PROVE  TFlags'
  BY <1>1
     DEF ChooseFile, OpenNext, StreamOpen, TFlags, stream, flags, power,
     saved, main_side, others
<1>2. CASE NoKey \/ PressTriangle \/ PressSquare \/ PressTrigger
          \/ Refresh \/ CheckFinished
          \/ CheckSleep \/ CheckError \/ CheckDone \/ FreeStream \/ ClearStream
          \/ Return \/ NoNext \/ ReopenSaved \/ ExitGame \/ ExitFromMenu
          \/ AssignStream
  BY <1>2
     DEF AssignStream, CheckDone, CheckError, CheckFinished, CheckSleep,
     ClearStream, ExitFromMenu, ExitGame, FreeStream, NoKey, NoNext,
     PressSquare, PressTriangle, PressTrigger, Raised, Refresh, ReopenSaved,
     Return, DoExit, StreamOpen, TFlags, stream, flags, power, saved,
     main_side, others
<1>3. ASSUME NEW s \in Streams, OpenFile(s) \/ ConfirmError(s)
           \/ ExitFromBox(s) \/ ReachEnd(s) \/ ReadError(s) \/ ServeSeek(s)
           \/ SeesAbort(s) \/ CloseFile(s)
      PROVE  TFlags'
  BY <1>3
     DEF CloseFile, ConfirmError, ExitFromBox, OpenFile, ReachEnd, ReadError,
     SeesAbort, ServeSeek, TFlags, Removed, stream, flags, power, saved,
     main_side, others
<1>4. CASE Suspend
  BY <1>4, PlayerAssumption
     DEF Suspend, TFlags, TStreams, Streams, NoStream, stream, flags, power,
     saved, main_side, others
<1>5. CASE AudioCallback \/ ExitCallback \/ Resume \/ Stutter
  BY <1>5
     DEF AudioCallback, ExitCallback, Resume, Stutter, Ended, vars, TFlags,
     stream, flags, power, saved, main_side, others
<1> QED
  BY <1>1, <1>2, <1>3, <1>4, <1>5 DEF Action

(* The file of a suspension.                                               *)
LEMMA SavedStep ==
  ASSUME TStreams, TFlags, SavedExists, Action
  PROVE  SavedExists'
<1>1. ASSUME NEW k \in Kinds, ChooseFile(k) \/ OpenNext(k)
      PROVE  SavedExists'
  BY <1>1
     DEF ChooseFile, OpenNext, StreamOpen, SavedExists, stream, flags, power,
     saved, main_side, others
<1>2. CASE NoKey \/ PressTriangle \/ PressSquare \/ PressTrigger
          \/ Refresh \/ CheckFinished
          \/ CheckSleep \/ CheckError \/ CheckDone \/ FreeStream \/ ClearStream
          \/ Return \/ NoNext \/ ReopenSaved \/ ExitGame \/ ExitFromMenu
          \/ AssignStream
  BY <1>2
     DEF AssignStream, CheckDone, CheckError, CheckFinished, CheckSleep,
     ClearStream, ExitFromMenu, ExitGame, FreeStream, NoKey, NoNext,
     PressSquare, PressTriangle, PressTrigger, Refresh, ReopenSaved, Return,
     DoExit, StreamOpen, SavedExists, TFlags, stream, flags, power, saved,
     main_side, others
<1>3. ASSUME NEW s \in Streams, OpenFile(s) \/ ConfirmError(s)
           \/ ExitFromBox(s) \/ ReachEnd(s) \/ ReadError(s) \/ ServeSeek(s)
           \/ SeesAbort(s) \/ CloseFile(s)
      PROVE  SavedExists'
  BY <1>3
     DEF CloseFile, ConfirmError, ExitFromBox, OpenFile, ReachEnd, ReadError,
     SeesAbort, ServeSeek, SavedExists, stream, flags, power, saved,
     main_side, others
<1>4. CASE Suspend
  BY <1>4, PlayerAssumption
     DEF Suspend, SavedExists, TFlags, TStreams, Streams, NoStream, stream,
     flags, power, saved, main_side, others
<1>5. CASE AudioCallback \/ ExitCallback \/ Resume \/ Stutter
  BY <1>5
     DEF AudioCallback, ExitCallback, Resume, Stutter, Ended, vars,
     SavedExists, Remembered, stream, flags, power, saved, main_side, others
<1> QED
  BY <1>1, <1>2, <1>3, <1>4, <1>5 DEF Action

(* A Decode thread and its VideoState.                                     *)
LEMMA OutlivesStep ==
  ASSUME TStreams, StateOutlivesThread, Action
  PROVE  StateOutlivesThread'
<1>1. ASSUME NEW k \in Kinds, ChooseFile(k) \/ OpenNext(k)
      PROVE  StateOutlivesThread'
  BY <1>1
     DEF ChooseFile, OpenNext, StreamOpen, StateOutlivesThread, Running,
     Decoding, TStreams, Streams, stream, flags, power, saved, main_side,
     others
<1>2. CASE ReopenSaved
  BY <1>2
     DEF ReopenSaved, StreamOpen, StateOutlivesThread, Running, Decoding,
     TStreams, Streams, stream, flags, power, saved, main_side, others
<1>3. CASE FreeStream
  BY <1>3
     DEF FreeStream, StateOutlivesThread, Running, Decoding, Freed,
     ThreadEnded, stream, flags, power, saved, main_side, others
<1>4. CASE NoKey \/ PressTriangle \/ PressSquare \/ PressTrigger
          \/ Refresh \/ CheckFinished
          \/ CheckSleep \/ CheckError \/ CheckDone \/ ClearStream \/ Return \/
          NoNext
          \/ ExitGame \/ ExitFromMenu
          \/ AssignStream
  BY <1>4
     DEF AssignStream, CheckDone, CheckError, CheckFinished, CheckSleep,
     ClearStream, ExitFromMenu, ExitGame, NoKey, NoNext, PressSquare,
     PressTriangle, PressTrigger, Refresh, Return, DoExit,
     StateOutlivesThread, stream, flags, power, saved, main_side, others
<1>5. ASSUME NEW s \in Streams, OpenFile(s) \/ ConfirmError(s)
           \/ ExitFromBox(s) \/ ReachEnd(s) \/ ReadError(s) \/ ServeSeek(s)
           \/ SeesAbort(s) \/ CloseFile(s)
      PROVE  StateOutlivesThread'
  BY <1>5
     DEF CloseFile, ConfirmError, ExitFromBox, OpenFile, ReachEnd, ReadError,
     SeesAbort, ServeSeek, StateOutlivesThread, Running, Decoding, TStreams,
     PollsAbort, stream, flags, power, saved, main_side, others
<1>6. CASE AudioCallback \/ ExitCallback \/ Suspend \/ Resume \/ Stutter
  BY <1>6
     DEF AudioCallback, ExitCallback, Resume, Stutter, Suspend, Ended, vars,
     StateOutlivesThread, stream, flags, power, saved, main_side, others
<1> QED
  BY <1>1, <1>2, <1>3, <1>4, <1>5, <1>6 DEF Action

LEMMA NextIInv == IInv /\ [Next]_vars => IInv'
<1> SUFFICES ASSUME IInv, [Next]_vars
             PROVE  IInv'
  OBVIOUS
<1>1. Action
  BY NextIsAction
<1>2. TMain /\ TStreams /\ TFlags /\ SavedExists /\ StateOutlivesThread
  BY TypeParts DEF IInv
<1>3. TMain'
  BY <1>1, <1>2, TypeMain
<1>4. TStreams'
  BY <1>1, <1>2, TypeStreams
<1>5. TFlags'
  BY <1>1, <1>2, TypeFlags
<1>6. TypeOK'
  BY <1>3, <1>4, <1>5 DEF TypeOK, TMain, TStreams, TFlags, Call, Opener
<1>7. SavedExists'
  BY <1>1, <1>2, SavedStep
<1>8. StateOutlivesThread'
  BY <1>1, <1>2, OutlivesStep
<1> QED
  BY <1>6, <1>7, <1>8 DEF IInv

(* The invariant that holds whatever the files are.                        *)
THEOREM Invariance == Spec => []IInv
BY InitIInv, NextIInv, PTL DEF Spec

(* Type correctness, and that every stream that was opened has a file.     *)
THEOREM TypeCorrect == Spec => []TypeOK
<1>1. IInv => TypeOK
  BY DEF IInv
<1> QED
  BY <1>1, Invariance, PTL

(* No VideoState is freed while its Decode thread runs.                    *)
THEOREM Outlives == Spec => []StateOutlivesThread
<1>1. IInv => StateOutlivesThread
  BY DEF IInv
<1> QED
  BY <1>1, Invariance, PTL

-----------------------------------------------------------------------------
(* Files that open and have audio.                                         *)
Good == {"av", "music"}

NoErrors == /\ catched_error = 0
            /\ saved_filename \in Good \cup {NoFile}
            /\ \A s \in 1 .. opened : kind[s] \in Good /\ thread[s] # "box"

OnlyCurrent == live \subseteq {Latest}

(* From a do_exit to the return of the next stream_open cur_stream is      *)
(* NULL, and the program crashes nowhere else.                             *)
NoStreamBetween ==
  /\ main \in {"menu", "assign", "crashed"} \cup Call => cur_stream = NoStream
  /\ main = "assign" => after \in Opener
  /\ main = "freed" => live = {}

(* The callback is installed while the latest stream's audio is open.      *)
CallbackPlays ==
  installed = 1 => /\ Latest \in live
                   /\ thread[Latest] \in {"reading", "waiting", "closing"}

(* A video that plays has its clock.                                       *)
VideoFast ==
  \A s \in Streams :
    thread[s] \in {"reading", "waiting"} /\ HasVideo(s) => cpu_freq >= 266

GInv == /\ NoErrors /\ NoStreamBetween /\ OnlyCurrent /\ CallbackPlays
        /\ VideoFast

LEMMA InitGInv == Init => GInv
BY DEF Init, GInv, NoErrors, NoStreamBetween, OnlyCurrent, CallbackPlays,
   VideoFast, Call, Good, NoStream, NoFile

(* A file that was opened stays what it is.                                *)
LEMMA GoodBefore ==
  ASSUME TStreams, AllGood', Action
  PROVE  AllGood
<1>1. \/ UNCHANGED <<opened, kind>>
      \/ \E k \in Kind, then \in Opener : StreamOpen(k, then)
  <2>1. ASSUME NEW k \in Kinds, ChooseFile(k) \/ OpenNext(k)
        PROVE  \E l \in Kind, then \in Opener : StreamOpen(l, then)
    BY <2>1, PlayerAssumption DEF ChooseFile, OpenNext, Opener
  <2>2. CASE ReopenSaved
    <3>1. StreamOpen(saved_filename, "error")
      BY <2>2 DEF ReopenSaved
    <3>2. /\ kind' = [kind EXCEPT ![opened + 1] = saved_filename]
          /\ opened' = opened + 1
          /\ opened + 1 \in Streams /\ opened + 1 \in 1 .. opened'
      BY <3>1, PlayerAssumption DEF StreamOpen, TStreams, Streams
    <3>3. saved_filename \in Kind
      BY <3>2 DEF AllGood, Kind, TStreams
    <3> QED
      BY <3>1, <3>3 DEF Opener
  <2>3. CASE NoKey \/ PressTriangle \/ PressSquare \/ PressTrigger \/ Refresh
            \/ CheckFinished \/ CheckSleep \/ CheckError \/ CheckDone
            \/ FreeStream \/ ClearStream \/ Return \/ NoNext \/ ExitGame
            \/ ExitFromMenu \/ AssignStream
    BY <2>3
       DEF AssignStream, CheckDone, CheckError, CheckFinished, CheckSleep,
       ClearStream, ExitFromMenu, ExitGame, FreeStream, NoKey, NoNext,
       PressSquare, PressTriangle, PressTrigger, Refresh, Return, stream
  <2>4. ASSUME NEW s \in Streams, OpenFile(s) \/ ConfirmError(s)
             \/ ExitFromBox(s) \/ ReachEnd(s) \/ ReadError(s) \/ ServeSeek(s)
             \/ SeesAbort(s) \/ CloseFile(s)
        PROVE  UNCHANGED <<opened, kind>>
    BY <2>4
       DEF CloseFile, ConfirmError, ExitFromBox, OpenFile, ReachEnd,
       ReadError, SeesAbort, ServeSeek, stream, main_side
  <2>5. CASE AudioCallback \/ ExitCallback \/ Suspend \/ Resume \/ Stutter
    BY <2>5
       DEF AudioCallback, ExitCallback, Resume, Stutter, Suspend, Ended, vars,
       stream, main_side, others
  <2> QED
    BY <2>1, <2>2, <2>3, <2>4, <2>5 DEF Action
<1>2. CASE UNCHANGED <<opened, kind>>
  BY <1>2 DEF AllGood
<1>3. ASSUME NEW k \in Kind, NEW then \in Opener, StreamOpen(k, then)
      PROVE  AllGood
  <2> SUFFICES ASSUME NEW s \in 1 .. opened
               PROVE  kind[s] \in {"av", "music"}
    BY DEF AllGood
  <2>1. /\ opened \in Nat /\ opened' = opened + 1
        /\ kind' = [kind EXCEPT ![opened + 1] = k]
    BY <1>3, PlayerAssumption DEF StreamOpen, TStreams
  <2>2. s \in 1 .. opened' /\ s # opened + 1 /\ s \in Streams
    BY <2>1, PlayerAssumption DEF TStreams, Streams
  <2>3. kind'[s] = kind[s]
    BY <2>1, <2>2 DEF TStreams
  <2> QED
    BY <2>2, <2>3 DEF AllGood
<1> QED
  BY <1>1, <1>2, <1>3

(* Nothing fails.                                                          *)
LEMMA ErrorsStep ==
  ASSUME AllGood', TStreams, TFlags, StateOutlivesThread, SavedExists,
         NoErrors, Action
  PROVE  NoErrors'
<1>1. ASSUME NEW k \in Kind, NEW then, StreamOpen(k, then),
             UNCHANGED <<catched_error, saved_filename>>
      PROVE  NoErrors'
  <2>1. /\ opened \in Nat /\ opened' = opened + 1
        /\ opened + 1 \in Streams
        /\ thread' = [thread EXCEPT ![opened + 1] = "opening"]
    BY <1>1, PlayerAssumption DEF StreamOpen, TStreams, Streams
  <2>2. ASSUME NEW s \in 1 .. opened'
        PROVE  kind'[s] \in Good /\ thread'[s] # "box"
    <3>1. kind'[s] \in Good
      BY DEF AllGood, Good
    <3>2. s \in Streams
      BY <2>1, PlayerAssumption DEF Streams
    <3>3. CASE s = opened + 1
      BY <3>1, <3>2, <3>3, <2>1 DEF TStreams
    <3>4. CASE s # opened + 1
      <4>1. s \in 1 .. opened
        BY <2>1, <3>4
      <4> QED
        BY <4>1, <3>1, <3>2, <3>4, <2>1 DEF TStreams, NoErrors
    <3> QED
      BY <3>1, <3>3, <3>4
  <2> QED
    BY <1>1, <2>2 DEF NoErrors
<1>2. CASE (\E k \in Kinds : ChooseFile(k) \/ OpenNext(k)) \/ ReopenSaved
  <2>1. ASSUME NEW k \in Kinds, ChooseFile(k) \/ OpenNext(k)
        PROVE  NoErrors'
    BY <2>1, <1>1, PlayerAssumption
       DEF ChooseFile, OpenNext, flags, power, saved
  <2>2. CASE ReopenSaved
    BY <2>2, <1>1 DEF ReopenSaved, SavedExists, flags, power, saved
  <2> QED
    BY <1>2, <2>1, <2>2
<1>3. CASE NoKey \/ PressTriangle \/ PressSquare \/ PressTrigger \/ Refresh
          \/ CheckFinished \/ CheckSleep \/ CheckError \/ CheckDone
          \/ FreeStream \/ ClearStream \/ Return \/ NoNext \/ ExitGame
          \/ ExitFromMenu \/ AssignStream
  BY <1>3
     DEF AssignStream, CheckDone, CheckError, CheckFinished, CheckSleep,
     ClearStream, ExitFromMenu, ExitGame, FreeStream, NoKey, NoNext,
     PressSquare, PressTriangle, PressTrigger, Refresh, Return, DoExit,
     NoErrors, stream, flags, power, saved, main_side, others
<1>4. ASSUME NEW s \in Streams, NEW v \in {"reading", "waiting", "closing",
                                           "ended"},
             thread' = [thread EXCEPT ![s] = v],
             UNCHANGED <<catched_error, saved_filename, opened, kind>>
      PROVE  NoErrors'
  <2>1. ASSUME NEW t \in 1 .. opened
        PROVE  thread'[t] # "box"
    BY <1>4 DEF TStreams, NoErrors
  <2> QED
    BY <1>4, <2>1 DEF NoErrors
<1>5. ASSUME NEW s \in Streams, thread[s] \in Running
      PROVE  s \in 1 .. opened
  BY <1>5 DEF StateOutlivesThread, TStreams
<1>6. ASSUME NEW s \in Streams, ConfirmError(s)
      PROVE  FALSE
  BY <1>5, <1>6 DEF ConfirmError, NoErrors, Running, Decoding
<1>7. ASSUME NEW s \in Streams, OpenFile(s)
      PROVE  NoErrors'
  <2>1. kind[s] # "bad"
    BY <1>5, <1>7 DEF OpenFile, NoErrors, Good, Running, Decoding
  <2> QED
    BY <2>1, <1>4, <1>7 DEF OpenFile, flags, saved, main_side, stream
<1>8. ASSUME NEW s \in Streams, ReadError(s) \/ SeesAbort(s) \/ CloseFile(s)
      PROVE  NoErrors'
  BY <1>4, <1>8
     DEF ReadError, SeesAbort, CloseFile, flags, saved, main_side, stream
<1>9. ASSUME NEW s \in Streams, ExitFromBox(s) \/ ReachEnd(s) \/ ServeSeek(s)
      PROVE  NoErrors'
  BY <1>9
     DEF ExitFromBox, ReachEnd, ServeSeek, NoErrors, stream, flags, saved,
     main_side
<1>10. CASE Suspend
  BY <1>10, PlayerAssumption
     DEF Suspend, NoErrors, TStreams, NoStream, stream, flags, others
<1>11. CASE AudioCallback \/ ExitCallback \/ Resume \/ Stutter
  BY <1>11
     DEF AudioCallback, ExitCallback, Resume, Stutter, Ended, vars, NoErrors,
     stream, flags, power, saved, main_side, others
<1> QED
  BY <1>2, <1>3, <1>6, <1>7, <1>8, <1>9, <1>10, <1>11 DEF Action

(* No stream between two.                                                  *)
LEMMA BetweenStep ==
  ASSUME TMain, TStreams, NoErrors, OnlyCurrent, NoStreamBetween, Action
  PROVE  NoStreamBetween'
<1>1. ASSUME NEW k \in Kinds, ChooseFile(k) \/ OpenNext(k)
      PROVE  NoStreamBetween'
  BY <1>1
     DEF ChooseFile, OpenNext, StreamOpen, NoStreamBetween, Call, Opener,
     stream, flags, power, saved, main_side, others
<1>2. CASE CheckError
  BY <1>2
     DEF AssignStream, CheckError, NoStreamBetween, Call, Opener, NoErrors,
     stream, flags, power, saved, main_side, others
<1>3. CASE FreeStream
  BY <1>3
     DEF FreeStream, NoStreamBetween, Call, Opener, Freed, OnlyCurrent,
     Latest, Assigning
<1>4. CASE ClearStream
  BY <1>4
     DEF ClearStream, NoStreamBetween, Call, Opener, TMain, stream
<1>5. CASE NoKey \/ PressTriangle \/ PressSquare \/ PressTrigger
          \/ Refresh \/ CheckFinished
          \/ CheckSleep \/ CheckDone \/ Return \/ NoNext \/ ReopenSaved \/
          ExitGame
          \/ ExitFromMenu \/ AssignStream
  BY <1>5
     DEF AssignStream, CheckDone, CheckFinished, CheckSleep, ExitFromMenu,
     ExitGame, NoKey, NoNext, PressSquare, PressTriangle, PressTrigger,
     Refresh, ReopenSaved, Return, DoExit, StreamOpen, NoStreamBetween, Call,
     Opener, stream, flags, power, saved, main_side, others
<1>6. ASSUME NEW s \in Streams, OpenFile(s) \/ ConfirmError(s)
           \/ ExitFromBox(s) \/ ReachEnd(s) \/ ReadError(s) \/ ServeSeek(s)
           \/ SeesAbort(s) \/ CloseFile(s)
      PROVE  NoStreamBetween'
  BY <1>6
     DEF CloseFile, ConfirmError, ExitFromBox, OpenFile, ReachEnd, ReadError,
     SeesAbort, ServeSeek, NoStreamBetween, Call, Opener, stream, flags,
     power, saved, main_side, others
<1>7. CASE AudioCallback \/ ExitCallback \/ Suspend \/ Resume \/ Stutter
  BY <1>7
     DEF AudioCallback, ExitCallback, Resume, Stutter, Suspend, Ended, vars,
     NoStreamBetween, Call, Opener, stream, flags, power, saved, main_side,
     others
<1> QED
  BY <1>1, <1>2, <1>3, <1>4, <1>5, <1>6, <1>7 DEF Action

(* The latest stream changes only when there is none.                      *)
LEMMA LatestStep ==
  ASSUME TMain, TStreams, StateOutlivesThread, NoErrors, NoStreamBetween,
         Action
  PROVE  \/ Latest' = Latest /\ live' \subseteq live
         \/ /\ cur_stream = NoStream /\ Latest = NoStream
            /\ installed' = installed
            /\ \/ live' = live
               \/ live' = live \cup {Latest'}
         \/ ClearStream
<1> DEFINE Goal == \/ Latest' = Latest /\ live' \subseteq live
                   \/ /\ cur_stream = NoStream /\ Latest = NoStream
                      /\ installed' = installed
                      /\ \/ live' = live
                         \/ live' = live \cup {Latest'}
                   \/ ClearStream
<1>1. ASSUME NEW k, NEW then, StreamOpen(k, then),
             main \in {"menu"} \cup Call, UNCHANGED <<cur_stream, installed>>
      PROVE  Goal
  BY <1>1 DEF StreamOpen, NoStreamBetween, Latest, Assigning, Call
<1>2. ASSUME NEW k \in Kinds, ChooseFile(k) \/ OpenNext(k)
      PROVE  Goal
  BY <1>2, <1>1 DEF ChooseFile, OpenNext, Call
<1>3. CASE ReopenSaved
  BY <1>3, <1>1 DEF ReopenSaved, Call
<1>4. CASE AssignStream
  BY <1>4 DEF AssignStream, Latest, Assigning, TMain, Call, Opener, stream
<1>5. CASE FreeStream
  BY <1>5 DEF FreeStream, Latest, Assigning, Freed
<1>6. CASE Refresh \/ CheckFinished \/ AudioCallback
  <2>1. /\ UNCHANGED <<cur_stream, opened, live, installed>>
        /\ main' = "crashed" => cur_stream = NoStream
        /\ main' # "assign"
    BY <1>6 DEF Refresh, CheckFinished, AudioCallback, DoExit, stream,
       main_side
  <2>2. main = "assign" => main' = "crashed"
    BY <1>6 DEF Refresh, CheckFinished, AudioCallback
  <2>3. main # "crashed"
    BY <1>6 DEF Refresh, CheckFinished, AudioCallback, Over
  <2> QED
    BY <2>1, <2>2, <2>3 DEF Latest, Assigning
<1>7. CASE NoKey \/ PressTriangle \/ PressSquare \/ PressTrigger
          \/ CheckSleep \/ CheckError \/ CheckDone \/ Return \/ NoNext
          \/ ExitGame \/ ExitFromMenu
  BY <1>7
     DEF CheckDone, CheckError, CheckSleep, ExitFromMenu, ExitGame, NoKey,
     NoNext, PressSquare, PressTriangle, PressTrigger, Return, DoExit, Latest,
     Assigning, stream
<1>8. ASSUME NEW s \in Streams, ExitFromBox(s)
      PROVE  Goal
  BY <1>8
     DEF ExitFromBox, NoErrors, StateOutlivesThread, TStreams, Running,
     Decoding
<1>9. ASSUME NEW s \in Streams, OpenFile(s) \/ ConfirmError(s) \/ ReachEnd(s)
           \/ ReadError(s) \/ ServeSeek(s) \/ SeesAbort(s) \/ CloseFile(s)
      PROVE  Goal
  BY <1>9
     DEF CloseFile, ConfirmError, OpenFile, ReachEnd, ReadError, SeesAbort,
     ServeSeek, Latest, Assigning, stream, main_side
<1>10. CASE ExitCallback \/ Suspend \/ Resume \/ Stutter
  BY <1>10
     DEF ExitCallback, Suspend, Resume, Stutter, Ended, vars, Latest,
     Assigning, stream, others
<1> QED
  BY <1>2, <1>3, <1>4, <1>5, <1>6, <1>7, <1>8, <1>9, <1>10 DEF Action

(* Without a stream nothing is allocated.                                  *)
LEMMA NothingLive ==
  ASSUME TStreams, OnlyCurrent, Latest = NoStream
  PROVE  live = {}
<1>1. opened \in Nat /\ 0 \notin 1 .. opened
  BY PlayerAssumption DEF TStreams
<1> QED
  BY <1>1 DEF OnlyCurrent, TStreams, NoStream

(* do_exit freed the stream before it clears cur_stream.                   *)
LEMMA NothingToClear ==
  ASSUME TStreams, OnlyCurrent, NoStreamBetween, ClearStream
  PROVE  live = {} /\ live' = {} /\ installed' = installed
<1>1. UNCHANGED <<live, installed>>
  BY DEF ClearStream, stream
<1>2. CASE main = "freed"
  BY <1>1, <1>2 DEF NoStreamBetween
<1>3. CASE main = "closing" /\ cur_stream = NoStream
  BY <1>1, <1>3, NothingLive DEF Latest, Assigning
<1> QED
  BY <1>2, <1>3 DEF ClearStream

LEMMA LeaksStep ==
  ASSUME TMain, TStreams, StateOutlivesThread, NoErrors, NoStreamBetween,
         OnlyCurrent, Action
  PROVE  OnlyCurrent'
<1>1. CASE Latest' = Latest /\ live' \subseteq live
  BY <1>1 DEF OnlyCurrent
<1>2. CASE Latest = NoStream /\ (live' = live \/ live' = live \cup {Latest'})
  BY <1>2, NothingLive DEF OnlyCurrent
<1>3. CASE ClearStream
  BY <1>3, NothingToClear DEF OnlyCurrent
<1> QED
  BY <1>1, <1>2, <1>3, LatestStep

(* The callback.                                                           *)
LEMMA CallbackStep ==
  ASSUME TMain, TStreams, TFlags, StateOutlivesThread, NoErrors,
         NoStreamBetween, OnlyCurrent, CallbackPlays, Action
  PROVE  CallbackPlays'
<1>1. CASE Latest = NoStream /\ installed' = installed
  BY <1>1, NothingLive DEF CallbackPlays
<1>2. CASE ClearStream
  BY <1>2, NothingToClear DEF CallbackPlays
<1>3. CASE Latest' = Latest /\ ~ClearStream
  <2>1. ASSUME NEW k \in Kinds, ChooseFile(k) \/ OpenNext(k)
        PROVE  CallbackPlays'
    <3>1. cur_stream = NoStream /\ installed' = installed
      BY <2>1 DEF ChooseFile, OpenNext, NoStreamBetween, Call
    <3>2. Latest = NoStream
      BY <2>1, <3>1 DEF ChooseFile, OpenNext, Latest, Assigning
    <3> QED
      BY <1>1, <3>1, <3>2
  <2>2. CASE ReopenSaved
    <3>1. cur_stream = NoStream /\ installed' = installed
      BY <2>2 DEF ReopenSaved, NoStreamBetween, Call
    <3>2. Latest = NoStream
      BY <2>2, <3>1 DEF ReopenSaved, Latest, Assigning
    <3> QED
      BY <1>1, <3>1, <3>2
  <2>3. CASE FreeStream
    BY <1>3, <2>3
       DEF FreeStream, CallbackPlays, ThreadEnded, Latest, Assigning
  <2>4. CASE NoKey \/ PressTriangle \/ PressSquare \/ PressTrigger \/ Refresh
            \/ CheckFinished \/ CheckSleep \/ CheckError \/ CheckDone
            \/ Return \/ NoNext \/ ExitGame \/ ExitFromMenu \/ AssignStream
    <3>1. UNCHANGED <<live, thread, installed>>
      BY <2>4
         DEF AssignStream, CheckDone, CheckError, CheckFinished, CheckSleep,
         ExitFromMenu, ExitGame, NoKey, NoNext, PressSquare, PressTriangle,
         PressTrigger, Refresh, Return, stream
    <3> QED
      BY <1>3, <3>1 DEF CallbackPlays
  <2>5. ASSUME NEW s \in Streams, OpenFile(s) \/ ServeSeek(s)
        PROVE  CallbackPlays'
    <3>1. UNCHANGED live /\ s \in live
      BY <2>5
         DEF OpenFile, ServeSeek, StateOutlivesThread, Running, Decoding,
         main_side, stream
    <3>2. s = Latest /\ s \in 1 .. opened
      BY <3>1 DEF OnlyCurrent, TStreams
    <3>3. thread'[s] = "reading"
      BY <2>5, <3>1, <3>2 DEF OpenFile, ServeSeek, NoErrors, Good, TStreams
    <3> QED
      BY <1>3, <3>1, <3>2, <3>3 DEF CallbackPlays
  <2>6. ASSUME NEW s \in Streams, CloseFile(s)
        PROVE  CallbackPlays'
    <3>1. s \in live /\ thread[s] = "closing"
      BY <2>6 DEF CloseFile, StateOutlivesThread, Running
    <3>2. s \in 1 .. opened
      BY <3>1 DEF TStreams
    <3>3. installed' = 0
      BY <2>6, <3>2 DEF CloseFile, Removed, HasAudio, NoErrors, Good
    <3> QED
      BY <3>3 DEF CallbackPlays
  <2>7. ASSUME NEW s \in Streams, ReadError(s) \/ SeesAbort(s)
        PROVE  CallbackPlays'
    <3>1. /\ UNCHANGED <<installed, live>>
          /\ \E v \in {"waiting", "closing"} :
               thread' = [thread EXCEPT ![s] = v]
      BY <2>7 DEF ReadError, SeesAbort, main_side, stream
    <3>2. thread \in [Streams -> Running \cup {"none", "ended"}]
      BY DEF TStreams
    <3> QED
      BY <1>3, <3>1, <3>2 DEF CallbackPlays
  <2>8. ASSUME NEW s \in Streams, ConfirmError(s) \/ ExitFromBox(s)
        PROVE  FALSE
    BY <2>8
       DEF ConfirmError, ExitFromBox, NoErrors, StateOutlivesThread, TStreams,
       Running, Decoding
  <2>9. CASE (\E s \in Streams : ReachEnd(s)) \/ AudioCallback
             \/ ExitCallback \/ Suspend \/ Resume \/ Stutter
    <3>1. UNCHANGED <<live, thread, installed>>
      BY <2>9
         DEF ReachEnd, AudioCallback, ExitCallback, Suspend, Resume, Stutter,
         Ended, vars, stream, main_side, others
    <3> QED
      BY <1>3, <3>1 DEF CallbackPlays
  <2> QED
    BY <1>3, <2>1, <2>2, <2>3, <2>4, <2>5, <2>6, <2>7, <2>8, <2>9 DEF Action
<1> QED
  BY <1>1, <1>2, <1>3, LatestStep

(* The clock.  The stream that closes is the only one that is allocated.   *)
LEMMA ClockStep ==
  ASSUME TStreams, TFlags, StateOutlivesThread, OnlyCurrent, VideoFast, Action
  PROVE  VideoFast'
<1>1. ASSUME NEW k \in Kind \cup {NoFile}, NEW then,
             StreamOpen(k, then), UNCHANGED cpu_freq
      PROVE  VideoFast'
  BY <1>1, PlayerAssumption
     DEF StreamOpen, VideoFast, HasVideo, TStreams, Streams
<1>2. CASE (\E k \in Kinds : ChooseFile(k) \/ OpenNext(k)) \/ ReopenSaved
  <2>1. ASSUME NEW k \in Kinds, ChooseFile(k) \/ OpenNext(k)
        PROVE  VideoFast'
    BY <2>1, <1>1, PlayerAssumption DEF ChooseFile, OpenNext, power
  <2>2. CASE ReopenSaved
    BY <2>2, <1>1 DEF ReopenSaved, TFlags, power
  <2> QED
    BY <1>2, <2>1, <2>2
<1>3. CASE PressTriangle
  BY <1>3
     DEF PressTriangle, Raised, VideoFast, HasVideo, TFlags, stream
<1>4. CASE NoKey \/ PressSquare \/ PressTrigger \/ Refresh
          \/ CheckFinished \/ CheckSleep \/ CheckError \/ CheckDone
          \/ FreeStream \/ ClearStream \/ Return \/ NoNext \/ ExitGame
          \/ ExitFromMenu \/ AssignStream
  BY <1>4
     DEF AssignStream, CheckDone, CheckError, CheckFinished, CheckSleep,
     ClearStream, ExitFromMenu, ExitGame, FreeStream, NoKey, NoNext,
     PressSquare, PressTrigger, Refresh, Return, VideoFast, HasVideo, stream,
     power
<1>5. ASSUME NEW s \in Streams, OpenFile(s)
      PROVE  VideoFast'
  <2>1. /\ thread' \in {[thread EXCEPT ![s] = "box"],
                        [thread EXCEPT ![s] = "reading"]}
        /\ cpu_freq' = IF HasVideo(s) THEN 266 ELSE cpu_freq
        /\ kind' = kind
    BY <1>5 DEF OpenFile, main_side, stream
  <2>2. ASSUME NEW t \in Streams, thread'[t] \in {"reading", "waiting"},
               HasVideo(t)
        PROVE  cpu_freq' >= 266
    <3>1. CASE t = s
      BY <3>1, <2>1, <2>2
    <3>2. CASE t # s
      <4>1. thread[t] \in {"reading", "waiting"}
        BY <3>2, <2>1, <2>2 DEF TStreams
      <4> QED
        BY <4>1, <2>1, <2>2 DEF VideoFast
    <3> QED
      BY <3>1, <3>2
  <2> QED
    BY <2>1, <2>2 DEF VideoFast, HasVideo
<1>6. ASSUME NEW s \in Streams, CloseFile(s)
      PROVE  VideoFast'
  <2>1. /\ thread' = [thread EXCEPT ![s] = "ended"]
        /\ thread[s] = "closing"
        /\ UNCHANGED <<kind, cur_stream, live>>
    BY <1>6 DEF CloseFile, main_side, stream
  <2>2. ASSUME NEW t \in Streams
        PROVE  thread'[t] \notin {"reading", "waiting"}
    <3>1. CASE t = s
      BY <3>1, <2>1 DEF TStreams
    <3>2. CASE t # s
      <4>1. thread[t] \notin Running
        BY <3>2, <2>1 DEF StateOutlivesThread, OnlyCurrent, Running, Decoding
      <4>2. thread'[t] = thread[t]
        BY <3>2, <2>1 DEF TStreams
      <4> QED
        BY <4>1, <4>2 DEF Running, Decoding
    <3> QED
      BY <3>1, <3>2
  <2> QED
    BY <2>2 DEF VideoFast
<1>7. ASSUME NEW s \in Streams, NEW v \in {"waiting", "closing"},
             thread[s] \in {"box", "reading", "waiting"},
             thread[s] = "box" => v = "closing",
             thread' = [thread EXCEPT ![s] = v],
             UNCHANGED <<kind, cpu_freq>>
      PROVE  VideoFast'
  BY <1>7 DEF VideoFast, HasVideo, TStreams
<1>8. ASSUME NEW s \in Streams,
             ConfirmError(s) \/ ReadError(s) \/ SeesAbort(s)
      PROVE  VideoFast'
  BY <1>7, <1>8
     DEF ConfirmError, ReadError, SeesAbort, PollsAbort, main_side, stream
<1>9. ASSUME NEW s \in Streams, ExitFromBox(s) \/ ReachEnd(s) \/ ServeSeek(s)
      PROVE  VideoFast'
  BY <1>9
     DEF ExitFromBox, ReachEnd, ServeSeek, VideoFast, HasVideo, stream,
     main_side
<1>10. CASE AudioCallback \/ ExitCallback \/ Suspend \/ Resume \/ Stutter
  BY <1>10
     DEF AudioCallback, ExitCallback, Suspend, Resume, Stutter, Ended, vars,
     VideoFast, HasVideo, stream, power, saved, main_side, others
<1> QED
  BY <1>2, <1>3, <1>4, <1>5, <1>6, <1>8, <1>9, <1>10 DEF Action

(* The invariant that holds as long as every file was good.                *)
CInv == AllGood => GInv

LEMMA NextCInv == IInv /\ CInv /\ [Next]_vars => CInv'
<1> SUFFICES ASSUME IInv, CInv, [Next]_vars, AllGood'
             PROVE  GInv'
  BY DEF CInv
<1>1. Action
  BY NextIsAction
<1>2. TMain /\ TStreams /\ TFlags /\ SavedExists /\ StateOutlivesThread
  BY TypeParts DEF IInv
<1>3. NoErrors /\ NoStreamBetween /\ OnlyCurrent /\ CallbackPlays /\ VideoFast
  BY <1>1, <1>2, GoodBefore DEF CInv, GInv
<1>4. NoErrors'
  BY <1>1, <1>2, <1>3, ErrorsStep
<1>5. NoStreamBetween'
  BY <1>1, <1>2, <1>3, BetweenStep
<1>6. OnlyCurrent'
  BY <1>1, <1>2, <1>3, LeaksStep
<1>7. CallbackPlays'
  BY <1>1, <1>2, <1>3, CallbackStep
<1>8. VideoFast'
  BY <1>1, <1>2, <1>3, ClockStep
<1> QED
  BY <1>4, <1>5, <1>6, <1>7, <1>8 DEF GInv

LEMMA GoodInvariance == Spec => [](IInv /\ CInv)
<1>1. Init => IInv /\ CInv
  BY InitIInv, InitGInv DEF CInv
<1>2. (IInv /\ CInv) /\ [Next]_vars => (IInv /\ CInv)'
  BY NextIInv, NextCInv
<1> QED
  BY <1>1, <1>2, PTL DEF Spec

(* The audio callback finds the VideoState of its stream whenever it is    *)
(* called, as long as every file opened so far has audio; or cur_stream is *)
(* NULL, because stream_open has not returned.                             *)
THEOREM Callback == Spec => []CallbackFindsStream
<1>1. IInv /\ CInv => CallbackFindsStream
  BY DEF CInv, GInv, CallbackPlays, NoStreamBetween, CallbackFindsStream,
     Assigning
<1> QED
  BY <1>1, GoodInvariance, PTL

(* A stream is freed before the next one is opened.                        *)
THEOREM Leaks == Spec => []NothingLeaks
<1>1. IInv /\ CInv => NothingLeaks
  BY DEF CInv, GInv, OnlyCurrent, NothingLeaks
<1> QED
  BY <1>1, GoodInvariance, PTL

(* One Decode thread at a time.                                            *)
THEOREM OneThread == Spec => [](AllGood => OneDecodingThread)
<1>1. IInv /\ CInv => (AllGood => OneDecodingThread)
  BY DEF IInv, CInv, GInv, StateOutlivesThread, OnlyCurrent,
     OneDecodingThread, Running
<1> QED
  BY <1>1, GoodInvariance, PTL

(* A video that plays keeps its clock.                                     *)
THEOREM Clock == Spec => []VideoClock
<1>1. IInv /\ CInv => VideoClock
  BY DEF CInv, GInv, VideoFast, VideoClock
<1> QED
  BY <1>1, GoodInvariance, PTL

-----------------------------------------------------------------------------
(* do_exit waits for the Decode thread: what keeps it from returning is    *)
(* only an error box that nobody confirms.  This holds of every file.      *)

(* The guards of what the Decode thread does by itself.                    *)
DecodeReady(s) == \/ thread[s] \in {"opening", "closing"}
                  \/ thread[s] = "box" /\ BoxSeesDone
                  \/ PollsAbort(s) /\ abort_request[s] = 1

(* The stream that is being closed was told so, and has a thread.          *)
ToldToAbort ==
  main = "closing" /\ cur_stream # NoStream =>
    abort_request[cur_stream] = 1 /\ thread[cur_stream] # "none"

(* Steps of the Decode thread to its end.                                  *)
Left == [opening |-> 5, box |-> 4, reading |-> 4, waiting |-> 3,
         closing |-> 2, ended |-> 1, none |-> 0]

(* The main thread waits only for a thread that has ended, can go on, or   *)
(* shows its error.                                                        *)
CloseNotStuck ==
  main = "closing" =>
    \/ cur_stream = NoStream \/ ThreadEnded
    \/ DecodeReady(cur_stream) \/ thread[cur_stream] = "box"

(* During the wait the Decode thread never goes back, and every step it    *)
(* takes by itself brings it nearer to its end, or ends the program.       *)
CloseAdvances ==
  [][main = "closing" /\ cur_stream # NoStream =>
       /\ Left[thread'[cur_stream]] <= Left[thread[cur_stream]]
       /\ DecodeThread(cur_stream) =>
            \/ main' = "exited"
            \/ Left[thread'[cur_stream]] < Left[thread[cur_stream]]]_vars

LEMMA ToldStep ==
  ASSUME TMain, TStreams, ToldToAbort, Action
  PROVE  ToldToAbort'
<1>1. ASSUME NEW k \in Kinds, ChooseFile(k) \/ OpenNext(k)
      PROVE  ToldToAbort'
  BY <1>1 DEF ChooseFile, OpenNext, StreamOpen, ToldToAbort
<1>2. CASE PressSquare \/ PressTrigger \/ CheckFinished \/ CheckSleep
          \/ CheckDone
  <2>1. UNCHANGED <<cur_stream, thread>>
    BY <1>2 DEF PressSquare, PressTrigger, CheckFinished, CheckSleep, CheckDone
  <2>2. main' = "closing" =>
          abort_request' = IF cur_stream = NoStream THEN abort_request
                           ELSE [abort_request EXCEPT ![cur_stream] = 1]
    BY <1>2 DEF PressSquare, PressTrigger, CheckFinished, CheckSleep,
       CheckDone, DoExit
  <2>3. cur_stream # NoStream =>
          cur_stream \in Streams /\ thread[cur_stream] # "none"
    BY PlayerAssumption DEF TStreams, Streams, NoStream
  <2> QED
    BY <2>1, <2>2, <2>3 DEF ToldToAbort, TStreams
<1>3. CASE NoKey \/ PressTriangle \/ Refresh \/ CheckError \/ Return \/ NoNext
          \/ ExitGame \/ ExitFromMenu \/ FreeStream \/ ReopenSaved
          \/ AssignStream
  BY <1>3
     DEF AssignStream, CheckError, ExitFromMenu, ExitGame, FreeStream, NoKey,
     NoNext, PressTriangle, Refresh, ReopenSaved, Return, StreamOpen, TMain,
     Call, Opener, ToldToAbort
<1>4. CASE ClearStream
  BY <1>4 DEF ClearStream, ToldToAbort, TMain, Call, Opener
<1>5. ASSUME NEW s \in Streams, OpenFile(s) \/ ConfirmError(s) \/ ReadError(s)
           \/ SeesAbort(s) \/ CloseFile(s)
      PROVE  ToldToAbort'
  <2>1. UNCHANGED <<main, cur_stream, abort_request>>
    BY <1>5 DEF OpenFile, ConfirmError, ReadError, SeesAbort, CloseFile,
       main_side
  <2>2. \E v \in Running \cup {"ended"} : thread' = [thread EXCEPT ![s] = v]
    BY <1>5 DEF OpenFile, ConfirmError, ReadError, SeesAbort, CloseFile,
       Running, Decoding
  <2> QED
    BY <2>1, <2>2 DEF ToldToAbort, TStreams, Running, Decoding
<1>6. ASSUME NEW s \in Streams, ExitFromBox(s) \/ ReachEnd(s) \/ ServeSeek(s)
      PROVE  ToldToAbort'
  BY <1>6 DEF ExitFromBox, ReachEnd, ServeSeek, ToldToAbort, main_side
<1>7. CASE AudioCallback \/ ExitCallback \/ Suspend \/ Resume \/ Stutter
  BY <1>7 DEF AudioCallback, ExitCallback, Resume, Stutter, Suspend, Ended,
  vars, ToldToAbort,
     others
<1> QED
  BY <1>1, <1>2, <1>3, <1>4, <1>5, <1>6, <1>7 DEF Action

LEMMA Told == Spec => []ToldToAbort
<1>1. Init => ToldToAbort
  BY DEF Init, ToldToAbort
<1>2. IInv /\ ToldToAbort /\ [Next]_vars => ToldToAbort'
  BY NextIsAction, TypeParts, ToldStep DEF IInv
<1> QED
  BY <1>1, <1>2, Invariance, PTL DEF Spec

(* do_exit waits for nothing that does not come, but for the user's answer *)
(* to an error box.                                                        *)
THEOREM NeverStuck == Spec => []CloseNotStuck
<1>1. IInv /\ ToldToAbort => CloseNotStuck
  <2> SUFFICES ASSUME IInv, ToldToAbort, main = "closing",
                      cur_stream # NoStream
               PROVE  CloseNotStuck
    BY DEF CloseNotStuck
  <2>1. thread[cur_stream] \in Running \cup {"none", "ended"}
    BY PlayerAssumption, TypeParts DEF IInv, TStreams, Streams, NoStream
  <2> QED
    BY <2>1 DEF ToldToAbort, CloseNotStuck, DecodeReady, PollsAbort,
       ThreadEnded, Running, Decoding
<1> QED
  BY <1>1, Invariance, Told, PTL

(* What a step does to one Decode thread.                                  *)
LEMMA ThreadStep ==
  ASSUME TStreams, Action, main = "closing", NEW t \in 1 .. opened
  PROVE  \/ thread'[t] = thread[t] /\ (DecodeThread(t) => main' = "exited")
         \/ Left[thread'[t]] < Left[thread[t]]
<1>1. t \in Streams /\ thread \in [Streams -> Running \cup {"none", "ended"}]
  BY PlayerAssumption DEF TStreams, Streams
<1>2. CASE DecodeThread(t)
  BY <1>1, <1>2 DEF DecodeThread, OpenFile, ExitFromBox, SeesAbort, CloseFile,
     PollsAbort, Left
<1>3. CASE ConfirmError(t) \/ ReadError(t)
  BY <1>1, <1>3 DEF ConfirmError, ReadError, Left
<1>4. CASE ~(DecodeThread(t) \/ ConfirmError(t) \/ ReadError(t))
  <2>1. thread'[t] = thread[t]
    <3>1. ASSUME NEW s \in Streams, s # t,
                 OpenFile(s) \/ ConfirmError(s) \/ ReadError(s)
                   \/ SeesAbort(s) \/ CloseFile(s)
          PROVE  thread'[t] = thread[t]
      BY <1>1, <3>1 DEF OpenFile, ConfirmError, ReadError, SeesAbort, CloseFile
    <3>2. ASSUME NEW s \in Streams,
                 ExitFromBox(s) \/ ReachEnd(s) \/ ServeSeek(s)
          PROVE  thread' = thread
      BY <3>2 DEF ExitFromBox, ReachEnd, ServeSeek
    <3>3. CASE FreeStream \/ ClearStream \/ AudioCallback \/ ExitCallback
               \/ Suspend \/ Resume \/ Stutter
      BY <3>3 DEF FreeStream, ClearStream, AudioCallback, ExitCallback,
         Suspend, Resume, others, Stutter, Ended, vars
    <3>4. ~ \/ \E k \in Kinds : ChooseFile(k) \/ OpenNext(k)
            \/ ExitFromMenu \/ NoKey \/ PressTriangle \/ PressSquare
            \/ PressTrigger \/ Refresh \/ CheckFinished \/ CheckSleep
            \/ CheckError \/ CheckDone \/ Return \/ NoNext \/ ReopenSaved
            \/ ExitGame \/ AssignStream
      BY DEF AssignStream, CheckDone, CheckError, CheckFinished, CheckSleep,
      ChooseFile,
         ExitFromMenu, ExitGame, NoKey, NoNext, OpenNext, PressSquare,
         PressTriangle, PressTrigger, Refresh, ReopenSaved, Return
    <3> QED
      BY <1>4, <3>1, <3>2, <3>3, <3>4 DEF Action, DecodeThread
  <2> QED
    BY <1>4, <2>1
<1> QED
  BY <1>2, <1>3, <1>4

(* A close comes nearer to its end with every step of the Decode thread.   *)
THEOREM CloseApproaches == Spec => CloseAdvances
<1> DEFINE Step ==
      main = "closing" /\ cur_stream # NoStream =>
        /\ Left[thread'[cur_stream]] <= Left[thread[cur_stream]]
        /\ DecodeThread(cur_stream) =>
             \/ main' = "exited"
             \/ Left[thread'[cur_stream]] < Left[thread[cur_stream]]
<1>1. ASSUME IInv, Action, main = "closing", cur_stream # NoStream PROVE Step
  <2>1. TStreams /\ cur_stream \in 1 .. opened
    BY <1>1, TypeParts, PlayerAssumption DEF IInv, TStreams, NoStream
  <2>2. \/ /\ thread'[cur_stream] = thread[cur_stream]
           /\ DecodeThread(cur_stream) => main' = "exited"
        \/ Left[thread'[cur_stream]] < Left[thread[cur_stream]]
    BY <1>1, <2>1, ThreadStep
  <2>3. /\ thread[cur_stream] \in Running \cup {"none", "ended"}
        /\ thread' \in [Streams -> Running \cup {"none", "ended"}]
        /\ cur_stream \in Streams
    BY <1>1, <2>1, TypeParts, PlayerAssumption, TypeStreams
    DEF IInv, TStreams, Streams
  <2>4. Left[thread[cur_stream]] \in Nat /\ Left[thread'[cur_stream]] \in Nat
    BY <2>3 DEF Left, Running, Decoding
  <2> QED
    BY <2>2, <2>4
<1>2. IInv /\ [Next]_vars => [Step]_vars
  BY <1>1, NextIsAction
<1> QED
  BY <1>2, Invariance, PTL DEF Spec, CloseAdvances

-----------------------------------------------------------------------------
(* The exit callback sets done and nothing else: that it ends the program  *)
(* depends on the main thread looking at it on every way it can take.      *)

(* The guards of the main thread when done is set.                         *)
MainReady == CASE main = "closing" -> cur_stream = NoStream \/ ThreadEnded
               [] main = "resume" -> opened < MaxStreams
               [] main \in Over -> FALSE
               [] OTHER -> TRUE

(* The main thread goes on, or waits for a Decode thread that does: even   *)
(* an error box does not hold it up.                                       *)
ExitNotStuck ==
  done = 1 =>
    \/ main \in Over \/ AtBound \/ MainReady
    \/ main = "closing" /\ cur_stream # NoStream /\ DecodeReady(cur_stream)

(* Steps from a place of the main thread to the end of the program.        *)
ToExit == [keys |-> 22, skip |-> 19, refresh |-> 17, finished |-> 16,
           finish |-> 13, sleep |-> 11, resume |-> 8, error |-> 6, done |-> 5,
           exit |-> 2, return |-> 2, menu |-> 1, exited |-> 0, crashed |-> 0]
MainLeft == CASE main = "closing" -> ToExit[after] + 2
              [] main \in {"freed", "assign"} -> ToExit[after] + 1
              [] OTHER -> ToExit[main]

(* Once done is set it stays set, no thread takes the main thread back,    *)
(* and each step of its own, whatever the user does, is one towards the    *)
(* exit: it never goes round the loop again, nor opens a file from the     *)
(* menu.                                                                   *)
ExitAdvances == [][done = 1 => /\ done' = 1
                               /\ MainLeft' <= MainLeft
                               /\ MainThread => MainLeft' < MainLeft]_vars

THEOREM ExitNeverStuck == Spec => []ExitNotStuck
<1>1. IInv /\ CloseNotStuck => ExitNotStuck
  <2> SUFFICES ASSUME IInv, CloseNotStuck, done = 1 PROVE ExitNotStuck
    BY DEF ExitNotStuck
  <2>1. CASE main = "closing"
    BY <2>1 DEF ExitNotStuck, CloseNotStuck, MainReady, DecodeReady,
       BoxSeesDone, Over
  <2>2. CASE main = "resume"
    <3>1. opened <= MaxStreams /\ opened \in Nat /\ MaxStreams \in Nat
      BY PlayerAssumption, TypeParts DEF IInv, TStreams
    <3> QED
      BY <2>2, <3>1 DEF ExitNotStuck, AtBound, MainReady, Over
  <2>3. CASE main \notin {"closing", "resume"}
    BY <2>3 DEF ExitNotStuck, MainReady
  <2> QED
    BY <2>1, <2>2, <2>3
<1> QED
  BY <1>1, Invariance, NeverStuck, PTL

LEMMA MainLeftNatural == TMain => MainLeft \in Nat
<1> SUFFICES ASSUME TMain PROVE MainLeft \in Nat
  OBVIOUS
<1>1. /\ ToExit[after] \in Nat
      /\ main \notin {"closing", "freed", "assign"} => ToExit[main] \in Nat
  BY DEF TMain, ToExit, Loop, Over, Call, Opener
<1> QED
  BY <1>1 DEF MainLeft

LEMMA MainNearer ==
  ASSUME TMain, done = 1, MainThread
  PROVE  MainLeft' < MainLeft
<1> USE DEF MainLeft, ToExit
<1>1. CASE FreeStream
  <2>1. main = "closing" /\ main' = "freed" /\ after' = after
    BY <1>1 DEF FreeStream
  <2>2. ToExit[after] \in Nat
    BY DEF TMain, Call, Opener
  <2> QED
    BY <2>1, <2>2
<1>2. CASE ClearStream \/ AssignStream
  <2>1. /\ main \in {"freed", "closing", "assign"}
        /\ main' = after /\ after' = after
    BY <1>2 DEF ClearStream, AssignStream
  <2>2. ToExit[after] \in Nat /\ after \notin {"freed", "closing", "assign"}
    BY DEF TMain, Call, Opener
  <2> QED
    BY <2>1, <2>2
<1>3. CASE PressSquare \/ PressTrigger
  BY <1>3 DEF PressSquare, PressTrigger, DoExit
<1>4. CASE CheckFinished \/ CheckSleep \/ CheckDone
  BY <1>4 DEF CheckFinished, CheckSleep, CheckDone, DoExit
<1>5. CASE NoKey \/ PressTriangle \/ Refresh \/ CheckError
  BY <1>5 DEF NoKey, PressTriangle, Refresh, CheckError
<1>6. CASE Return \/ NoNext \/ ReopenSaved \/ ExitGame \/ ExitFromMenu
  BY <1>6 DEF Return, NoNext, ReopenSaved, ExitGame, ExitFromMenu, StreamOpen
<1>7. ASSUME NEW k \in Kinds, ChooseFile(k) \/ OpenNext(k)
      PROVE  MainLeft' < MainLeft
  BY <1>7 DEF ChooseFile, OpenNext, StreamOpen
<1> QED
  BY <1>1, <1>2, <1>3, <1>4, <1>5, <1>6, <1>7 DEF MainThread

(* Whatever the threads are doing, the exit comes nearer.                  *)
THEOREM ExitApproaches == Spec => ExitAdvances
<1>0. TMain' => (MainLeft \in Nat)'
  BY MainLeftNatural, PTL
<1> DEFINE Step == done = 1 => /\ done' = 1
                               /\ MainLeft' <= MainLeft
                               /\ MainThread => MainLeft' < MainLeft
<1>1. ASSUME IInv, IInv', MainThread, done = 1 PROVE Step
  <2>1. done' = 1
    BY <1>1 DEF MainThread, AssignStream, ChooseFile, OpenNext, ExitFromMenu,
    NoKey,
       PressTriangle, PressSquare, PressTrigger, Refresh, CheckFinished,
       CheckSleep, CheckError, CheckDone, FreeStream, ClearStream, Return,
       NoNext, ReopenSaved, ExitGame, flags
  <2>2. TMain /\ TMain'
    BY <1>1, TypeParts DEF IInv, TypeOK, TMain, Call, Opener
  <2>3. MainLeft \in Nat /\ MainLeft' \in Nat
    BY <1>0, <2>2, MainLeftNatural
  <2> QED
    BY <1>1, <2>1, <2>2, <2>3, MainNearer
<1>2. ASSUME IInv, [Next]_vars, ~MainThread, done = 1 PROVE Step
  <2>1. TMain /\ MainLeft \in Nat
    BY <1>2, TypeParts, MainLeftNatural DEF IInv
  <2>2. ASSUME (\E s \in Streams : ExitFromBox(s)) \/ AudioCallback
        PROVE  Step
    <3>1. /\ main' \in {"exited", "crashed"}
          /\ after' = after /\ done' = 1
      BY <1>2, <2>2 DEF ExitFromBox, AudioCallback, main_side, flags
    <3>2. MainLeft' = 0
      BY <3>1 DEF MainLeft, ToExit
    <3> QED
      BY <1>2, <2>1, <3>1, <3>2
  <2>3. ASSUME UNCHANGED <<main, after, done>>
        PROVE  Step
    BY <1>2, <2>1, <2>3 DEF MainLeft
  <2>4. ASSUME NEW s \in Streams,
               OpenFile(s) \/ SeesAbort(s) \/ CloseFile(s) \/ ConfirmError(s)
                 \/ ReachEnd(s) \/ ReadError(s) \/ ServeSeek(s)
        PROVE  UNCHANGED <<main, after, done>>
    BY <2>4 DEF OpenFile, SeesAbort, CloseFile, ConfirmError, ReachEnd,
       ReadError, ServeSeek, main_side, flags
  <2>5. ASSUME Suspend \/ Resume \/ Ended \/ UNCHANGED vars
        PROVE  UNCHANGED <<main, after, done>>
    BY <2>5 DEF Suspend, Resume, Ended, vars, others, flags
  <2>6. ~ExitCallback
    BY <1>2 DEF ExitCallback
  <2> QED
    BY <1>2, <2>2, <2>3, <2>4, <2>5, <2>6 DEF Next, DecodeThread
<1>3. IInv /\ IInv' /\ [Next]_vars => [Step]_vars
  BY <1>1, <1>2
<1> QED
  BY <1>3, Invariance, PTL DEF Spec, ExitAdvances
=============================================================================
