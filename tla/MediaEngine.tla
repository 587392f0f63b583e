----------------------------- MODULE MediaEngine -----------------------------
(***************************************************************************)
(* The handshake of jonny/me.c and jonny/me_csc.c between the main CPU and *)
(* the Media Engine, two processors that share the memory but not their    *)
(* data caches.  The flags of me_struct are read and written uncached; the *)
(* job, the frame and the picture go through the caches, which write back  *)
(* and drop lines when they like, and must be flushed at the right times.  *)
(*                                                                         *)
(* On the main CPU the Video thread decodes and converts, and the main     *)
(* thread draws the clock on the picture and has it displayed by the GPU,  *)
(* which reads the memory.  The content of a block of memory is the number *)
(* of the picture it belongs to.                                           *)
(***************************************************************************)
EXTENDS Integers

CONSTANT MaxPictures    \* bound on the pictures decoded

ASSUME MediaEngineAssumption == MaxPictures \in Nat

Block == {"job",        \* the csc_struct of the Media Engine
          "frame",      \* the decoded frame
          "upper",      \* half of the picture the Media Engine converts
          "lower"}      \* half the main CPU converts
Absent == -1            \* the block has no line in a cache

VARIABLES
  mem,                  \* contents of the memory
  cpu, cpu_dirty,       \* data cache of the main CPU
  me, me_dirty,         \* data cache of the Media Engine
  start, end,           \* the me_struct: flags,
  func, param,          \* and whether the call is stored
  vpc, mepc,            \* Video thread and Media Engine
  picture,              \* last picture decoded
  ready,                \* is it queued for display
  screen                \* what the GPU read last: <<upper, lower>>

cpuside == <<cpu, cpu_dirty>>
meside == <<me, me_dirty>>
flags == <<start, end, func, param>>
vars == <<mem, cpuside, meside, flags, vpc, mepc, picture, ready, screen>>

Contents == 0 .. MaxPictures

-----------------------------------------------------------------------------
(* The caches.                                                             *)
Cold == [b \in Block |-> Absent]
Read(cache, b) == IF cache[b] # Absent THEN cache[b] ELSE mem[b]
WrittenBack(cache, dirty) == [b \in Block |-> IF b \in dirty THEN cache[b]
                                                             ELSE mem[b]]

(* me_struct_init and me_startproc: the engine polls for its first start.  *)
Init == /\ mem = [b \in Block |-> 0]
        /\ cpu = Cold /\ cpu_dirty = {}
        /\ me = Cold /\ me_dirty = {}
        /\ start = 0 /\ end = 0 /\ func = 0 /\ param = 0
        /\ vpc = "decode" /\ mepc = "poll"
        /\ picture = 0 /\ ready = 0 /\ screen = <<0, 0>>

(* A cache makes room: one line is dropped, written back if it is dirty.   *)
CpuEvict(b) == /\ cpu[b] # Absent
               /\ mem' = WrittenBack(cpu, cpu_dirty \cap {b})
               /\ cpu' = [cpu EXCEPT ![b] = Absent]
               /\ cpu_dirty' = cpu_dirty \ {b}
               /\ UNCHANGED <<meside, flags, vpc, mepc, picture, ready, screen>>

MeEvict(b) == /\ me[b] # Absent
              /\ mem' = WrittenBack(me, me_dirty \cap {b})
              /\ me' = [me EXCEPT ![b] = Absent]
              /\ me_dirty' = me_dirty \ {b}
              /\ UNCHANGED <<cpuside, flags, vpc, mepc, picture, ready, screen>>

-----------------------------------------------------------------------------
(* Main CPU: the Video thread                                              *)

DecodeFrame == /\ vpc = "decode" /\ picture < MaxPictures
               /\ picture' = picture + 1
               /\ cpu' = [cpu EXCEPT !["frame"] = picture']
               /\ cpu_dirty' = cpu_dirty \cup {"frame"}
               /\ vpc' = "space"
               /\ UNCHANGED <<mem, meside, flags, mepc, ready, screen>>

(* There is space for the picture: me_csc fills the engine's csc_struct.   *)
FillJob == /\ vpc = "space" /\ ready = 0
           /\ cpu' = [cpu EXCEPT !["job"] = picture]
           /\ cpu_dirty' = cpu_dirty \cup {"job"}
           /\ vpc' = "flush"
           /\ UNCHANGED <<mem, meside, flags, mepc, picture, ready, screen>>

CpuFlush == /\ mem' = WrittenBack(cpu, cpu_dirty)
            /\ cpu' = Cold /\ cpu_dirty' = {}

(* me_start stores end, func, param and start, in this order.              *)
StoreOrder_endlast == [flush |-> "func", func |-> "param", param |-> "start",
                       start |-> "end", end |-> "convert"]
StoreOrder == [flush |-> "end", end |-> "func", func |-> "param",
               param |-> "start", start |-> "convert"]

FlushJob_not == /\ vpc = "flush"
                /\ vpc' = StoreOrder["flush"]
                /\ UNCHANGED <<mem, cpuside, meside, flags, mepc, picture, ready,
                     screen>>
FlushJob == /\ vpc = "flush"
            /\ CpuFlush
            /\ vpc' = StoreOrder["flush"]
            /\ UNCHANGED <<meside, flags, mepc, picture, ready, screen>>

StoreFlag == /\ vpc \in {"end", "func", "param", "start"}
             /\ start' = IF vpc = "start" THEN 1 ELSE start
             /\ end' = IF vpc = "end" THEN 0 ELSE end
             /\ func' = IF vpc = "func" THEN 1 ELSE func
             /\ param' = IF vpc = "param" THEN 1 ELSE param
             /\ vpc' = StoreOrder[vpc]
             /\ UNCHANGED <<mem, cpuside, meside, mepc, picture, ready, screen>>

(* csc_asm on the lower half.                                              *)
ConvertLower == /\ vpc = "convert"
                /\ cpu' = [cpu EXCEPT !["frame"] = Read(cpu, "frame"),
                                      !["lower"] = Read(cpu, "frame")]
                /\ cpu_dirty' = cpu_dirty \cup {"lower"}
                /\ vpc' = "flush_lower"
                /\ UNCHANGED <<mem, meside, flags, mepc, picture, ready, screen>>

FlushLower == /\ vpc = "flush_lower"
              /\ CpuFlush
              /\ vpc' = "wait"
              /\ UNCHANGED <<meside, flags, mepc, picture, ready, screen>>

EngineEnded == end = 1

(* me_wait returns and the picture is queued.                              *)
QueuePicture == /\ vpc = "wait"
                /\ EngineEnded
                /\ ready' = 1
                /\ vpc' = "decode"
                /\ UNCHANGED <<mem, cpuside, meside, flags, mepc, picture, screen>>

VideoThread == \/ DecodeFrame \/ FillJob \/ FlushJob \/ StoreFlag
               \/ ConvertLower \/ FlushLower \/ QueuePicture

(* Main CPU: the main thread.  With the clock on, its digits are drawn     *)
(* over the upper half of the picture.                                     *)
DrawClock == /\ ready = 1
             /\ cpu' = [cpu EXCEPT !["upper"] = Read(cpu, "upper")]
             /\ cpu_dirty' = cpu_dirty \cup {"upper"}
             /\ UNCHANGED <<mem, meside, flags, vpc, mepc, picture, ready, screen>>

(* guDrawBuffer writes the cache back, without dropping its lines, and the *)
(* GPU reads the picture.                                                  *)
DrawBuffer == /\ ready = 1
              /\ mem' = WrittenBack(cpu, cpu_dirty)
              /\ cpu_dirty' = {}
              /\ screen' = <<mem'["upper"], mem'["lower"]>>
              /\ ready' = 0
              /\ UNCHANGED <<cpu, meside, flags, vpc, mepc, picture>>

-----------------------------------------------------------------------------
(* Media Engine: me_function                                               *)

TakeStart == /\ mepc = "poll" /\ start = 1
             /\ start' = 0
             /\ mepc' = IF func = 1 /\ param = 1 THEN "convert" ELSE "crashed"
             /\ UNCHANGED <<mem, cpuside, meside, end, func, param, vpc,
                  picture, ready, screen>>

(* csc_asm on the half and the frame that the job names.  A job or a frame *)
(* of an earlier picture gives that picture.                               *)
ConvertUpper ==
  /\ mepc = "convert"
  /\ me' = [me EXCEPT !["job"] = Read(me, "job"),
                      !["frame"] = Read(me, "frame"),
                      !["upper"] = IF Read(me, "job") < Read(me, "frame")
                                     THEN Read(me, "job")
                                     ELSE Read(me, "frame")]
  /\ me_dirty' = me_dirty \cup {"upper"}
  /\ mepc' = "flush"
  /\ UNCHANGED <<mem, cpuside, flags, vpc, picture, ready, screen>>

MeFlush_dropped == UNCHANGED <<mem, meside>>
MeFlush == /\ mem' = WrittenBack(me, me_dirty)
           /\ me' = Cold /\ me_dirty' = {}

FlushUpper == /\ mepc = "flush"
              /\ MeFlush
              /\ mepc' = "end"
              /\ UNCHANGED <<cpuside, flags, vpc, picture, ready, screen>>

SetEnd == /\ mepc = "end"
          /\ end' = 1
          /\ mepc' = "poll"
          /\ UNCHANGED <<mem, cpuside, meside, start, func, param, vpc,
               picture, ready, screen>>

Engine == TakeStart \/ ConvertUpper \/ FlushUpper \/ SetEnd

Evict == \E b \in Block : CpuEvict(b) \/ MeEvict(b)

(* No picture is left to decode or to display.                             *)
Finished == /\ vpc = "decode" /\ picture = MaxPictures /\ ready = 0
            /\ UNCHANGED vars

Next == VideoThread \/ DrawClock \/ DrawBuffer \/ Engine \/ Evict \/ Finished

Spec == Init /\ [][Next]_vars

(* Both processors run; the main thread displays what is queued.           *)
FairSpec == /\ Spec
            /\ WF_vars(VideoThread) /\ WF_vars(Engine) /\ WF_vars(DrawBuffer)

-----------------------------------------------------------------------------
TypeOK ==
  /\ mem \in [Block -> Contents]
  /\ cpu \in [Block -> Contents \cup {Absent}] /\ cpu_dirty \subseteq Block
  /\ me \in [Block -> Contents \cup {Absent}] /\ me_dirty \subseteq Block
  /\ start \in {0, 1} /\ end \in {0, 1} /\ func \in {0, 1} /\ param \in {0, 1}
  /\ vpc \in {"decode", "space", "flush", "end", "func", "param", "start",
              "convert", "flush_lower", "wait"}
  /\ mepc \in {"poll", "convert", "flush", "end"}
  /\ picture \in Contents /\ ready \in {0, 1}
  /\ screen \in Contents \X Contents

(* A queued picture is whole: both halves, as the GPU will read them, are  *)
(* of the picture that was decoded last or, once the next one is decoded,  *)
(* of the one before.                                                      *)
WholePicture ==
  ready = 1 => LET seen == WrittenBack(cpu, cpu_dirty)
               IN /\ seen["upper"] = seen["lower"]
                  /\ seen["upper"] = IF vpc = "decode" THEN picture
                                                       ELSE picture - 1

(* The engine works only while the Video thread is between its start and   *)
(* the end of its wait: the frame and the picture are not used meanwhile.  *)
EngineOwnsJob ==
  mepc # "poll" \/ start = 1 =>
    vpc \in {"convert", "flush_lower", "wait"} /\ ready = 0

(* The two processors never hold the same block dirty: a write-back of one *)
(* cannot undo what the other wrote.                                       *)
NoConflict == cpu_dirty \cap me_dirty = {}

(* Nothing torn and nothing stale reaches the screen: the pictures shown   *)
(* are whole and only go forward.                                          *)
ScreenForward ==
  [][screen' # screen => screen'[1] = screen'[2] /\ screen'[1] > screen[1]]_vars

(* Every conversion ends.                                                  *)
ConversionEnds == (vpc = "convert") ~> (vpc = "decode")
=============================================================================
