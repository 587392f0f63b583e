# PSP Media Player in TLA+

A verification development for the media player of `src/ffplay_resample`: a port
of FFmpeg's `ffplay` to the PlayStation Portable. The player shows a menu, lists
the files of a directory of the memory stick, opens one and plays it. The code is
C on the PSP's kernel: threads with fixed priorities, semaphores used as mutexes,
callbacks that another thread runs, and a second processor, the Media Engine,
that shares the memory but not the caches.

The modules are checked with TLC on small instances and proved about with TLAPS.
`ffplay.c` below is `src/ffplay_resample/ffplay.c`.

1. [The system](#1-the-system)
2. [The plan](#2-the-plan)
3. [The modules](#3-the-modules)
4. [The runs](#4-the-runs)
5. [Fairness](#5-fairness)
6. [The proofs](#6-the-proofs)
7. [Disagreements with the code's own words](#7-disagreements-with-the-codes-own-words)
8. [What is not modelled](#8-what-is-not-modelled)

## 1. The system

### Threads and processors

| Who | Started by | Runs | Speaks through |
|---|---|---|---|
| main thread | the kernel | `main`, `greeting`, `select_type`, `select_file`, `event_loop`, the refresh of the picture | `cur_stream`, fields of `VideoState`, `need_alloc`, `play_finished`, ... |
| Decode thread | `stream_open` (`ffplay.c:2690`), one per stream | `decode_thread`: opens the file, reads packets, seeks, closes | packet queues, `abort_request`, `seek_req`, `catched_error` |
| Video thread | `stream_component_open`, one per stream with video | `video_thread`: decodes, converts, queues pictures | video packet queue, picture queue, Media Engine |
| audio callback | pspaudiolib's thread, once installed | `sdl_audio_callback` | `cur_stream`, audio packet queue |
| Callback thread | `main` | `exit_callback`, `PowerCallback` | `done`, `saved_filename`, `saved_pos`, `return_from_sleep` |
| Media Engine | `me_startproc` | `me_function`, `csc_asm` | `me_struct`, read and written uncached |

### Components

For each component: its state, its operations, who it interacts with, what is hard
about it, and the properties that make it correct.

**Packet queue** (`ffplay.c:483-612`). A singly linked list `first_pkt`,
`last_pkt` with a count and a byte size under a semaphore, and `abort_request`.
Operations: init, put, get, flush, abort, end. The Decode thread puts, flushes,
aborts and ends; the Video thread or the audio callback gets. The reader checks
the size without the mutex. Hard: the interleaving of list updates with the flush
of a seek and with the close; a put whose allocation fails; the deletion of the
semaphore. Correct when it is a FIFO, its counters count it, nothing is used after
it was freed, everything is freed in the end, and closing ends.

**Picture queue** (`ffplay.c:1425-1705`). Slots with a buffer and its dimensions,
`windex`, `rindex`, `pictq_size`. The Video thread converts a frame into the slot
at `windex`; the main thread displays the one at `rindex`. When the slot has no
buffer, or one of the wrong size, the Video thread sets the global `need_alloc`
and waits until the event loop has allocated it. Hard: the indices, the request
flag and the pixels are outside the mutex, `++` and `--` on the count are reads
and writes, and a stop may come at any wait. Correct when no picture is written
while it is displayed, each fits its buffer, each is displayed once and in order,
and no thread is left when the stream is freed.

**Seek and close** (`ffplay.c:2557-2677`, `stream_component_close`). The event loop
sets `seek_req`; the Decode thread takes the semaphores of the two decoders,
removes the audio callback, moves the file, empties the queues, flushes the video
decoder, gives the semaphores back and installs the callback. On a stop it aborts
the queues, waits for the Video thread and closes the decoders. Hard: the Video
thread and the callback hold packets the flush does not see; a seek may fail in the
middle; four threads wait on each other. Correct when the decoders never run during
the seek, outdated packets are bounded, a seek is served, and a stop ends all.

**Life cycle** (`main`, `event_loop`, `stream_open`, `stream_close`, `do_exit`,
`msg_box`, the callbacks). `cur_stream`, and four flags that belong to no stream:
`catched_error`, `play_finished`, `return_from_sleep`, `done`. Hard: a flag
may be set for one stream and read for the next; the Decode thread of a stream
may be in a dialog box, at the end of the file or waiting while the main thread
closes it; the audio callback reads `cur_stream` at any moment. Correct when a
`VideoState` outlives its threads, the callback finds one, none leaks, there is one
Decode thread, and closing and the exit come to their end.

**Media Engine** (`jonny/me.c`, `jonny/me_csc.c`). `me_struct` with `start`, `end`
and the function; a job, the frame and the picture in cached memory. Hard: the
order of uncached stores, and caches that write back and drop lines by themselves.
Correct when a queued picture is whole and new in memory, the two processors never
have the same block dirty, and every conversion ends.

**Colour conversion** (`jonny/csc.c`). `csc_asm` on each half of the frame,
counting pairs of rows and blocks of eight columns; tables indexed by sums. Hard:
the boundaries. Correct when the halves together make what `csc_c` makes of the
whole frame, and the tables are never left.

**Media list** (`ffplay.c:3276-3330`, `3861-4130`). `media_file_list`,
`media_idx`, `start_idx`, `last_media_idx`, `FileName`. Moves of the selection in
`select_file`, and copies of them in `get_prev_file` and `get_next_file` that run
while music plays. Hard: wrapping, the window of lines on the screen, short and
full lists. Correct when the selection is in the list and visible, the window is
full, and both copies go around one ring.

**Sound** (`ffplay.c:1976-2181`, `libavcodec/resample.c`, `resample2.c`). The audio
driver asks for 1024 samples; `sdl_audio_callback` copies them from `audio_buf`,
which `audio_decode_frame` refills frame by frame, through `audio_resample` when
the file is below 44100 Hz. State: `audio_buf_size`, `audio_buf_index`, what is
left of the packet, `audio_clock`; in the resampler a position made of a sample, a
phase and a fraction, and the samples left of the last frame. Hard: no size fits
another; a pause, an error or the abort may come between any two frames; two
channels are resampled with one position. Correct when the driver's buffer is
filled exactly, no word is lost or repeated, the ears stay together, the resampler
does not drift, and `get_audio_clock`, which the video follows, tells what is heard.

**Refresh timer** (`ffplay.c:1330-1513`, `next_refresh_time`, `frame_timer`,
`frame_last_pts`, `frame_last_delay`, `skip_frames`). The event loop displays the
next picture when its time has come and computes the time of the one after:
the difference of the times in the file, nothing if the picture is late, twice that
if it is early. A timer that is behind sets `skip_frames`, and the Video thread drops
the next frame it decodes. Hard: the delays add up in `frame_timer`, a seek or a pause
makes everything in it wrong at once, `skip_frames` has two writers and no lock.
Correct when the screen never waits long, frames are not dropped in rows, and the
picture comes back to the sound.

**CPU clock** (`ffplay.c:2274`, `2355`, `2914`). 222 MHz, 266 for a video, 333 when
TRIANGLE is pressed. The Decode thread sets it when it opens and closes a video,
the event loop on the key. Correct when a video that plays has at least its clock.

**Left out**: text layout, clipping of bitmaps, drawing, start-up registers, FFmpeg
but for the resampler, libogg, the Hangul library. See section 8.

### How the components fit

    main thread --stop, seek, pause--> Decode thread --packets--> packet queues
        |   ^                             |    ^                    |       |
        |   +--catched_error,             |    +--- done            |       |
        |      play_finished              +--installs, removes--+   |       |
        |                                                       v   v       v
        +--need_alloc-- picture queue <--pictures-- Video thread   audio callback
        |                                              |
        +--display, skip_frames                        +--halves--> Media Engine

`Player` covers the left column and its flags, `StreamSeek` the middle with queues
of atomic operations, `PacketQueue` the inside of those operations, `PictureQueue`
the lower left, `MediaEngine` and `ColorConversion` what happens inside the
conversion step of `PictureQueue`. `VideoSync` gives the times to the display and to
the decoding of `PictureQueue`, `AudioOutput` the inside of the callback of
`StreamSeek`, with `Resampler` inside it. `FileSelector` is what `Player` leaves open
in its choice of a next file.

## 2. The plan

Done, in this order: `PacketFifo` (abstract), `PacketQueue`, `PictureQueue`,
`MediaEngine`, `ColorConversion`, `FileRing` (abstract), `FileSelector`,
`StreamSeek`, `Player`, `Resampler`, `AudioOutput`, `VideoSync`, and the proofs about all of
them, in eight modules: those about `ColorConversion` are with `MediaEngine`'s, those
about `Resampler` with `AudioOutput`'s. The clock of the CPU is in `Player`, because the paths
that should restore it are those of the streams.

What could follow:

1. **The safety core of `SyncRestored`.** The other liveness properties have theirs
   (section 6): for this one, that no refresh after the last pause, seek and slow
   frame takes the picture further from the sound.
2. **The clock of the video.** `get_video_clock` and the pause: `stream_pause` sets `paused` before
   it reads the clock (`ffplay.c:1410-1414`), so that the time since the last
   picture is left out; in a file without sound a seek starts from that clock.
3. **An abstract player** (closed, opening, playing, closing) implemented by
   `Player`, and a composition of `Player` with `FileSelector`.
4. **TextLayout** and the clipping of `mydrawbmp.c`, as operators against a
   reference definition.

## 3. The modules

In every module a `VARIABLE` has the name of the C variable it stands for where
there is one; `vpc`, `mpc`, `dpc`, `ppc`, `cpc`, `apc`, `mepc` are places in a
thread's code. An operator whose name ends in a word after an underscore
(`QueueFull_counted`, `BelowWindow_late`) is a **mutant** of the definition without it:
the same code with a plausible bug, which some property must notice. Nothing uses
it otherwise.

### PacketFifo, PacketQueue

`PacketFifo` is the promise: a sequence, put at one end, taken from the other,
emptied by a flush. `PacketQueue` is the code for the video queue with its two
threads. Each critical section is several steps, so that readers without the
mutex see the states between. `packet_queue_put` takes the mutex
(`PutEnter`), allocates a node, which may fail (`PutFail`), links it (`PutLink`) and
counts it (`PutCount`); get and flush likewise. `ReadFrame` joins the checks at the top of the Decode thread's loop
with the read; `StreamSeek` has them apart. Heap: `nodes` and `payloads` are what
is allocated, `lost` what nobody will free; freeing is explicit.

### PictureQueue

`queue_picture`, `alloc_picture`, `video_refresh_timer` as far as it displays and
dequeues, opening and closing. The priorities of the threads are in the code
(the Video thread runs above the main thread), so what the Video thread does
between two sleeps is one step, while the main thread may be preempted between
any two: `TakeEnter` and `TakeWrite` are the read and the write of `--`.
`alloc_picture` makes two allocations that fail apart: the `AVFrame` (`AllocFrame`)
and the buffer (`AllocBuffer`). A buffer is of 272 lines whatever the frame is
(`ffplay.c:1599`). The file's width is checked when it is opened, its height is not;
frames that are too high are the dimensions `Tall`. `queue_picture` looks at the
`AVFrame` only (`ffplay.c:1674`): without a buffer, or with a frame that is too high,
the conversion writes outside. What that does to the memory is beyond the model; what it
may do to the thread is to go on (`Convert`) or to wait for a Media Engine that does
not answer any more (`Overrun`, `vpc = "hung"`).
`need_alloc` outlives the stream, as in the code. The model can reach
`mpc = "crashed"`: an allocation request left by an aborted stream makes
`alloc_picture` use the next stream's `video_st` before it is set
(`ffplay.c:3102`).

### MediaEngine, ColorConversion

`MediaEngine` gives each processor a cache of lines per block (`cpu`, `me`, with
`cpu_dirty`, `me_dirty`), which `Evict` writes back and drops at any time, and one
action per store, flush and wait of `me_start`, `me_wait`, `me_function` and
`me_csc`. `Evict` is what makes a missing flush visible: without it memory would be
stale in every run, with it memory is stale in some.

`ColorConversion` has one step per pass of `h_loop` on either processor; a row of
the result is the chroma row it was made with. The width and the tables are
constant-level operators in the second part of `MediaEngine_proof`. Heights are multiples of
four, which `README.PSP` asks of files and the code does not check.

### FileRing, FileSelector

`FileRing` is a list and a selection that goes to either neighbour around it.
`FileSelector` is `file_list_init`, the keys of `select_file`, `get_prev_file`,
`get_next_file` and the parts of `event_loop` that call them. It leaves out
`last_start_idx`, which is written and never used, and the return from sleep, which
is in `Player`. It reaches `nostream` and `crashed`: when the only music file
ends, the stream is closed and the loop goes on with `cur_stream` NULL
(`ffplay.c:3128`).

### StreamSeek

The Decode thread's loop, one action per call of the seek and the close; the Video
thread (pause, get, lock, decode, output); the audio callback (frame left, lock,
decode, get). A packet is the file position it was read after, which is all that
the properties tell apart. The packet queues are FIFOs with atomic operations:
`PacketQueue`'s refinement of `PacketFifo` is what justifies that for get, put and
flush. `SeekFile` may fail. A running callback goes on after
`pspAudioSetChannelCallback(0, NULL, NULL)`: the code does not wait for it.

### Player

`Player` has one action per place where `event_loop` or `main` leaves its straight
line, and the Decode thread's life (opening, error box, reading, waiting, closing,
ended). `DoExit`, `FreeStream` and `ClearStream` are `do_exit` in three steps: it
waits, frees, and only then clears `cur_stream`, so the callbacks can run between.
`StreamOpen` starts the Decode thread and `AssignStream` sets `cur_stream`, when
`stream_open` has returned: the thread, which has the higher priority, may have opened the
file and installed the audio callback before. `AudioCallback` is the call that reads
`cur_stream` as NULL. The callback is installed before the codec is opened
(`ffplay.c:2230`, `2248`): a file whose sound cannot be played may leave it there.
`Kind` is what a file turns out to be: audio and video, audio only, video only, or
something that does not open. Reading the freed `VideoState` in `PowerCallback`
between the free and the clear is modelled as finding what was there. `cpu_freq` is
set by `OpenFile` and `CloseFile` of a video and by `PressTriangle`.

### Resampler, AudioOutput

`Resampler` is `audio_resample` with the loop of `av_resample`: `ResampleStart` takes a
frame and the room for the result, `MakeSample` is one turn of the loop,
`NextChannel` and `LastChannel` keep what was not consumed, and only the last one
moves the position in the context. It is a specification of its own (`ResampleSpec`)
and `AudioOutput` extends it. The buffer's size is computed from a float ratio: `Room`
is a set of values, one above and one below the exact one. The arithmetic of the
filter is left out.

`AudioOutput` has one action per turn of `audio_decode_frame`'s and
`sdl_audio_callback`'s loops: a frame decoded, nothing decoded, an error, a packet
taken, silence, a piece copied. What the main thread reads without a lock is written in
steps of its own: `audio_clock` where the frame is decoded, then `audio_buf_size`
(`SetSize`), then `audio_buf_index` (`ResetIndex`). `get_audio_clock` is two reads as well:
`ReadClock` keeps the clock in `pts`, and `AudioClock(pts)` is what comes out if the index
is read now. `pts` is counted from what was played at the first read, which keeps the
states few. Sizes count 16-bit words; each word of a file is
numbered, and `out` is what the driver's buffer holds, so that a lost, repeated or
swapped word shows. `synchronize_audio` returns its size unchanged while audio is the
master clock, which it is (`ffplay.c:247`). A turn of the decoding loop uses something of
the packet up: a decoder that reports no error, takes nothing and gives nothing would
keep the loop going (`ffplay.c:1987-2003`) and is left out, as are frames shorter than
the resampler's filter. A file of more than two channels below
44100 Hz has no resampler and `pc` is `crashed`.

### VideoSync

Times are differences: the clocks of the picture from the clock of the sound, the
timer from the present. `Tick` moves them all, so a file may be of any length and the
states stay finite. `Refresh` is `video_refresh_timer` for a picture, with `Nominal`,
`Corrected` and `SetTimer` for its three computations. `GetPacket` stops where the
audio queue is full, which is what bounds how far the video is ahead of the sound
after a seek or a pause. `Seek` is seen through its result: the clock of the sound
jumps, the next packets of the video are near it (`Landings`); pictures and the frame
in hand stay and are of before.

## 4. The runs

| Run | Asks | Bounds and why they are enough |
|---|---|---|
| `packet_queue` | is the queue a FIFO whose counters, heap and semaphore are right through seeks and the close, and does closing end both threads | 4 packets of two sizes, limit 2, 2 seeks: the list has zero, one and more nodes, passes its limit by one packet, is flushed while it is taken from, filled again and flushed again; at the close the queue is empty or full, the producer waits for room, the consumer is paused |
| `picture_queue` | are pictures whole, fitting, in order and displayed, are requests for a buffer served, does stopping end | the program's one slot; 3 pictures of three sizes, one of them too high: first allocation, no change, reallocation; each allocation may fail; a stop anywhere; 2 streams: the second meets what the first left in `need_alloc` |
| `media_engine` | does every picture arrive whole, does every conversion end | 3 pictures: each leaves stale lines in both caches for the next |
| `color_conversion` | do the halves make the whole | heights up to 40; each height is its own instance, the arithmetic is linear, and the theorem covers the rest |
| `file_selector` | is the selection in the list, visible, and on one ring | 3 lines, 5 places, up to 6 files: empty, one, shorter than the screen, longer, full, cut off |
| `stream_seek` | are the decoders excluded, how much outdated data is decoded | 2 seeks, queues full at 2 packets, 2 frames a packet: a packet held over one or two seeks, a packet decoded in part |
| `stream_seek_live` | is a seek served, does it show, does a stop end | 1 seek, queues full at 1 packet, files with audio, with video, with both |
| `player` | no stream freed under its thread, a valid callback once `stream_open` has returned, no leak, a clock for each video; closing and the exit end | 2 streams of every kind: one that leaves something behind, one that meets it |
| `player_clock` | *violation expected*: does a raised clock end with its file | 2 streams with sound |
| `player_threads` | *violation expected*: is there one Decode thread | 3 streams: one whose error is confirmed late, one that plays, one opened next to it |
| `audio_output` | is the sound complete, in step and without drift, and the clock right | rates 4 to 7, 2 phases and 3 taps: the position takes each residue and carries; frames of 3 and 5 samples and a driver's buffer of 4: a frame ends before, at and after the buffer, and may leave samples for the next; `BufSize` is the largest frame; 1 to 3 channels, 2 packets of up to 2 frames, 3 calls of the driver |
| `video_sync` | does the picture come back to the sound, are waits short and drops single | a unit is 10 ms; frames of 3 units that take 1 or 2 to decode, an event loop up to 1 late; a seek by 60, beyond `NoSync`, that lands 14 after or 5 before the sound; a pause of up to 2 |

In `video_sync` the constants keep the order of the code's: `MinDelay` and `Threshold`
are 10 ms, `FirstDelay` 40, `Second` is the least power of two above twice a frame,
and `NoSync`, 10 seconds in the code, is above all that the read-ahead (`ReadAhead`)
and a pause can put between picture and sound. That is an assumption about the file: the
48 KB of sound that are read ahead are less than 10 seconds from 40 kbit/s on. Below
that rate, or after a pause of more than 10 seconds in a file whose pictures were
ahead, the code gives up correcting, which the run does not include.

Model values are used for picture sizes only. No symmetry: the sets that would be
symmetric have two elements, and some runs check liveness.

Deadlock is checked in every run. The programs that end do so in an action
(`Finished`, `Ended`) that says where ending is right: all threads gone, the bound
reached.

### The properties worth a comment

* `HeapAccounted` (PacketQueue): all that is allocated is reachable or held by a
  thread, but for two leaks the code has: the packet of a put that failed, and the
  one the consumer held at the abort.
* `QueueBounded`: the limit may be passed by one packet, since the reader looks at
  the size before it reads.
* `DisplayOrder` (PictureQueue): what is displayed is a later picture than what was
  displayed before, never an older one or an empty slot.
* `BufferFits` (PictureQueue): a frame is converted into a slot that was made for its
  dimensions and that the main thread is not replacing; and inside the buffer, unless it is
  one of `Tall` or a buffer could not be allocated. For those two the code has no check,
  and the property says where it ends. It is for the first stream. In a second stream it fails: a request in `need_alloc` that an aborted stream
  left behind makes the event loop allocate the slot for the old size while the
  Video thread waits for the new one (`ffplay.c:3102`). With the one slot of the
  program the two threads exclude each other by the count alone; the mutex of the
  queue would matter from two slots.
* `RequestServed` says when a request for a buffer cannot be lost, although
  `need_alloc` is cleared after `allocated` was set (`ffplay.c:3105`). After an `AVFrame`
  that could not be allocated, or with two slots, it can: the Video thread asks again between the two
  and then waits until the stream is stopped.
* `StaleBounded` (StreamSeek): after a seek the video decoder is given at most one
  packet of before it, the audio decoder at most the frames of one packet. This is what the lock around the decode call, and not around the
  thread, comes to.
* `SeekShows`: after a seek, a picture of the new position is decoded, or the user
  pauses, stops or seeks again, or the file ends or fails. It depends on the callback being put back: without it the
  audio queue fills and stops the reading for the video too.
* `SkipsToAnother` (FileSelector): previous and next open another file when there is
  one, though the code tells whether there is from the selection not having moved.
* `CallbackFindsStream`, `NothingLeaks` (Player) are checked and proved, and
  `OneDecodingThread` is proved, for files that open and have audio (`AllGood`; `VideoClock` too). A seek in a file without audio
  installs the audio callback, and nothing removes it (`ffplay.c:2609`): the
  callback then meets `cur_stream = NULL`. Even for good files `CallbackFindsStream` has an
  exception: until `stream_open` has returned (`main = "assign"`) the callback may be there
  and `cur_stream` NULL. Then it is NULL, and not a state that was freed before; and the
  stream that was opened is allocated. A file that does not open leaks its
  `VideoState` (`ffplay.c:3150-3154`). The run has the other files as well, with
  the properties that hold for them.
* `ExitEnds`: the escape `AtBound` is the bound on the streams, which keeps the
  main thread from reopening a file after a sleep.
* `NoDrift` (Resampler): the position in the context is, to the fraction, the samples
  made times the step, since the file was opened: rounding never accumulates.
* `EarsAligned` (AudioOutput): as many samples for one ear as for the other, although
  the two channels are resampled one after the other from one context; and every
  word on its own side, across frames, silences and buffers.
* `ClockNear`: the clock is ahead of what was played by what `audio_buf` held, the frame
  that is decoded but not there yet, and at most what could not be decoded, in every step of
  the callback. Between the clock's step and the index's it is ahead by the old contents and
  the new frame. When the callback comes between the two reads of `get_audio_clock`, it is
  within twice `audio_buf` of what was played at the first.
* `DriverFilled` is stated for one channel and two, `ClockNear` for files that are not
  resampled: elsewhere the code is wrong in a way no document speaks of (section 8).
* `RefreshNear` (VideoSync): every refresh is at most two of the longest delays away that the
  code takes for correct. It is the sum in `frame_timer` that could grow.
* `SkipsBounded`: between two pictures at most one frame more is dropped than the queue
  has slots, although the main thread may set `skip_frames` again while the Video thread
  is about to count it down.
* `SyncRestored`: after the last pause, seek and slow frame the picture comes within
  four frames of the sound, and stays there.

## 5. Fairness

* **Weak fairness per thread.** Each loop of the code sleeps in every turn
  (`sceKernelDelayThread`) or blocks, so the kernel runs threads of lower priority;
  the two processors of `MediaEngine` run independently.
* **Strong fairness on taking a semaphore.** The PSP kernel's
  `sceKernelSignalSema` hands the count to a thread that waits; a waiter that is
  offered the semaphore again and again gets it. In the models a semaphore is a
  number, so this shows as `SF` on the actions that take it.
* **Strong fairness on reading packets** (StreamSeek): a file that goes on
  interleaves its streams, so packets of each come again and again.
* **Time** (VideoSync): `WF(Tick)`, and weak fairness of both threads. A step of the
  threads goes before time where they have something to do, which is what their
  priorities give them, except that the event loop may be `MaxLate` late.
* **The audio driver** calls when it likes; the callback, once called, runs.
* **Not fair:** keys, stops, seeks, the callbacks of the kernel, errors, the ends
  of files, the confirmation of an error box. Properties that need a stop say so
  on their left side.

`StopTerminates` therefore holds because of the aborted queues and the order of
the waits, and not because a user is assumed to act.

## 6. The proofs

Each `X_proof` module extends its component. All have the same shape: named parts
of an inductive invariant `IInv`; lemmas that each action preserves each part it can
disturb; `Invariance == Spec => []IInv`; and the theorems, which follow from it.
The constants are bounded by the named assumption of the component only
(`PacketQueueAssumption`, `StreamSeekAssumption`, ...): any number of packets,
seeks, files, lines, frames, streams.

* **PacketQueue_proof.** The type invariant is not inductive: `nb_packets` stays
  a natural number only because it counts the list. The invariant says who holds
  the mutex (`ppc` and `cpc` in the critical section against the count), that
  `first_pkt`, `next` and `last_pkt` spell `fifo` except at the named places
  inside a link or an unlink, that `fifo` is increasing in packet numbers, so that
  a node is not linked twice, and who owns every node and payload. From it:
  `TypeCorrect`, `ListCorrect`, `MemorySafe` (of nodes, packets and the semaphore),
  `NoOtherLeak`, and `Refinement`, by which every step is a step of `PacketFifo` or
  stutters. `Bounded` needs in addition that `size` is the sum of the sizes in the
  queue (`Weighed`, but for the named places in the middle of a change). The sum is the
  recursive function `BytesOf`; what is needed of it (`BytesTail`, `BytesAppend`, ...) is
  proved by induction, which here is the lemma `InductiveSet`: a set of natural numbers
  with 0 that is closed under successor is all of them, since a least number outside
  of it does not exist.
* **PictureQueue_proof.** The threads are kept apart by indices and a count that
  change at different moments. `Space` says that `windex` is `rindex` plus the
  pictures in between (`Held`: the count, one more while the Video thread has yet to
  count, one less while the main thread has yet to take), modulo the slots; written
  without a modulus, as two cases, it is linear. `Request` and `First` say that the
  buffer being allocated is not of a queued picture and that the Video thread waits
  for it, `Buffered` that a slot with an `AVFrame` has a buffer unless that failed, `OneSlot` why it cannot ask again too early, `Order` that the queued
  pictures increase from slot to slot. `Untorn`, `Fits`, `Served`, `InOrder` and
  `FreedAlone` follow, for any number of slots.
  `NoneLost` is the count itself: pictures queued are pictures displayed plus `Held`.
* **MediaEngine_proof.** The invariant fixes for each place of the Video thread which
  blocks each cache can have, and whether dirty, and what memory then holds.
  `Whole`, `Forward` follow: no choice of evictions shows a torn or old picture. Two
  facts on the way are theorems of their own that no run checks: `Ownership`, the
  engine works only between `me_start` and the end of `me_wait`, and
  `DisjointWrites`, no block is dirty in both caches. The second part of the module
  is the conversion. Heights of any size: `SplitCorrect`, and `NoOverlap`, by
  which no row is converted twice. And
  three results that no run has: every width that is a multiple of eight is
  converted column by column (`ColumnsCorrect`), the sums stay within the 812
  entries of the clamp table (`IndicesInTable`), and the table holds bytes and is
  monotone (`ClampCorrect`).
* **FileSelector_proof.** Selection, window and list in one linear invariant;
  `Refinement` shows both copies of the moves to implement `FileRing`; `Scrolls` shows
  that the window moves only when the selection would leave it.
* **StreamSeek_proof.** The invariant ties the two semaphores to the places of the
  three threads, says which packets may be older than the file position at which
  step of the seek, and counts the outdated packet a thread holds together with
  those its decoder was given. `Exclusive`, `Fresh`, `Bounded` follow.
* **Player_proof.** `IInv` (the types; a saved file whenever one may be reopened; a
  running thread has its state) gives `TypeCorrect` and `Outlives` for every kind of file. `GInv`
  (`catched_error` is never set; between a `do_exit` and the next `stream_open`
  there is no stream; at most `cur_stream`, or the stream that `stream_open` has not yet
  returned, is allocated; the callback is installed only while an audio stream plays; a video that plays has its clock) holds as long as
  every file opened so far opens and has audio, and gives `Callback`, `Leaks`, `Clock`
  and `OneThread`. That premise is needed: section 7 and the comment above show what
  breaks without it.
* **AudioOutput_proof.** First the resampler alone, for all rates, phases, filters and
  frames: what is left of a frame is shorter than the filter, the position is the
  samples made times the step (products of two unknowns, which a handful of lemmas on
  division keep away from the solver), hence `Drift` and `RoomEnough`. Then
  `Implements`: every step of the callback is a step of `ResampleSpec` or stutters,
  which carries both over (`PlayerDrift`). The callback's own invariant adds that
  `len` and what was written make the driver's buffer, that what was decoded and is in hand
  is between `audio_clock` and what was lost (`Kept`), and that the contents and the clock
  read last are bounded by `audio_buf` (`Bounded`): `Filled`, `Lossless`, `ClockFollows`.
  `BothEars` takes two more. `InStep`: a pass stops at the first position from which the
  filter would reach behind the last sample, so the number of samples that the first
  channel made is the least number that the second can come to. `Balanced`: the
  driver's buffer is written, and `audio_buf` read, in whole pairs.
* **VideoSync_proof.** `TimerInStep`: once the time of a refresh has passed,
  `frame_timer` is no later than that, so what a refresh adds to it is one delay and at
  most twice the longest (`Near`). `SkipRoom`: frames dropped since the last picture,
  the one that is to be dropped, and the pictures queued are together no more than the
  slots and one (`Skips`).

### Toward liveness

The prover does no liveness, but what a liveness property of this code rests on, besides
fairness, is safety, and that is proved, for every value of the constants:

1. **somebody can go on**: the waits of the threads never close a circle
   (`NeverStuck`, `ExitNeverStuck`, all `Spec => []...`);
2. **nobody goes round**: a natural number of steps left, which each step of the thread
   makes smaller and no step of another thread makes larger (`CloseApproaches`, ...,
   all `Spec => [][...]_vars`).

| Property checked by TLC | Proved of it |
|---|---|
| `CloseTerminates` (PacketQueue) | `NeverStuck`; `CloseApproaches`: the Decode thread from the stop on, the Video thread from the abort on, through a flush of any number of packets |
| `StopTerminates`, `QueuedIsDisplayed` (PictureQueue) | `NeverStuck`, also while a picture waits to be displayed; `StopApproaches`; both but for a thread that hangs in a conversion outside its buffer |
| `ConversionEnds` (MediaEngine) | `NeverStuck`, `ConversionApproaches`: both processors, whatever the caches do |
| `StopTerminates`, `SeekServed` (StreamSeek) | `NeverStuck`, while a seek is to be served as well; `StopApproaches`, for the three threads, and for the Decode thread from the start of a seek to its end |
| `CloseEnds` (Player) | `NeverStuck`, `CloseApproaches`: but for an error box |
| `ExitEnds` (Player) | `ExitNeverStuck`, even with an error box; `ExitApproaches`: the main thread looks at `done` on every way round its loop, whatever is pressed |
| `CallbackEnds` (AudioOutput) | `NeverStuck`, `CallbackApproaches`: every step uses up a frame or a packet or brings the return nearer |

The waits are written as state predicates (`DecodeWaits`, `VideoReady`, ...), since
`ENABLED` is out of the prover's reach, too: each repeats the guards of its thread's
actions, and on the instances of the runs TLC finds it equal to `ENABLED` of them (in
a check made beside the runs, which list properties of the code only).
What is left to TLC is the last step, from these facts and the fairness of section 5 to
`~>`, and the two properties with no entry in the table.

What the runs' cfgs do not list is the types: each `TypeOK` is a theorem
(`TypeCorrect`, `CscTypeCorrect`, `AudioTypes`).

Every invariant and every action property of the passing runs is a theorem. Only
model-checked: the liveness properties (liveness under fairness is outside of what the
prover does), of which `SeekShows` (StreamSeek) and `SyncRestored` (VideoSync) have no
theorem beside them.

## 7. Disagreements with the code's own words

* **`player_clock`.** `README.txt:20` of the player says (in Korean), after telling that a
  video starts at 266 MHz and TRIANGLE raises it to 333, that the raised clock is for the
  file that is being played only. What sets it back is the close of a video
  (`ffplay.c:2355`). TRIANGLE works while music plays, too, and music closes without
  touching the clock: the files after it play with 333 MHz until a video is opened.
* **`player_threads`.** `ffplay.c:2415-2416` justifies a global by "we have only one
  decoding thread". `event_loop` returns on `catched_error` without `do_exit`, on
  the assumption that the error is of the stream it runs. When the user leaves with
  SQUARE (or the console comes back from sleep) while the error box of a
  file is open, `do_exit` waits for the box; confirming it sets `catched_error`
  for nobody, and the next `event_loop` returns at once from a stream that plays.
  The next choice starts a second Decode thread beside it, and the first
  `VideoState` is lost.

## 8. What is not modelled

* **Floating point.** Clocks and delays are integers in `VideoSync`, exact sums and
  differences; the rounding of `double` is not seen, that of the one `float` that sizes a
  buffer is (`Room`). A `double` is written in two words, and `get_audio_clock` may read
  one old and one new, which is off by less than a millionth of its value: the models
  write it at once. Outside `VideoSync` a step that waits for a time is a step that may
  be taken.
* **The clock of a file without sound**, the refresh of the picture that stands for
  music, and single stepping, which the player cannot switch on.
* **Pixels and samples.** The arithmetic of the conversion is seen only in the
  indices into its tables, that of the resampler's filter not at all.
* **More than two channels.** The line that cuts them to two is in a comment
  (`ffplay.c:2207-2209`). The driver's buffer is for two, and the callback copies all;
  below 44100 Hz there is no resampler. `AudioOutput` has both and states its
  properties for one channel and two.
* **The clock of a resampled file.** `get_audio_clock` subtracts bytes of 44100 Hz
  stereo and divides by the bytes of the file's rate (`ffplay.c:1348-1353`): `ClockNear`
  leaves these files out.
* **Display mode, drawing**: no state to go wrong. START while an audio file plays reads
  the codec of a video stream that is NULL (`ffplay.c:2968`): one key, nothing to
  explore.
* **The audio driver.** Whether removing the callback waits for one that runs is not
  in the repository; the models let it go on. What may then be freed under it
  (`ffplay.c:2378`) is listed as a hazard and has no property.
* **FFmpeg, libogg, the Hangul library, graphics start-up**: third-party code or
  register writes, seen through the calls of `ffplay.c`. They are most of the lines of
  this repository: all of `libavcodec`, `libavformat` and `libavutil` with their
  programs `ffmpeg`, `ffserver`, `ffplay`. The player itself is `src/ffplay_resample`,
  about 18,000 lines with its tables and fonts, of which the modules cover what keeps
  state between threads. Of FFmpeg only the resampler is modelled, since its position
  is state that the player's sound depends on from one callback to the next.
* **Allocation failure** is modelled in the packet queue and in `alloc_picture`,
  where the code looks at the result or goes on with NULL; a failure to create a
  thread or a semaphore is not, nor `stream_open` returning NULL for it
  (`ffplay.c:2695`, `2728-2730`).
