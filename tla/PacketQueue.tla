----------------------------- MODULE PacketQueue -----------------------------
(***************************************************************************)
(* The video PacketQueue of ffplay.c between the Decode thread (producer)  *)
(* and the Video thread (consumer): a singly linked list with a count and  *)
(* a byte size, under a semaphore used as a mutex.  Each critical section  *)
(* is several steps, so a reader of the fields that does not hold the      *)
(* mutex sees the states between them.                                     *)
(*                                                                         *)
(* A packet is the number av_read_frame gave it, in file order.  The list  *)
(* node that packet_queue_put allocates for a packet carries its number:   *)
(* next[p] is the next field of that node.                                 *)
(***************************************************************************)
EXTENDS Integers, Sequences

CONSTANTS NumPackets,    \* packets of the stream in the file
          PacketSize,    \* pkt.size of each packet
          MaxQueueSize,  \* MAX_VIDEOQ_SIZE
          MaxSeeks       \* bound on the seek requests of the user

Packet == 1 .. NumPackets
NoPacket == 0                          \* the NULL of the list pointers

ASSUME PacketQueueAssumption ==
         /\ NumPackets \in Nat
         /\ PacketSize \in [Packet -> Nat]
         /\ MaxQueueSize \in Nat
         /\ MaxSeeks \in Nat

VARIABLES
  \* what the event loop writes
  stop,           \* VideoState.abort_request
  seek_req,       \* VideoState.seek_req
  paused,         \* VideoState.paused
  seeks,          \* seeks requested so far (bounds the model)
  \* the PacketQueue
  mutex,          \* count of the semaphore
  mutex_exists,   \* created, not yet deleted
  first_pkt, last_pkt, next,
  nb_packets, size,
  abort_request,
  \* the two threads
  ppc, cpc,       \* where the producer and the consumer are
  closing,        \* the flush in progress is the one of packet_queue_end
  cursor,         \* the loop variable of packet_queue_flush
  nread,          \* packets read so far; the last one is the producer's pkt
  got,            \* the consumer's pkt
  \* the heap, and what the list stands for
  nodes,          \* packets whose AVPacketList node is allocated
  payloads,       \* packets whose data is allocated
  lost,           \* packets nobody will free: put failed, or dropped at an abort
  fifo            \* auxiliary: the packets linked into the list, oldest first

inputs    == <<stop, seek_req, paused, seeks>>
links     == <<first_pkt, last_pkt, next, fifo>>
counters  == <<nb_packets, size>>
heap      == <<nodes, payloads, lost>>
flushing  == <<closing, cursor>>
vars == <<inputs, mutex, mutex_exists, links, counters, abort_request,
          ppc, cpc, flushing, nread, got, heap>>

-----------------------------------------------------------------------------
Init ==
  /\ stop = 0 /\ seek_req = 0 /\ paused = 0 /\ seeks = 0
  /\ mutex = 1 /\ mutex_exists = 1
  /\ first_pkt = NoPacket /\ last_pkt = NoPacket
  /\ next = [p \in Packet |-> NoPacket]
  /\ nb_packets = 0 /\ size = 0
  /\ abort_request = 0
  /\ ppc = "loop" /\ cpc = "loop"
  /\ closing = 0 /\ cursor = NoPacket
  /\ nread = 0 /\ got = NoPacket
  /\ nodes = {} /\ payloads = {} /\ lost = {}
  /\ fifo = <<>>

(* Operators whose name ends in a word after an underscore are mutants:    *)
(* the definition below them with a plausible bug, used to show that the   *)
(* properties notice it.                                                   *)

(* sceKernelWaitSema blocks until it can take the count; on a deleted      *)
(* semaphore it returns an error, which the code ignores.                  *)
WaitSema == \/ mutex_exists = 1 /\ mutex > 0 /\ mutex' = mutex - 1
            \/ mutex_exists = 0 /\ UNCHANGED mutex

\* The semaphore is created with a maximal count of 1.
SignalSema == mutex' = IF mutex_exists = 1 THEN 1 ELSE mutex

-----------------------------------------------------------------------------
(* The event loop, as far as this queue feels it.                          *)

RequestStop == /\ stop = 0
               /\ stop' = 1
               /\ UNCHANGED <<seek_req, paused, seeks, mutex, mutex_exists,
                    links, counters, abort_request, ppc, cpc, flushing,
                    nread, got, heap>>

RequestSeek == /\ seek_req = 0 /\ seeks < MaxSeeks /\ stop = 0
               /\ seek_req' = 1
               /\ seeks' = seeks + 1
               /\ UNCHANGED <<stop, paused, mutex, mutex_exists, links,
                    counters, abort_request, ppc, cpc, flushing, nread,
                    got, heap>>

TogglePause == /\ stop = 0
               /\ paused' = 1 - paused
               /\ UNCHANGED <<stop, seek_req, seeks, mutex, mutex_exists,
                    links, counters, abort_request, ppc, cpc, flushing,
                    nread, got, heap>>

-----------------------------------------------------------------------------
(* Producer: the loop of decode_thread, with its calls to put, flush,      *)
(* abort and end.  When the queue is over its limit or the file is at its  *)
(* end the loop sleeps and starts again.                                   *)

QueueFull_counted == nb_packets > MaxQueueSize
QueueFull == size > MaxQueueSize       \* read without the mutex

ReadFrame == /\ ppc = "loop" /\ stop = 0 /\ seek_req = 0
             /\ ~QueueFull
             /\ nread < NumPackets
             /\ nread' = nread + 1
             /\ payloads' = payloads \cup {nread + 1}
             /\ ppc' = "put"
             /\ UNCHANGED <<inputs, mutex, mutex_exists, links, counters,
                  abort_request, cpc, flushing, got, nodes, lost>>

PutEnter == /\ ppc = "put"
            /\ WaitSema
            /\ ppc' = "put_alloc"
            /\ UNCHANGED <<inputs, mutex_exists, links, counters,
                 abort_request, cpc, flushing, nread, got, heap>>

(* av_dup_packet or av_malloc fails: -1, which decode_thread ignores.      *)
PutFail == /\ ppc = "put_alloc"
           /\ SignalSema
           /\ lost' = lost \cup {nread}
           /\ ppc' = "loop"
           /\ UNCHANGED <<inputs, mutex_exists, links, counters,
                abort_request, cpc, flushing, nread, got, nodes, payloads>>

LinkPacket_head(p) ==
  /\ next' = [next EXCEPT ![p] = first_pkt]
  /\ first_pkt' = p
  /\ last_pkt' = IF last_pkt = NoPacket THEN p ELSE last_pkt

LinkPacket(p) ==
  /\ next' = [q \in Packet |-> IF q = p THEN NoPacket
                              ELSE IF q = last_pkt THEN p ELSE next[q]]
  /\ first_pkt' = IF last_pkt = NoPacket THEN p ELSE first_pkt
  /\ last_pkt' = p

PutLink == /\ ppc = "put_alloc"
           /\ nodes' = nodes \cup {nread}
           /\ LinkPacket(nread)
           /\ fifo' = Append(fifo, nread)
           /\ ppc' = "put_count"
           /\ UNCHANGED <<inputs, mutex, mutex_exists, counters,
                abort_request, cpc, flushing, nread, got, payloads, lost>>

PutCount == /\ ppc = "put_count"
            /\ nb_packets' = nb_packets + 1
            /\ size' = size + PacketSize[nread]
            /\ SignalSema
            /\ ppc' = "loop"
            /\ UNCHANGED <<inputs, mutex_exists, links, abort_request, cpc,
                 flushing, nread, got, heap>>

SeekPending == seek_req = 1 /\ stop = 0

(* av_seek_frame fails: nothing is flushed.                                *)
SeekFail == /\ ppc = "loop" /\ SeekPending
            /\ seek_req' = 0
            /\ UNCHANGED <<stop, paused, seeks, mutex, mutex_exists, links,
                 counters, abort_request, ppc, cpc, flushing, nread, got,
                 heap>>

Seek == /\ ppc = "loop" /\ SeekPending
        /\ ppc' = "flush"
        /\ UNCHANGED <<inputs, mutex, mutex_exists, links, counters,
             abort_request, cpc, flushing, nread, got, heap>>

FlushEnter == /\ ppc = "flush"
              /\ WaitSema
              /\ cursor' = first_pkt
              /\ ppc' = "flush_free"
              /\ UNCHANGED <<inputs, mutex_exists, links, counters,
                   abort_request, cpc, closing, nread, got, heap>>

FreeEntry_node(p) == nodes' = nodes \ {p} /\ UNCHANGED payloads
FreeEntry(p) == nodes' = nodes \ {p} /\ payloads' = payloads \ {p}

FlushFree == /\ ppc = "flush_free" /\ cursor # NoPacket
             /\ cursor' = next[cursor]
             /\ FreeEntry(cursor)
             /\ UNCHANGED <<inputs, mutex, mutex_exists, links, counters,
                  abort_request, ppc, cpc, closing, nread, got, lost>>

ResetCounters == nb_packets' = 0 /\ size' = 0

FlushReset == /\ ppc = "flush_free" /\ cursor = NoPacket
              /\ first_pkt' = NoPacket /\ last_pkt' = NoPacket
              /\ fifo' = <<>>
              /\ ResetCounters
              /\ SignalSema
              /\ IF closing = 1
                 THEN ppc' = "delete" /\ UNCHANGED seek_req
                 ELSE ppc' = "loop" /\ seek_req' = 0
              /\ UNCHANGED <<stop, paused, seeks, mutex_exists, next,
                   abort_request, cpc, flushing, nread, got, heap>>

(* stream_component_close: abort, wait for the Video thread, end.          *)
CloseStream == /\ ppc = "loop" /\ stop = 1
               /\ ppc' = "abort"
               /\ UNCHANGED <<inputs, mutex, mutex_exists, links, counters,
                    abort_request, cpc, flushing, nread, got, heap>>

AbortEnter == /\ ppc = "abort"
              /\ WaitSema
              /\ ppc' = "abort_set"
              /\ UNCHANGED <<inputs, mutex_exists, links, counters,
                   abort_request, cpc, flushing, nread, got, heap>>

AbortSet == /\ ppc = "abort_set"
            /\ abort_request' = 1
            /\ SignalSema
            /\ ppc' = "join"
            /\ UNCHANGED <<inputs, mutex_exists, links, counters, cpc,
                 flushing, nread, got, heap>>

ConsumerEnded == cpc = "done"          \* sceKernelWaitThreadEnd(video_tid)

JoinConsumer == /\ ppc = "join"
                /\ ConsumerEnded
                /\ closing' = 1
                /\ ppc' = "flush"
                /\ UNCHANGED <<inputs, mutex, mutex_exists, links, counters,
                     abort_request, cpc, cursor, nread, got, heap>>

DeleteMutex == /\ ppc = "delete"
               /\ mutex_exists' = 0
               /\ ppc' = "done"
               /\ UNCHANGED <<inputs, mutex, links, counters, abort_request,
                    cpc, flushing, nread, got, heap>>

Producer == \/ ReadFrame \/ PutEnter \/ PutFail \/ PutLink \/ PutCount
            \/ SeekFail \/ Seek \/ FlushEnter \/ FlushFree \/ FlushReset
            \/ CloseStream \/ AbortEnter \/ AbortSet \/ JoinConsumer
            \/ DeleteMutex

-----------------------------------------------------------------------------
(* Consumer: video_thread, which always gets with block = 1.               *)

MayRun_unpaused == paused = 0
MayRun == paused = 0 \/ abort_request = 1

LeavePause == /\ cpc = "loop"
              /\ MayRun
              /\ cpc' = "get"
              /\ UNCHANGED <<inputs, mutex, mutex_exists, links, counters,
                   abort_request, ppc, flushing, nread, got, heap>>

GetEnter == /\ cpc = "get"
            /\ WaitSema
            /\ cpc' = "get_test"
            /\ UNCHANGED <<inputs, mutex_exists, links, counters,
                 abort_request, ppc, flushing, nread, got, heap>>

GetAborted == /\ cpc = "get_test" /\ abort_request = 1
              /\ SignalSema
              /\ cpc' = "done"
              /\ UNCHANGED <<inputs, mutex_exists, links, counters,
                   abort_request, ppc, flushing, nread, got, heap>>

(* The list is empty: release the mutex, sleep 1 ms and try again.         *)
GetEmpty == /\ cpc = "get_test" /\ abort_request = 0
            /\ first_pkt = NoPacket
            /\ SignalSema
            /\ cpc' = "get"
            /\ UNCHANGED <<inputs, mutex_exists, links, counters,
                 abort_request, ppc, flushing, nread, got, heap>>

LastAfterGet_stale == last_pkt
LastAfterGet == IF next[first_pkt] = NoPacket THEN NoPacket ELSE last_pkt

GetUnlink == /\ cpc = "get_test" /\ abort_request = 0
             /\ first_pkt # NoPacket
             /\ got' = first_pkt
             /\ first_pkt' = next[first_pkt]
             /\ last_pkt' = LastAfterGet
             /\ fifo' = Tail(fifo)
             /\ cpc' = "get_count"
             /\ UNCHANGED <<inputs, mutex, mutex_exists, next, counters,
                  abort_request, ppc, flushing, nread, heap>>

GetCount == /\ cpc = "get_count"
            /\ nb_packets' = nb_packets - 1
            /\ size' = size - PacketSize[got]
            /\ nodes' = nodes \ {got}
            /\ SignalSema
            /\ cpc' = "decode"
            /\ UNCHANGED <<inputs, mutex_exists, links, abort_request, ppc,
                 flushing, nread, got, payloads, lost>>

(* The packet is decoded, its picture queued or skipped, and it is freed.  *)
Decode == /\ cpc = "decode"
          /\ payloads' = payloads \ {got}
          /\ cpc' = "loop"
          /\ UNCHANGED <<inputs, mutex, mutex_exists, links, counters,
               abort_request, ppc, flushing, nread, got, nodes, lost>>

(* queue_picture returns -1 because of the abort: goto the_end, past       *)
(* av_free_packet.                                                         *)
DropPicture == /\ cpc = "decode" /\ abort_request = 1
               /\ lost' = lost \cup {got}
               /\ cpc' = "done"
               /\ UNCHANGED <<inputs, mutex, mutex_exists, links, counters,
                    abort_request, ppc, flushing, nread, got, nodes, payloads>>

Consumer == \/ LeavePause \/ GetEnter \/ GetAborted \/ GetEmpty \/ GetUnlink
            \/ GetCount \/ Decode \/ DropPicture

-----------------------------------------------------------------------------
(* Both threads have returned: the stream is closed.                       *)
Finished == /\ ppc = "done" /\ cpc = "done"
            /\ UNCHANGED vars

Next == \/ RequestStop \/ RequestSeek \/ TogglePause
        \/ Producer \/ Consumer
        \/ Finished

Spec == Init /\ [][Next]_vars

(* The kernel runs every ready thread in the end (each one sleeps in every *)
(* turn of its loops), and SignalSema hands the count to a waiting thread: *)
(* a thread that is offered the mutex again and again gets it.             *)
Fairness == /\ WF_vars(Producer) /\ WF_vars(Consumer)
            /\ SF_vars(PutEnter) /\ SF_vars(FlushEnter) /\ SF_vars(AbortEnter)
            /\ SF_vars(GetEnter)

FairSpec == Spec /\ Fairness

-----------------------------------------------------------------------------
TypeOK ==
  /\ stop \in {0, 1} /\ seek_req \in {0, 1} /\ paused \in {0, 1}
  /\ seeks \in 0 .. MaxSeeks
  /\ mutex \in {0, 1} /\ mutex_exists \in {0, 1}
  /\ first_pkt \in 0 .. NumPackets /\ last_pkt \in 0 .. NumPackets
  /\ next \in [Packet -> 0 .. NumPackets]
  /\ nb_packets \in Nat /\ size \in Int
  /\ abort_request \in {0, 1}
  /\ ppc \in {"loop", "put", "put_alloc", "put_count", "flush", "flush_free",
              "abort", "abort_set", "join", "delete", "done"}
  /\ cpc \in {"loop", "get", "get_test", "get_count", "decode", "done"}
  /\ closing \in {0, 1} /\ cursor \in 0 .. NumPackets
  /\ nread \in 0 .. NumPackets /\ got \in 0 .. NumPackets
  /\ nodes \in SUBSET Packet /\ payloads \in SUBSET Packet
  /\ lost \in SUBSET Packet
  /\ fifo \in Seq(Packet)

Linked == {fifo[i] : i \in DOMAIN fifo}

\* The bytes of the first n packets of a sequence.
BytesOf(s) == LET upto[n \in 0 .. Len(s)] ==
                    IF n = 0 THEN 0 ELSE upto[n - 1] + PacketSize[s[n]]
              IN upto
QueuedBytes == BytesOf(fifo)[Len(fifo)]

(* The list between first_pkt and last_pkt is exactly the packets that     *)
(* were put and neither taken nor flushed, in that order, and it ends at   *)
(* last_pkt.                                                               *)
ListIsFifo ==
  /\ fifo = <<>> => first_pkt = NoPacket /\ last_pkt = NoPacket
  /\ fifo # <<>> => /\ first_pkt = fifo[1]
                    /\ last_pkt = fifo[Len(fifo)]
                    /\ next[last_pkt] = NoPacket
  /\ \A i \in 1 .. Len(fifo) - 1 : next[fifo[i]] = fifo[i + 1]

(* No thread is about to use what another step has freed: put writes      *)
(* last_pkt->next, get reads first_pkt, flush reads its cursor, the        *)
(* decoder reads the packet it got, and both wait for the semaphore that   *)
(* packet_queue_end deletes.                                               *)
NoUseAfterFree ==
  /\ ppc = "put_alloc" /\ last_pkt # NoPacket => last_pkt \in nodes
  /\ cpc = "get_test" /\ abort_request = 0 /\ first_pkt # NoPacket
       => first_pkt \in nodes
  /\ ppc = "flush_free" /\ cursor # NoPacket
       => cursor \in nodes /\ cursor \in payloads
  /\ cpc = "get_count" => got \in nodes
  /\ cpc \in {"get_count", "decode"} => got \in payloads
  /\ mutex_exists = 0 => cpc = "done" /\ ppc = "done"

(* Nothing is leaked but the two leaks the code has: the data of a packet  *)
(* whose put failed and of the packet whose picture was dropped at an      *)
(* abort.  Everything else that is allocated is in the list or held by the *)
(* thread that will free it.                                               *)
HeapAccounted ==
  /\ nodes \subseteq Linked \cup (IF cpc = "get_count" THEN {got} ELSE {})
  /\ payloads \subseteq
       Linked \cup lost
         \cup (IF cpc \in {"get_count", "decode"} THEN {got} ELSE {})
         \cup (IF ppc \in {"put", "put_alloc"} THEN {nread} ELSE {})
  /\ ppc = "done" => nodes = {} /\ payloads \subseteq lost

(* Whoever takes the mutex finds nb_packets and size equal to the number   *)
(* and the bytes of the packets in the list; and the limit on size, tested *)
(* without the mutex, holds back the reader: the queue never exceeds it by *)
(* more than the one packet read before the limit was passed.              *)
QueueBounded ==
  /\ mutex = 1 => nb_packets = Len(fifo) /\ size = QueuedBytes
  /\ fifo # <<>> => QueuedBytes - PacketSize[last_pkt] <= MaxQueueSize

-----------------------------------------------------------------------------
(* The queue as the threads see it is a FIFO that loses packets only in    *)
(* put, by a flush, and after an abort.                                    *)
Fifo == INSTANCE PacketFifo
          WITH contents <- fifo, newest <- nread, aborted <- (abort_request = 1)

ImplementsFifo == Fifo!Spec

(* When the user stops the player, paused or not, in the middle of a seek  *)
(* or with the queue empty or full, both threads return and the queue is   *)
(* deleted.                                                                *)
CloseTerminates == (stop = 1) ~> (ppc = "done" /\ cpc = "done")
=============================================================================
