----------------------------- MODULE PacketFifo -----------------------------
(***************************************************************************)
(* What a PacketQueue promises to the threads that share it, without its   *)
(* list, its counters or its lock: packets come out in the order they were *)
(* read from the file, each at most once, a flush drops what is queued,    *)
(* and nothing comes out once the queue is aborted.                        *)
(***************************************************************************)
EXTENDS Naturals, Sequences

CONSTANT NumPackets   \* packets the demuxer can still read, numbered in file order

Packet == 1 .. NumPackets

NoPacket == 0

VARIABLES contents,   \* the queued packets, oldest first
          newest,     \* the last packet the producer offered to the queue
          aborted,    \* abort_request of the queue
          got         \* the last packet handed to the consumer

vars == <<contents, newest, aborted, got>>

Init == /\ contents = <<>>
        /\ newest = NoPacket
        /\ aborted = FALSE
        /\ got = NoPacket

\* av_malloc may fail inside packet_queue_put: the packet is then skipped.
Offer == /\ newest < NumPackets
         /\ ~aborted
         /\ newest' = newest + 1
         /\ UNCHANGED <<contents, aborted, got>>

Put == /\ ~aborted
       /\ newest \in Packet
       /\ newest > got
       /\ \A i \in DOMAIN contents : newest > contents[i]
       /\ contents' = Append(contents, newest)
       /\ UNCHANGED <<newest, aborted, got>>

Get == /\ ~aborted
       /\ contents # <<>>
       /\ got' = Head(contents)
       /\ contents' = Tail(contents)
       /\ UNCHANGED <<newest, aborted>>

Flush == /\ contents' = <<>>
         /\ UNCHANGED <<newest, aborted, got>>

Abort == /\ aborted' = TRUE
         /\ UNCHANGED <<contents, newest, got>>

Next == Offer \/ Put \/ Get \/ Flush \/ Abort

Spec == Init /\ [][Next]_vars

-----------------------------------------------------------------------------

(* No packet is handed over twice and none overtakes another one: each     *)
(* delivered packet was read later than every one delivered before it.     *)
DeliveredInOrder == [][got' # got => got' > got]_vars

(* After an abort the consumer gets nothing more.                          *)
NothingAfterAbort == [][aborted => got' = got]_vars
=============================================================================
