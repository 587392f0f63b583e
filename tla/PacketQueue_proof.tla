-------------------------- MODULE PacketQueue_proof --------------------------
(***************************************************************************)
(* Proofs about PacketQueue, for every number of packets, packet sizes,    *)
(* queue limit and number of seeks.                                        *)
(***************************************************************************)
EXTENDS PacketQueue, WellFoundedInduction, TLAPS

PInCS == ppc \in {"put_alloc", "put_count", "flush_free", "abort_set"}
CInCS == cpc \in {"get_test", "get_count"}

(* At most one thread is in a critical section, and the semaphore is down  *)
(* exactly then.                                                           *)
Exclusion ==
  /\ ~(PInCS /\ CInCS)
  /\ mutex_exists = 1 => (mutex = 0 <=> PInCS \/ CInCS)
  /\ mutex_exists = 0 <=> ppc = "done"

(* How far the close has come.                                             *)
Closing ==
  /\ closing = 1 <=> \/ ppc \in {"delete", "done"}
                     \/ ppc \in {"flush", "flush_free"} /\ abort_request = 1
  /\ abort_request = 1 =>
       ppc \in {"join", "flush", "flush_free", "delete", "done"}
  /\ ppc \in {"join", "delete", "done"} => abort_request = 1
  /\ closing = 1 => cpc = "done"
  /\ cpc = "done" => abort_request = 1
  /\ ppc \in {"delete", "done"} => fifo = <<>>

(* Packets are linked in the order they were read, after the consumer's.   *)
Ordered ==
  /\ \A i, j \in 1 .. Len(fifo) : i < j => fifo[i] < fifo[j]
  /\ \A i \in 1 .. Len(fifo) : got < fifo[i] /\ fifo[i] <= nread
  /\ got <= nread
  /\ ppc \in {"put", "put_alloc"} =>
       /\ nread > got
       /\ \A i \in 1 .. Len(fifo) : fifo[i] < nread
  /\ cpc \in {"get_count", "decode"} => got \in Packet

(* The counters lag behind the list inside the critical sections.          *)
Counted ==
  /\ nb_packets = Len(fifo) - (IF ppc = "put_count" THEN 1 ELSE 0)
                            + (IF cpc = "get_count" THEN 1 ELSE 0)
  /\ ppc = "put_count" => fifo # <<>>

(* What packet_queue_flush has freed is what its cursor has passed.        *)
Passed(p) == ppc = "flush_free" /\ (cursor = NoPacket \/ p < cursor)

Allocated ==
  /\ \A i \in 1 .. Len(fifo) :
       ~Passed(fifo[i]) => fifo[i] \in nodes /\ fifo[i] \in payloads
  /\ \A p \in nodes : \/ \E i \in 1 .. Len(fifo) : p = fifo[i] /\ ~Passed(p)
                      \/ cpc = "get_count" /\ p = got
  /\ \A p \in payloads :
       \/ \E i \in 1 .. Len(fifo) : p = fifo[i] /\ ~Passed(p)
       \/ cpc \in {"get_count", "decode"} /\ p = got
       \/ ppc \in {"put", "put_alloc"} /\ p = nread
       \/ p \in lost
  /\ cpc = "get_count" => got \in nodes
  /\ cpc \in {"get_count", "decode"} => got \in payloads
  /\ ppc \in {"put", "put_alloc"} => nread \in payloads
  /\ ppc = "flush_free" /\ cursor # NoPacket =>
       \E i \in 1 .. Len(fifo) : cursor = fifo[i]

IInv == /\ TypeOK /\ Exclusion /\ Closing /\ ListIsFifo /\ Ordered
        /\ Counted /\ Allocated

-----------------------------------------------------------------------------
(* What Append returns.                                                    *)
LEMMA AppendFacts ==
  ASSUME NEW S, NEW s \in Seq(S), NEW e \in S
  PROVE  /\ Append(s, e) \in Seq(S)
         /\ Append(s, e) # <<>>
         /\ Len(Append(s, e)) = Len(s) + 1
         /\ \A i \in 1 .. Len(s) : Append(s, e)[i] = s[i]
         /\ Append(s, e)[Len(s) + 1] = e
OBVIOUS

(* What Tail returns.                                                      *)
LEMMA TailFacts ==
  ASSUME NEW S, NEW s \in Seq(S), s # <<>>
  PROVE  /\ Tail(s) \in Seq(S)
         /\ Len(Tail(s)) = Len(s) - 1
         /\ \A i \in 1 .. Len(s) - 1 : Tail(s)[i] = s[i + 1]
OBVIOUS

(* Length and elements of a sequence.                                      *)
LEMMA EmptyFacts ==
  ASSUME NEW S, NEW s \in Seq(S)
  PROVE  /\ s = <<>> <=> Len(s) = 0
         /\ Len(s) \in Nat
         /\ \A i \in 1 .. Len(s) : s[i] \in S
OBVIOUS
(* The auxiliary FIFO is a sequence of packets.                            *)
LEMMA FifoFacts ==
  ASSUME IInv
  PROVE  /\ fifo \in Seq(Packet)
         /\ Len(fifo) \in Nat
         /\ fifo = <<>> <=> Len(fifo) = 0
         /\ \A i \in 1 .. Len(fifo) : fifo[i] \in Packet
<1>1. fifo \in Seq(Packet)
  BY DEF IInv, TypeOK
<1>2. QED
  BY <1>1, EmptyFacts

(* packet_queue_put appends a packet newer than all others.                *)
LEMMA PutLinkFifo ==
  ASSUME IInv, PutLink
  PROVE  /\ nread \in Packet /\ got < nread
         /\ \A i \in 1 .. Len(fifo) : fifo[i] < nread
         /\ fifo' \in Seq(Packet)
         /\ fifo' # <<>>
         /\ Len(fifo') = Len(fifo) + 1
         /\ fifo'[Len(fifo) + 1] = nread
         /\ \A i \in 1 .. Len(fifo) : fifo'[i] = fifo[i]
<1>1. ppc = "put_alloc" /\ fifo' = Append(fifo, nread)
  BY DEF PutLink
<1>2. nread \in Int /\ got \in Int /\ got >= 0 /\ nread <= NumPackets
  BY PacketQueueAssumption DEF IInv, TypeOK
<1>3. got < nread /\ \A i \in 1 .. Len(fifo) : fifo[i] < nread
  BY <1>1 DEF IInv, Ordered
<1>4. nread \in Packet
  BY <1>2, <1>3, PacketQueueAssumption DEF Packet
<1>5. QED
  BY <1>1, <1>3, <1>4, FifoFacts, AppendFacts

(* packet_queue_get takes the oldest packet.                               *)
LEMMA GetUnlinkFifo ==
  ASSUME IInv, GetUnlink
  PROVE  /\ fifo # <<>> /\ Len(fifo) > 0
         /\ first_pkt = fifo[1] /\ last_pkt = fifo[Len(fifo)]
         /\ next[last_pkt] = NoPacket
         /\ got' = fifo[1]
         /\ fifo' \in Seq(Packet)
         /\ Len(fifo') = Len(fifo) - 1
         /\ \A i \in 1 .. Len(fifo) - 1 : fifo'[i] = fifo[i + 1]
<1>1. first_pkt # NoPacket /\ got' = first_pkt /\ fifo' = Tail(fifo)
  BY DEF GetUnlink
<1>2. fifo # <<>>
  BY <1>1 DEF IInv, ListIsFifo
<1>3. first_pkt = fifo[1] /\ last_pkt = fifo[Len(fifo)]
      /\ next[last_pkt] = NoPacket
  BY <1>2 DEF IInv, ListIsFifo
<1>4. QED
  BY <1>1, <1>2, <1>3, FifoFacts, TailFacts

(* packet_queue_put keeps the types.                                       *)
LEMMA PutLinkType == IInv /\ PutLink => TypeOK'
<1> SUFFICES ASSUME IInv, PutLink PROVE TypeOK'
  OBVIOUS
<1>1. nread \in Packet /\ fifo' \in Seq(Packet)
  BY PutLinkFifo
<1>2. next' \in [Packet -> 0 .. NumPackets]
  BY <1>1, PacketQueueAssumption
  DEF IInv, TypeOK, PutLink, LinkPacket, Packet, NoPacket
<1>3. first_pkt' \in 0 .. NumPackets /\ last_pkt' \in 0 .. NumPackets
  BY <1>1, PacketQueueAssumption
  DEF IInv, TypeOK, PutLink, LinkPacket, Packet
<1>4. nodes' \in SUBSET Packet
  BY <1>1 DEF IInv, TypeOK, PutLink
<1>5. QED
  BY <1>1, <1>2, <1>3, <1>4
  DEF IInv, TypeOK, PutLink, inputs, counters, flushing

(* Linking at last_pkt extends the list by one node at its end.            *)
LEMMA PutLinkList == IInv /\ PutLink => ListIsFifo'
<1> SUFFICES ASSUME IInv, PutLink PROVE ListIsFifo'
  OBVIOUS
<1> USE PutLinkFifo, FifoFacts
<1>1. /\ last_pkt' = nread
      /\ next'[nread] = NoPacket
      /\ \A q \in Packet : q # nread /\ q # last_pkt => next'[q] = next[q]
      /\ last_pkt \in Packet /\ last_pkt # nread => next'[last_pkt] = nread
      /\ first_pkt' = IF last_pkt = NoPacket THEN nread ELSE first_pkt
  <2>1. nread \in Packet /\ LinkPacket(nread)
    BY DEF PutLink
  <2>2. \A q \in Packet :
          next'[q] = IF q = nread THEN NoPacket
                     ELSE IF q = last_pkt THEN nread ELSE next[q]
    BY <2>1 DEF LinkPacket
  <2>3. next'[nread] = NoPacket
    BY <2>1, <2>2
  <2>4. \A q \in Packet : q # nread /\ q # last_pkt => next'[q] = next[q]
    BY <2>2
  <2>5. last_pkt \in Packet /\ last_pkt # nread => next'[last_pkt] = nread
    BY <2>2
  <2>6. /\ last_pkt' = nread
        /\ first_pkt' = IF last_pkt = NoPacket THEN nread ELSE first_pkt
    BY <2>1 DEF LinkPacket
  <2> QED
    BY <2>3, <2>4, <2>5, <2>6
<1>2. CASE fifo = <<>>
  <2>1. Len(fifo) = 0 /\ first_pkt' = nread
    BY <1>1, <1>2 DEF IInv, ListIsFifo
  <2>2. Len(fifo') = 1 /\ fifo'[1] = nread
    BY <2>1
  <2>3. \A i \in 1 .. Len(fifo') - 1 : next'[fifo'[i]] = fifo'[i + 1]
    BY <2>2
  <2> QED
    BY <1>1, <2>1, <2>2, <2>3 DEF ListIsFifo
<1>3. CASE fifo # <<>>
  <2>1. Len(fifo) > 0 /\ last_pkt = fifo[Len(fifo)] /\ first_pkt = fifo[1]
    BY <1>3 DEF IInv, ListIsFifo
  <2>2. last_pkt \in Packet /\ last_pkt # NoPacket /\ last_pkt # nread
    BY <2>1 DEF Packet, NoPacket
  <2>3. ASSUME NEW i \in 1 .. Len(fifo) - 1
        PROVE  next'[fifo[i]] = fifo[i + 1]
    <3>1. fifo[i] \in Packet /\ fifo[i] # nread
      BY DEF Packet
    <3>2. fifo[i] # last_pkt
      BY <2>1, <3>1 DEF IInv, Ordered, Packet
    <3>3. next[fifo[i]] = fifo[i + 1]
      BY DEF IInv, ListIsFifo
    <3> QED
      BY <1>1, <3>1, <3>2, <3>3
  <2>4. next'[fifo[Len(fifo)]] = nread
    BY <1>1, <2>1, <2>2
  <2>5. \A i \in 1 .. Len(fifo') - 1 : next'[fifo'[i]] = fifo'[i + 1]
    BY <2>1, <2>3, <2>4
  <2> QED
    BY <1>1, <2>1, <2>2, <2>5 DEF ListIsFifo
<1>4. QED
  BY <1>2, <1>3

(* The packet put is the newest one.                                       *)
LEMMA PutLinkOrder == IInv /\ PutLink => Ordered'
<1> SUFFICES ASSUME IInv, PutLink PROVE Ordered'
  OBVIOUS
<1> USE PutLinkFifo, FifoFacts
<1>1. ASSUME NEW i \in 1 .. Len(fifo'), NEW j \in 1 .. Len(fifo'), i < j
      PROVE  fifo'[i] < fifo'[j]
  <2>1. i \in 1 .. Len(fifo) /\ fifo'[i] = fifo[i]
    BY <1>1
  <2>2. CASE j \in 1 .. Len(fifo)
    BY <1>1, <2>1, <2>2 DEF IInv, Ordered
  <2>3. CASE j = Len(fifo) + 1
    BY <2>1, <2>3
  <2> QED
    BY <2>2, <2>3
<1>2. ASSUME NEW i \in 1 .. Len(fifo')
      PROVE  got < fifo'[i] /\ fifo'[i] <= nread
  <2>1. CASE i \in 1 .. Len(fifo)
    BY <2>1 DEF IInv, Ordered
  <2>2. CASE i = Len(fifo) + 1
    BY <2>2 DEF Packet
  <2> QED
    BY <2>1, <2>2
<1>3. QED
  BY <1>1, <1>2 DEF IInv, Ordered, PutLink

(* packet_queue_get keeps the types.                                       *)
LEMMA GetUnlinkType == IInv /\ GetUnlink => TypeOK'
<1> SUFFICES ASSUME IInv, GetUnlink PROVE TypeOK'
  OBVIOUS
<1> USE FifoFacts, GetUnlinkFifo
<1>1. first_pkt \in Packet
  OBVIOUS
<1>2. first_pkt' \in 0 .. NumPackets /\ last_pkt' \in 0 .. NumPackets
      /\ got' \in 0 .. NumPackets
  BY <1>1, PacketQueueAssumption
  DEF IInv, TypeOK, GetUnlink, LastAfterGet, NoPacket, Packet
<1>3. QED
  BY <1>2 DEF IInv, TypeOK, GetUnlink, inputs, counters, flushing, heap

(* Moving first_pkt on removes one node, and last_pkt with the last one.   *)
LEMMA GetUnlinkList == IInv /\ GetUnlink => ListIsFifo'
<1> SUFFICES ASSUME IInv, GetUnlink PROVE ListIsFifo'
  OBVIOUS
<1> USE FifoFacts, GetUnlinkFifo
<1>1. /\ next' = next /\ first_pkt' = next[first_pkt]
      /\ last_pkt' = IF next[first_pkt] = NoPacket THEN NoPacket ELSE last_pkt
  BY DEF GetUnlink, LastAfterGet
<1>2. \A i \in 1 .. Len(fifo) - 1 : next[fifo[i]] = fifo[i + 1]
  BY DEF IInv, ListIsFifo
<1>3. \A i \in 1 .. Len(fifo') - 1 : next'[fifo'[i]] = fifo'[i + 1]
  <2> SUFFICES ASSUME NEW i \in 1 .. Len(fifo') - 1
               PROVE  next'[fifo'[i]] = fifo'[i + 1]
    OBVIOUS
  <2>1. i \in 1 .. Len(fifo) - 1 /\ i + 1 \in 1 .. Len(fifo) - 1
    OBVIOUS
  <2>2. fifo'[i] = fifo[i + 1] /\ fifo'[i + 1] = fifo[(i + 1) + 1]
    BY <2>1
  <2>3. next[fifo[i + 1]] = fifo[(i + 1) + 1]
    BY <1>2, <2>1
  <2> QED
    BY <1>1, <2>2, <2>3
<1>4. fifo' = <<>> <=> Len(fifo') = 0
  BY EmptyFacts
<1>5. CASE Len(fifo) = 1
  BY <1>1, <1>3, <1>4, <1>5 DEF ListIsFifo
<1>6. CASE Len(fifo) > 1
  <2>1. first_pkt' = fifo[2] /\ fifo[2] # NoPacket
    BY <1>1, <1>2, <1>6 DEF Packet, NoPacket
  <2>2. first_pkt' = fifo'[1] /\ last_pkt' = fifo'[Len(fifo')]
    BY <1>1, <1>6, <2>1
  <2>3. next'[last_pkt'] = NoPacket
    BY <1>1, <2>1
  <2> QED
    BY <1>3, <1>4, <1>6, <2>2, <2>3 DEF ListIsFifo
<1>7. QED
  BY <1>5, <1>6

(* What stays in the list is newer than the packet taken.                  *)
LEMMA GetUnlinkOrder == IInv /\ GetUnlink => Ordered'
<1> SUFFICES ASSUME IInv, GetUnlink PROVE Ordered'
  OBVIOUS
<1> USE FifoFacts, GetUnlinkFifo
<1>1. ASSUME NEW i \in 1 .. Len(fifo'), NEW j \in 1 .. Len(fifo'), i < j
      PROVE  fifo'[i] < fifo'[j]
  BY <1>1 DEF IInv, Ordered
<1>2. ASSUME NEW i \in 1 .. Len(fifo')
      PROVE  got' < fifo'[i] /\ fifo'[i] <= nread
  <2>1. i + 1 \in 1 .. Len(fifo) /\ 1 < i + 1 /\ fifo'[i] = fifo[i + 1]
    OBVIOUS
  <2> QED
    BY <2>1 DEF IInv, Ordered
<1>3. got' <= nread /\ got' \in Packet
  BY DEF IInv, Ordered
<1>4. ppc \in {"put", "put_alloc"} =>
        nread > got' /\ \A i \in 1 .. Len(fifo') : fifo'[i] < nread
  <2>1. SUFFICES ASSUME ppc \in {"put", "put_alloc"}
                 PROVE  nread > got'
                        /\ \A i \in 1 .. Len(fifo') : fifo'[i] < nread
    OBVIOUS
  <2>2. \A i \in 1 .. Len(fifo) : fifo[i] < nread
    BY <2>1 DEF IInv, Ordered
  <2>3. ASSUME NEW i \in 1 .. Len(fifo') PROVE fifo'[i] < nread
    BY <2>2
  <2>4. got' < nread /\ got' \in Int /\ nread \in Int
    BY <2>2 DEF IInv, TypeOK, Packet
  <2> QED
    BY <2>3, <2>4
<1>5. QED
  BY <1>1, <1>2, <1>3, <1>4 DEF IInv, Ordered, GetUnlink

(* The packet a thread holds is a packet, not NULL.                        *)
LEMMA HeldPackets ==
  ASSUME IInv
  PROVE  /\ ppc \in {"put", "put_alloc"} => nread \in Packet
         /\ cpc \in {"get_count", "decode"} => got \in Packet
         /\ ppc = "put_count" => nread \in Packet
<1>1. nread \in 0 .. NumPackets /\ got \in 0 .. NumPackets
  BY DEF IInv, TypeOK
<1>2. ppc = "put_count" => fifo[1] <= nread /\ fifo[1] \in Packet
  BY FifoFacts DEF IInv, Counted, Ordered
<1>3. QED
  BY <1>1, <1>2, PacketQueueAssumption DEF IInv, Ordered, Packet

(* av_read_frame returns a packet newer than the queued ones.              *)
LEMMA ReadFrameOrder == IInv /\ ReadFrame => Ordered'
<1> SUFFICES ASSUME IInv, ReadFrame PROVE Ordered'
  OBVIOUS
<1>1. nread \in Int /\ got \in Int /\ nread' = nread + 1 /\ fifo' = fifo
      /\ got' = got /\ ppc' = "put" /\ cpc' = cpc
  BY DEF ReadFrame, IInv, TypeOK, links
<1>2. \A i \in 1 .. Len(fifo) : fifo[i] \in Int
  BY FifoFacts DEF Packet
<1>3. \A i \in 1 .. Len(fifo) : fifo[i] <= nread
  BY DEF IInv, Ordered
<1>4. got <= nread
  BY DEF IInv, Ordered
<1>5. \A i \in 1 .. Len(fifo) : fifo[i] < nread'
  BY <1>1, <1>2, <1>3
<1>6. QED
  BY <1>1, <1>2, <1>4, <1>5 DEF IInv, Ordered

(* A failing put keeps the types.                                          *)
LEMMA PutFailType == IInv /\ PutFail => TypeOK'
<1> SUFFICES ASSUME IInv, PutFail PROVE TypeOK'
  OBVIOUS
<1>1. nread \in Packet
  BY HeldPackets DEF PutFail
<1>2. QED
  BY <1>1
  DEF IInv, TypeOK, PutFail, SignalSema, inputs, links, counters, flushing

(* Counting the packet put keeps the types.                                *)
LEMMA PutCountType == IInv /\ PutCount => TypeOK'
<1> SUFFICES ASSUME IInv, PutCount PROVE TypeOK'
  OBVIOUS
<1>1. PacketSize[nread] \in Nat
  BY HeldPackets, PacketQueueAssumption DEF PutCount
<1>2. QED
  BY <1>1 DEF IInv, TypeOK, PutCount, SignalSema, inputs, links, heap, flushing

(* nb_packets is positive when a packet is taken.                          *)
LEMMA GetCountType == IInv /\ GetCount => TypeOK'
<1> SUFFICES ASSUME IInv, GetCount PROVE TypeOK'
  OBVIOUS
<1>1. PacketSize[got] \in Nat
  BY HeldPackets, PacketQueueAssumption DEF GetCount
<1>2. nb_packets' \in Nat
  BY FifoFacts DEF IInv, TypeOK, GetCount, Counted, Exclusion, PInCS, CInCS
<1>3. QED
  BY <1>1, <1>2 DEF IInv, TypeOK, GetCount, SignalSema, inputs, links, flushing

(* Dropping a picture at the abort keeps the types.                        *)
LEMMA DropPictureType == IInv /\ DropPicture => TypeOK'
<1> SUFFICES ASSUME IInv, DropPicture PROVE TypeOK'
  OBVIOUS
<1>1. got \in Packet
  BY HeldPackets DEF DropPicture
<1>2. QED
  BY <1>1 DEF IInv, TypeOK, DropPicture, inputs, links, counters, flushing

(* The node and data of the packet put are allocated.                      *)
LEMMA PutLinkAlloc == IInv /\ PutLink => Allocated'
<1> SUFFICES ASSUME IInv, PutLink PROVE Allocated'
  OBVIOUS
<1> USE PutLinkFifo, FifoFacts
<1>1. /\ ppc = "put_alloc" /\ ppc' = "put_count" /\ cpc' = cpc /\ got' = got
      /\ nodes' = nodes \cup {nread} /\ payloads' = payloads /\ lost' = lost
      /\ nread' = nread
  BY DEF PutLink
<1>2. \A p : ~Passed(p) /\ ~Passed(p)'
  BY <1>1 DEF Passed
<1>3. ASSUME NEW i \in 1 .. Len(fifo')
      PROVE  fifo'[i] \in nodes' /\ fifo'[i] \in payloads'
  <2>1. CASE i \in 1 .. Len(fifo)
    BY <1>1, <1>2, <2>1 DEF IInv, Allocated
  <2>2. CASE i = Len(fifo) + 1
    BY <1>1, <2>2 DEF IInv, Allocated
  <2> QED
    BY <2>1, <2>2
<1>4. \A p : (\E i \in 1 .. Len(fifo) : p = fifo[i])
            => \E i \in 1 .. Len(fifo') : p = fifo'[i]
  OBVIOUS
<1>5. \E i \in 1 .. Len(fifo') : nread = fifo'[i]
  OBVIOUS
<1>6. ASSUME NEW p \in nodes'
      PROVE  \/ \E i \in 1 .. Len(fifo') : p = fifo'[i]
             \/ cpc = "get_count" /\ p = got
  BY <1>1, <1>4, <1>5 DEF IInv, Allocated
<1>7. ASSUME NEW p \in payloads'
      PROVE  \/ \E i \in 1 .. Len(fifo') : p = fifo'[i]
             \/ cpc \in {"get_count", "decode"} /\ p = got
             \/ p \in lost
  BY <1>1, <1>4, <1>5 DEF IInv, Allocated
<1>8. QED
  BY <1>1, <1>2, <1>3, <1>6, <1>7 DEF IInv, Allocated

(* The packet taken moves from the list to the consumer.                   *)
LEMMA GetUnlinkAlloc == IInv /\ GetUnlink => Allocated'
<1> SUFFICES ASSUME IInv, GetUnlink PROVE Allocated'
  OBVIOUS
<1> USE GetUnlinkFifo, FifoFacts
<1>1. /\ cpc = "get_test" /\ cpc' = "get_count" /\ ppc' = ppc
      /\ nodes' = nodes /\ payloads' = payloads /\ lost' = lost
      /\ nread' = nread /\ got' = fifo[1]
  BY DEF GetUnlink, heap
<1>2. ppc # "flush_free" /\ ppc # "put_alloc"
  BY <1>1 DEF IInv, Exclusion, PInCS, CInCS
<1>3. \A p : ~Passed(p) /\ ~Passed(p)'
  BY <1>1, <1>2 DEF Passed
<1>4. \A i \in 1 .. Len(fifo) : fifo[i] \in nodes /\ fifo[i] \in payloads
  BY <1>3 DEF IInv, Allocated
<1>5. ASSUME NEW p, NEW i \in 1 .. Len(fifo), p = fifo[i]
      PROVE  p = got' \/ \E j \in 1 .. Len(fifo') : p = fifo'[j]
  <2>1. CASE i = 1
    BY <1>1, <1>5, <2>1
  <2>2. CASE i > 1
    <3>1. i - 1 \in 1 .. Len(fifo') /\ fifo'[i - 1] = fifo[i]
      BY <2>2
    <3> QED
      BY <1>5, <3>1
  <2> QED
    BY <2>1, <2>2
<1>6. \A i \in 1 .. Len(fifo') : fifo'[i] \in nodes /\ fifo'[i] \in payloads
  BY <1>4
<1>7. ASSUME NEW p \in nodes
      PROVE  p = got' \/ \E j \in 1 .. Len(fifo') : p = fifo'[j]
  BY <1>1, <1>5 DEF IInv, Allocated
<1>8. ASSUME NEW p \in payloads
      PROVE  \/ p = got' \/ \E j \in 1 .. Len(fifo') : p = fifo'[j]
             \/ ppc \in {"put", "put_alloc"} /\ p = nread
             \/ p \in lost
  BY <1>1, <1>5 DEF IInv, Allocated
<1>9. got' \in nodes /\ got' \in payloads
  BY <1>4
<1>10. QED
  BY <1>1, <1>2, <1>3, <1>6, <1>7, <1>8, <1>9 DEF IInv, Allocated

(* get frees the node of the packet it took, which is not in the list.     *)
LEMMA GetCountAlloc == IInv /\ GetCount => Allocated'
<1> SUFFICES ASSUME IInv, GetCount PROVE Allocated'
  OBVIOUS
<1>1. /\ cpc = "get_count" /\ cpc' = "decode" /\ ppc' = ppc /\ got' = got
      /\ nodes' = nodes \ {got} /\ payloads' = payloads /\ lost' = lost
      /\ nread' = nread /\ fifo' = fifo /\ cursor' = cursor
  BY DEF GetCount, links, flushing
<1>2. ppc # "flush_free"
  BY <1>1 DEF IInv, Exclusion, PInCS, CInCS
<1>3. \A p : ~Passed(p) /\ ~Passed(p)'
  BY <1>1, <1>2 DEF Passed
<1>4. \A i \in 1 .. Len(fifo) : fifo[i] # got
  BY FifoFacts DEF IInv, TypeOK, Ordered, Packet
<1>5. QED
  BY <1>1, <1>2, <1>3, <1>4 DEF IInv, Allocated

(* The consumer frees the packet it took, which is not in the list.        *)
LEMMA DecodeAlloc == IInv /\ Decode => Allocated'
<1> SUFFICES ASSUME IInv, Decode PROVE Allocated'
  OBVIOUS
<1>1. /\ cpc = "decode" /\ cpc' = "loop" /\ ppc' = ppc /\ got' = got
      /\ nodes' = nodes /\ payloads' = payloads \ {got} /\ lost' = lost
      /\ nread' = nread /\ fifo' = fifo /\ cursor' = cursor
  BY DEF Decode, links, flushing
<1>2. \A p : Passed(p)' <=> Passed(p)
  BY <1>1 DEF Passed
<1>3. \A i \in 1 .. Len(fifo) : fifo[i] # got
  BY FifoFacts DEF IInv, TypeOK, Ordered, Packet
<1>4. ppc \in {"put", "put_alloc"} => nread # got
  BY DEF IInv, TypeOK, Ordered
<1>5. QED
  BY <1>1, <1>2, <1>3, <1>4 DEF IInv, Allocated

(* A flush starts at the first node with nothing freed.                    *)
LEMMA FlushEnterAlloc == IInv /\ FlushEnter => Allocated'
<1> SUFFICES ASSUME IInv, FlushEnter PROVE Allocated'
  OBVIOUS
<1> USE FifoFacts
<1>1. /\ ppc = "flush" /\ ppc' = "flush_free" /\ cpc' = cpc /\ got' = got
      /\ nodes' = nodes /\ payloads' = payloads /\ lost' = lost
      /\ nread' = nread /\ fifo' = fifo /\ cursor' = first_pkt
  BY DEF FlushEnter, links, heap
<1>2. \A p : ~Passed(p)
  BY <1>1 DEF Passed
<1>3. mutex_exists = 1 /\ mutex > 0
  BY <1>1 DEF IInv, Exclusion, FlushEnter, WaitSema
<1>4. cpc # "get_count"
  BY <1>3 DEF IInv, TypeOK, Exclusion, CInCS
<1>5. \A i \in 1 .. Len(fifo) : first_pkt = fifo[1] /\ first_pkt \in Packet
  BY DEF IInv, ListIsFifo
<1>6. \A i \in 1 .. Len(fifo) : first_pkt # NoPacket /\ ~(fifo[i] < first_pkt)
  BY <1>5 DEF IInv, Ordered, Packet, NoPacket
<1>7. \A i \in 1 .. Len(fifo) : ~Passed(fifo[i])'
  BY <1>1, <1>6 DEF Passed
<1>8. first_pkt # NoPacket => \E i \in 1 .. Len(fifo) : first_pkt = fifo[i]
  BY <1>5 DEF IInv, ListIsFifo
<1>9. ASSUME NEW p \in nodes
      PROVE  \E i \in 1 .. Len(fifo) : p = fifo[i] /\ ~Passed(p)'
  <2>1. PICK i \in 1 .. Len(fifo) : p = fifo[i]
    BY <1>4 DEF IInv, Allocated
  <2> QED
    BY <1>1, <1>7, <2>1 DEF Passed
<1>10. ASSUME NEW p \in payloads
       PROVE  \/ \E i \in 1 .. Len(fifo) : p = fifo[i] /\ ~Passed(p)'
              \/ cpc \in {"get_count", "decode"} /\ p = got
              \/ p \in lost
  BY <1>1, <1>2, <1>7 DEF IInv, Allocated
<1>11. QED
  BY <1>1, <1>2, <1>4, <1>8, <1>9, <1>10 DEF IInv, Allocated

(* A flush frees the node at its cursor and moves to the next one.         *)
LEMMA FlushFreeAlloc == IInv /\ FlushFree => Allocated'
<1> SUFFICES ASSUME IInv, FlushFree PROVE Allocated'
  OBVIOUS
<1> USE FifoFacts
<1>1. /\ ppc = "flush_free" /\ cursor # NoPacket
      /\ ppc' = ppc /\ cpc' = cpc /\ got' = got
      /\ nodes' = nodes \ {cursor} /\ payloads' = payloads \ {cursor}
      /\ lost' = lost /\ nread' = nread /\ fifo' = fifo
      /\ cursor' = next[cursor]
  BY DEF FlushFree, FreeEntry, links
<1>2. cpc \notin {"get_count", "get_test"}
  BY <1>1 DEF IInv, Exclusion, PInCS, CInCS
<1>3. PICK k \in 1 .. Len(fifo) : cursor = fifo[k]
  BY <1>1 DEF IInv, Allocated
<1>4. \A i, j \in 1 .. Len(fifo) : i < j => fifo[i] < fifo[j]
  BY DEF IInv, Ordered
<1>5. \A i \in 1 .. Len(fifo) : Passed(fifo[i]) <=> i < k
  <2> SUFFICES ASSUME NEW i \in 1 .. Len(fifo)
               PROVE  fifo[i] < cursor <=> i < k
    BY <1>1 DEF Passed
  <2>1. fifo[i] \in Int /\ cursor \in Int
    BY <1>3 DEF Packet
  <2>2. i < k => fifo[i] < cursor
    BY <1>3, <1>4
  <2>3. k < i => cursor < fifo[i]
    BY <1>3, <1>4
  <2> QED
    BY <1>3, <2>1, <2>2, <2>3
<1>6. \A i \in 1 .. Len(fifo) : Passed(fifo[i])' <=> i <= k
  <2>1. CASE k = Len(fifo)
    <3>1. cursor' = NoPacket
      BY <1>1, <1>3, <2>1 DEF IInv, ListIsFifo
    <3> QED
      BY <1>1, <2>1, <3>1 DEF Passed
  <2>2. CASE k < Len(fifo)
    <3>1. cursor' = fifo[k + 1] /\ k + 1 \in 1 .. Len(fifo)
      BY <1>1, <1>3, <2>2 DEF IInv, ListIsFifo
    <3>2. cursor' \in Packet /\ cursor' # NoPacket
      BY <3>1 DEF Packet, NoPacket
    <3> SUFFICES ASSUME NEW i \in 1 .. Len(fifo)
                 PROVE  fifo[i] < fifo[k + 1] <=> i <= k
      BY <1>1, <3>1, <3>2 DEF Passed
    <3>3. fifo[i] \in Int /\ fifo[k + 1] \in Int
      BY <3>1 DEF Packet
    <3>4. i <= k => fifo[i] < fifo[k + 1]
      BY <1>4, <3>1
    <3>5. k + 1 < i => fifo[k + 1] < fifo[i]
      BY <1>4, <3>1
    <3> QED
      BY <3>3, <3>4, <3>5
  <2> QED
    BY <2>1, <2>2
<1>7. \A i \in 1 .. Len(fifo) : i > k => fifo[i] # cursor
  BY <1>3, <1>4 DEF Packet
<1>8. ASSUME NEW i \in 1 .. Len(fifo), ~Passed(fifo[i])'
      PROVE  fifo[i] \in nodes' /\ fifo[i] \in payloads'
  <2>1. i > k /\ ~Passed(fifo[i])
    BY <1>5, <1>6, <1>8
  <2>2. fifo[i] \in nodes /\ fifo[i] \in payloads
    BY <2>1 DEF IInv, Allocated
  <2> QED
    BY <1>1, <1>7, <2>1, <2>2
<1>9. ASSUME NEW i \in 1 .. Len(fifo), ~Passed(fifo[i]), fifo[i] # cursor
      PROVE  ~Passed(fifo[i])'
  BY <1>3, <1>5, <1>6, <1>9
<1>10. ASSUME NEW p \in nodes'
       PROVE  \E i \in 1 .. Len(fifo) : p = fifo[i] /\ ~Passed(p)'
  <2>1. p \in nodes /\ p # cursor
    BY <1>1
  <2>2. PICK i \in 1 .. Len(fifo) : p = fifo[i] /\ ~Passed(p)
    BY <1>2, <2>1 DEF IInv, Allocated
  <2> QED
    BY <1>1, <1>9, <2>1, <2>2 DEF Passed
<1>11. ASSUME NEW p \in payloads'
       PROVE  \/ \E i \in 1 .. Len(fifo) : p = fifo[i] /\ ~Passed(p)'
              \/ cpc \in {"get_count", "decode"} /\ p = got
              \/ p \in lost
  <2>1. p \in payloads /\ p # cursor
    BY <1>1
  <2>2. \/ \E i \in 1 .. Len(fifo) : p = fifo[i] /\ ~Passed(p)
        \/ cpc \in {"get_count", "decode"} /\ p = got
        \/ p \in lost
    BY <1>1, <2>1 DEF IInv, Allocated
  <2>3. ASSUME NEW i \in 1 .. Len(fifo), p = fifo[i], ~Passed(p)
        PROVE  ~Passed(p)'
    BY <1>1, <1>9, <2>1, <2>3 DEF Passed
  <2> QED
    BY <2>2, <2>3
<1>12. cpc = "decode" => got \in payloads'
  <2>1. got < cursor /\ got \in Int /\ cursor \in Int
    BY <1>3 DEF IInv, TypeOK, Ordered
  <2> QED
    BY <1>1, <2>1 DEF IInv, Allocated
<1>13. cursor' # NoPacket => \E i \in 1 .. Len(fifo) : cursor' = fifo[i]
  <2>1. CASE k = Len(fifo)
    BY <1>1, <1>3, <2>1 DEF IInv, ListIsFifo
  <2>2. CASE k < Len(fifo)
    BY <1>1, <1>3, <2>2 DEF IInv, ListIsFifo
  <2> QED
    BY <2>1, <2>2
<1>14. QED
  BY <1>1, <1>2, <1>8, <1>10, <1>11, <1>12, <1>13 DEF Allocated

(* The invariant holds initially.                                          *)
LEMMA InitInv == Init => IInv
<1> SUFFICES ASSUME Init PROVE IInv
  OBVIOUS
<1> USE PacketQueueAssumption DEF Init, NoPacket
<1>1. TypeOK
  BY DEF TypeOK, Packet
<1>2. Len(fifo) = 0
  OBVIOUS
<1>3. Exclusion /\ Closing
  BY DEF Exclusion, Closing, PInCS, CInCS
<1>4. ListIsFifo /\ Ordered
  BY <1>2 DEF ListIsFifo, Ordered
<1>5. Counted /\ Allocated
  BY <1>2 DEF Counted, Allocated, Passed
<1>6. QED
  BY <1>1, <1>3, <1>4, <1>5 DEF IInv

(* The steps that change the list, the counters or the heap.               *)
LEMMA LinksFrame ==
  [Next]_vars => PutLink \/ GetUnlink \/ FlushReset \/ UNCHANGED links
BY DEF Next, Producer, Consumer, Finished, vars, RequestStop, RequestSeek,
       TogglePause, ReadFrame, PutEnter, PutFail, PutCount, SeekFail, Seek,
       FlushEnter, FlushFree, CloseStream, AbortEnter, AbortSet, JoinConsumer,
       DeleteMutex, LeavePause, GetEnter, GetAborted, GetEmpty, GetCount,
       Decode, DropPicture

(* Every step keeps the list.                                              *)
LEMMA ListStep == IInv /\ [Next]_vars => ListIsFifo'
<1> SUFFICES ASSUME IInv, [Next]_vars PROVE ListIsFifo'
  OBVIOUS
<1>1. CASE PutLink
  BY <1>1, PutLinkList
<1>2. CASE GetUnlink
  BY <1>2, GetUnlinkList
<1>3. CASE FlushReset
  BY <1>3 DEF FlushReset, ListIsFifo
<1>4. CASE UNCHANGED links
  BY <1>4 DEF IInv, ListIsFifo, links
<1>5. QED
  BY <1>1, <1>2, <1>3, <1>4, LinksFrame

\* The tuples of the UNCHANGED conjuncts, for the lemmas below.
USE DEF inputs, links, counters, heap, flushing

(* Every step keeps the types.                                             *)
LEMMA TypeStep == IInv /\ [Next]_vars => TypeOK'
<1> SUFFICES ASSUME IInv, [Next]_vars PROVE TypeOK'
  OBVIOUS
<1>1. CASE PutFail
  BY <1>1, PutFailType
<1>2. CASE PutLink
  BY <1>2, PutLinkType
<1>3. CASE PutCount
  BY <1>3, PutCountType
<1>4. CASE GetUnlink
  BY <1>4, GetUnlinkType
<1>5. CASE GetCount
  BY <1>5, GetCountType
<1>6. CASE DropPicture
  BY <1>6, DropPictureType
<1> USE PacketQueueAssumption DEF Packet, NoPacket, IInv, TypeOK
<1>7. CASE RequestStop
  BY <1>7 DEF RequestStop
<1>8. CASE RequestSeek
  BY <1>8 DEF RequestSeek
<1>9. CASE TogglePause
  BY <1>9 DEF TogglePause
<1>10. CASE ReadFrame
  BY <1>10 DEF ReadFrame, QueueFull
<1>11. CASE PutEnter
  BY <1>11 DEF PutEnter, WaitSema
<1>12. CASE SeekFail
  BY <1>12 DEF SeekFail, SeekPending
<1>13. CASE Seek
  BY <1>13 DEF Seek, SeekPending
<1>14. CASE FlushEnter
  BY <1>14 DEF FlushEnter, WaitSema
<1>15. CASE FlushFree
  BY <1>15 DEF FlushFree, FreeEntry
<1>16. CASE FlushReset
  BY <1>16 DEF FlushReset, SignalSema, ResetCounters
<1>17. CASE CloseStream
  BY <1>17 DEF CloseStream
<1>18. CASE AbortEnter
  BY <1>18 DEF AbortEnter, WaitSema
<1>19. CASE AbortSet
  BY <1>19 DEF AbortSet, SignalSema
<1>20. CASE JoinConsumer
  BY <1>20 DEF JoinConsumer, ConsumerEnded
<1>21. CASE DeleteMutex
  BY <1>21 DEF DeleteMutex
<1>22. CASE LeavePause
  BY <1>22 DEF LeavePause, MayRun
<1>23. CASE GetEnter
  BY <1>23 DEF GetEnter, WaitSema
<1>24. CASE GetAborted
  BY <1>24 DEF GetAborted, SignalSema
<1>25. CASE GetEmpty
  BY <1>25 DEF GetEmpty, SignalSema
<1>26. CASE Decode
  BY <1>26 DEF Decode
<1>27. CASE UNCHANGED vars
  BY <1>27 DEF vars
<1>28. QED
  BY <1>1, <1>2, <1>3, <1>4, <1>5, <1>6, <1>7, <1>8, <1>9, <1>10, <1>11,
     <1>12, <1>13, <1>14, <1>15, <1>16, <1>17, <1>18, <1>19, <1>20, <1>21,
     <1>22, <1>23, <1>24, <1>25, <1>26, <1>27 DEF Next, Producer, Consumer,
     Finished

(* Every step keeps the mutual exclusion.                                  *)
LEMMA ExclusionStep == IInv /\ [Next]_vars => Exclusion'
<1> SUFFICES ASSUME IInv, [Next]_vars PROVE Exclusion'
  OBVIOUS
<1> USE DEF NoPacket, IInv, TypeOK, Exclusion, PInCS, CInCS, Closing
<1>1. CASE RequestStop
  BY <1>1 DEF RequestStop
<1>2. CASE RequestSeek
  BY <1>2 DEF RequestSeek
<1>3. CASE TogglePause
  BY <1>3 DEF TogglePause
<1>4. CASE ReadFrame
  BY <1>4 DEF ReadFrame, QueueFull
<1>5. CASE PutEnter
  BY <1>5 DEF PutEnter, WaitSema
<1>6. CASE PutFail
  BY <1>6 DEF PutFail, SignalSema
<1>7. CASE PutLink
  BY <1>7 DEF PutLink, LinkPacket
<1>8. CASE PutCount
  BY <1>8 DEF PutCount, SignalSema
<1>9. CASE SeekFail
  BY <1>9 DEF SeekFail, SeekPending
<1>10. CASE Seek
  BY <1>10 DEF Seek, SeekPending
<1>11. CASE FlushEnter
  BY <1>11 DEF FlushEnter, WaitSema
<1>12. CASE FlushFree
  BY <1>12 DEF FlushFree, FreeEntry
<1>13. CASE FlushReset
  BY <1>13 DEF FlushReset, SignalSema, ResetCounters
<1>14. CASE CloseStream
  BY <1>14 DEF CloseStream
<1>15. CASE AbortEnter
  BY <1>15 DEF AbortEnter, WaitSema
<1>16. CASE AbortSet
  BY <1>16 DEF AbortSet, SignalSema
<1>17. CASE JoinConsumer
  BY <1>17 DEF JoinConsumer, ConsumerEnded
<1>18. CASE DeleteMutex
  BY <1>18 DEF DeleteMutex
<1>19. CASE LeavePause
  BY <1>19 DEF LeavePause, MayRun
<1>20. CASE GetEnter
  BY <1>20 DEF GetEnter, WaitSema
<1>21. CASE GetAborted
  BY <1>21 DEF GetAborted, SignalSema
<1>22. CASE GetEmpty
  BY <1>22 DEF GetEmpty, SignalSema
<1>23. CASE GetUnlink
  BY <1>23 DEF GetUnlink, LastAfterGet
<1>24. CASE GetCount
  BY <1>24 DEF GetCount, SignalSema
<1>25. CASE Decode
  BY <1>25 DEF Decode
<1>26. CASE DropPicture
  BY <1>26 DEF DropPicture
<1>27. CASE UNCHANGED vars
  BY <1>27 DEF vars
<1>28. QED
  BY <1>1, <1>2, <1>3, <1>4, <1>5, <1>6, <1>7, <1>8, <1>9, <1>10, <1>11,
     <1>12, <1>13, <1>14, <1>15, <1>16, <1>17, <1>18, <1>19, <1>20, <1>21,
     <1>22, <1>23, <1>24, <1>25, <1>26, <1>27 DEF Next, Producer, Consumer,
     Finished

(* Every step keeps the order of the close.                                *)
LEMMA ClosingStep == IInv /\ [Next]_vars => Closing'
<1> SUFFICES ASSUME IInv, [Next]_vars PROVE Closing'
  OBVIOUS
<1> USE DEF NoPacket, IInv, TypeOK, Closing, Exclusion, PInCS, CInCS
<1>1. CASE RequestStop
  BY <1>1 DEF RequestStop
<1>2. CASE RequestSeek
  BY <1>2 DEF RequestSeek
<1>3. CASE TogglePause
  BY <1>3 DEF TogglePause
<1>4. CASE ReadFrame
  BY <1>4 DEF ReadFrame, QueueFull
<1>5. CASE PutEnter
  BY <1>5 DEF PutEnter, WaitSema
<1>6. CASE PutFail
  BY <1>6 DEF PutFail, SignalSema
<1>7. CASE PutLink
  BY <1>7 DEF PutLink, LinkPacket
<1>8. CASE PutCount
  BY <1>8 DEF PutCount, SignalSema
<1>9. CASE SeekFail
  BY <1>9 DEF SeekFail, SeekPending
<1>10. CASE Seek
  BY <1>10 DEF Seek, SeekPending
<1>11. CASE FlushEnter
  BY <1>11 DEF FlushEnter, WaitSema
<1>12. CASE FlushFree
  BY <1>12 DEF FlushFree, FreeEntry
<1>13. CASE FlushReset
  BY <1>13 DEF FlushReset, SignalSema, ResetCounters
<1>14. CASE CloseStream
  BY <1>14 DEF CloseStream
<1>15. CASE AbortEnter
  BY <1>15 DEF AbortEnter, WaitSema
<1>16. CASE AbortSet
  BY <1>16 DEF AbortSet, SignalSema
<1>17. CASE JoinConsumer
  BY <1>17 DEF JoinConsumer, ConsumerEnded
<1>18. CASE DeleteMutex
  BY <1>18 DEF DeleteMutex
<1>19. CASE LeavePause
  BY <1>19 DEF LeavePause, MayRun
<1>20. CASE GetEnter
  BY <1>20 DEF GetEnter, WaitSema
<1>21. CASE GetAborted
  BY <1>21 DEF GetAborted, SignalSema
<1>22. CASE GetEmpty
  BY <1>22 DEF GetEmpty, SignalSema
<1>23. CASE GetUnlink
  BY <1>23 DEF GetUnlink, LastAfterGet
<1>24. CASE GetCount
  BY <1>24 DEF GetCount, SignalSema
<1>25. CASE Decode
  BY <1>25 DEF Decode
<1>26. CASE DropPicture
  BY <1>26 DEF DropPicture
<1>27. CASE UNCHANGED vars
  BY <1>27 DEF vars
<1>28. QED
  BY <1>1, <1>2, <1>3, <1>4, <1>5, <1>6, <1>7, <1>8, <1>9, <1>10, <1>11,
     <1>12, <1>13, <1>14, <1>15, <1>16, <1>17, <1>18, <1>19, <1>20, <1>21,
     <1>22, <1>23, <1>24, <1>25, <1>26, <1>27 DEF Next, Producer, Consumer,
     Finished

(* Every step keeps the packets in file order.                             *)
LEMMA OrderStep == IInv /\ [Next]_vars => Ordered'
<1> SUFFICES ASSUME IInv, [Next]_vars PROVE Ordered'
  OBVIOUS
<1>1. CASE ReadFrame
  BY <1>1, ReadFrameOrder
<1>2. CASE PutLink
  BY <1>2, PutLinkOrder
<1>3. CASE GetUnlink
  BY <1>3, GetUnlinkOrder
<1> USE DEF NoPacket, IInv, Ordered
<1>4. CASE RequestStop
  BY <1>4 DEF RequestStop
<1>5. CASE RequestSeek
  BY <1>5 DEF RequestSeek
<1>6. CASE TogglePause
  BY <1>6 DEF TogglePause
<1>7. CASE PutEnter
  BY <1>7 DEF PutEnter, WaitSema
<1>8. CASE PutFail
  BY <1>8 DEF PutFail, SignalSema
<1>9. CASE PutCount
  BY <1>9 DEF PutCount, SignalSema
<1>10. CASE SeekFail
  BY <1>10 DEF SeekFail, SeekPending
<1>11. CASE Seek
  BY <1>11 DEF Seek, SeekPending
<1>12. CASE FlushEnter
  BY <1>12 DEF FlushEnter, WaitSema
<1>13. CASE FlushFree
  BY <1>13 DEF FlushFree, FreeEntry
<1>14. CASE FlushReset
  BY <1>14 DEF FlushReset, SignalSema, ResetCounters
<1>15. CASE CloseStream
  BY <1>15 DEF CloseStream
<1>16. CASE AbortEnter
  BY <1>16 DEF AbortEnter, WaitSema
<1>17. CASE AbortSet
  BY <1>17 DEF AbortSet, SignalSema
<1>18. CASE JoinConsumer
  BY <1>18 DEF JoinConsumer, ConsumerEnded
<1>19. CASE DeleteMutex
  BY <1>19 DEF DeleteMutex
<1>20. CASE LeavePause
  BY <1>20 DEF LeavePause, MayRun
<1>21. CASE GetEnter
  BY <1>21 DEF GetEnter, WaitSema
<1>22. CASE GetAborted
  BY <1>22 DEF GetAborted, SignalSema
<1>23. CASE GetEmpty
  BY <1>23 DEF GetEmpty, SignalSema
<1>24. CASE GetCount
  BY <1>24 DEF GetCount, SignalSema
<1>25. CASE Decode
  BY <1>25 DEF Decode
<1>26. CASE DropPicture
  BY <1>26 DEF DropPicture
<1>27. CASE UNCHANGED vars
  BY <1>27 DEF vars
<1>28. QED
  BY <1>1, <1>2, <1>3, <1>4, <1>5, <1>6, <1>7, <1>8, <1>9, <1>10, <1>11,
     <1>12, <1>13, <1>14, <1>15, <1>16, <1>17, <1>18, <1>19, <1>20, <1>21,
     <1>22, <1>23, <1>24, <1>25, <1>26, <1>27 DEF Next, Producer, Consumer,
     Finished

(* Every step keeps nb_packets in line with the list.                      *)
LEMMA CountStep == IInv /\ [Next]_vars => Counted'
<1> SUFFICES ASSUME IInv, [Next]_vars PROVE Counted'
  OBVIOUS
<1> USE DEF NoPacket, IInv, TypeOK, Counted, ListIsFifo, Exclusion, PInCS,
   CInCS
<1>1. CASE RequestStop
  BY <1>1 DEF RequestStop
<1>2. CASE RequestSeek
  BY <1>2 DEF RequestSeek
<1>3. CASE TogglePause
  BY <1>3 DEF TogglePause
<1>4. CASE ReadFrame
  BY <1>4 DEF ReadFrame, QueueFull
<1>5. CASE PutEnter
  BY <1>5 DEF PutEnter, WaitSema
<1>6. CASE PutFail
  BY <1>6 DEF PutFail, SignalSema
<1>7. CASE PutLink
  BY <1>7 DEF PutLink, LinkPacket
<1>8. CASE PutCount
  BY <1>8 DEF PutCount, SignalSema
<1>9. CASE SeekFail
  BY <1>9 DEF SeekFail, SeekPending
<1>10. CASE Seek
  BY <1>10 DEF Seek, SeekPending
<1>11. CASE FlushEnter
  BY <1>11 DEF FlushEnter, WaitSema
<1>12. CASE FlushFree
  BY <1>12 DEF FlushFree, FreeEntry
<1>13. CASE FlushReset
  BY <1>13 DEF FlushReset, SignalSema, ResetCounters
<1>14. CASE CloseStream
  BY <1>14 DEF CloseStream
<1>15. CASE AbortEnter
  BY <1>15 DEF AbortEnter, WaitSema
<1>16. CASE AbortSet
  BY <1>16 DEF AbortSet, SignalSema
<1>17. CASE JoinConsumer
  BY <1>17 DEF JoinConsumer, ConsumerEnded
<1>18. CASE DeleteMutex
  BY <1>18 DEF DeleteMutex
<1>19. CASE LeavePause
  BY <1>19 DEF LeavePause, MayRun
<1>20. CASE GetEnter
  BY <1>20 DEF GetEnter, WaitSema
<1>21. CASE GetAborted
  BY <1>21 DEF GetAborted, SignalSema
<1>22. CASE GetEmpty
  BY <1>22 DEF GetEmpty, SignalSema
<1>23. CASE GetUnlink
  BY <1>23 DEF GetUnlink, LastAfterGet
<1>24. CASE GetCount
  BY <1>24 DEF GetCount, SignalSema
<1>25. CASE Decode
  BY <1>25 DEF Decode
<1>26. CASE DropPicture
  BY <1>26 DEF DropPicture
<1>27. CASE UNCHANGED vars
  BY <1>27 DEF vars
<1>28. QED
  BY <1>1, <1>2, <1>3, <1>4, <1>5, <1>6, <1>7, <1>8, <1>9, <1>10, <1>11,
     <1>12, <1>13, <1>14, <1>15, <1>16, <1>17, <1>18, <1>19, <1>20, <1>21,
     <1>22, <1>23, <1>24, <1>25, <1>26, <1>27 DEF Next, Producer, Consumer,
     Finished

(* Every step keeps the heap accounted for.                                *)
LEMMA AllocatedStep == IInv /\ [Next]_vars => Allocated'
<1> SUFFICES ASSUME IInv, [Next]_vars PROVE Allocated'
  OBVIOUS
<1>1. CASE PutLink
  BY <1>1, PutLinkAlloc
<1>2. CASE FlushEnter
  BY <1>2, FlushEnterAlloc
<1>3. CASE FlushFree
  BY <1>3, FlushFreeAlloc
<1>4. CASE GetUnlink
  BY <1>4, GetUnlinkAlloc
<1>5. CASE GetCount
  BY <1>5, GetCountAlloc
<1>6. CASE Decode
  BY <1>6, DecodeAlloc
<1> USE DEF NoPacket, IInv, Allocated, Passed
<1>7. CASE RequestStop
  BY <1>7 DEF RequestStop
<1>8. CASE RequestSeek
  BY <1>8 DEF RequestSeek
<1>9. CASE TogglePause
  BY <1>9 DEF TogglePause
<1>10. CASE ReadFrame
  BY <1>10 DEF ReadFrame, QueueFull
<1>11. CASE PutEnter
  BY <1>11 DEF PutEnter, WaitSema
<1>12. CASE PutFail
  BY <1>12 DEF PutFail, SignalSema
<1>13. CASE PutCount
  BY <1>13 DEF PutCount, SignalSema
<1>14. CASE SeekFail
  BY <1>14 DEF SeekFail, SeekPending
<1>15. CASE Seek
  BY <1>15 DEF Seek, SeekPending
<1>16. CASE FlushReset
  BY <1>16 DEF FlushReset, SignalSema, ResetCounters
<1>17. CASE CloseStream
  BY <1>17 DEF CloseStream
<1>18. CASE AbortEnter
  BY <1>18 DEF AbortEnter, WaitSema
<1>19. CASE AbortSet
  BY <1>19 DEF AbortSet, SignalSema
<1>20. CASE JoinConsumer
  BY <1>20 DEF JoinConsumer, ConsumerEnded
<1>21. CASE DeleteMutex
  BY <1>21 DEF DeleteMutex
<1>22. CASE LeavePause
  BY <1>22 DEF LeavePause, MayRun
<1>23. CASE GetEnter
  BY <1>23 DEF GetEnter, WaitSema
<1>24. CASE GetAborted
  BY <1>24 DEF GetAborted, SignalSema
<1>25. CASE GetEmpty
  BY <1>25 DEF GetEmpty, SignalSema
<1>26. CASE DropPicture
  BY <1>26 DEF DropPicture
<1>27. CASE UNCHANGED vars
  BY <1>27 DEF vars
<1>28. QED
  BY <1>1, <1>2, <1>3, <1>4, <1>5, <1>6, <1>7, <1>8, <1>9, <1>10, <1>11,
     <1>12, <1>13, <1>14, <1>15, <1>16, <1>17, <1>18, <1>19, <1>20, <1>21,
     <1>22, <1>23, <1>24, <1>25, <1>26, <1>27 DEF Next, Producer, Consumer,
     Finished

(* Every step keeps the invariant.                                         *)
LEMMA Inductive == IInv /\ [Next]_vars => IInv'
BY TypeStep, ExclusionStep, ClosingStep, ListStep, OrderStep, CountStep,
   AllocatedStep DEF IInv

(* IInv is an inductive invariant of the queue.                            *)
THEOREM Invariance == Spec => []IInv
BY InitInv, Inductive, PTL DEF Spec

(* Types, and with them that nb_packets never drops below zero, although   *)
(* it lags behind the list.                                                *)
THEOREM TypeCorrect == Spec => []TypeOK
<1>1. IInv => TypeOK
  BY DEF IInv
<1>2. QED
  BY <1>1, Invariance, PTL

(* The linked list is always the FIFO of the packets put and not yet taken *)
(* or flushed.                                                             *)
THEOREM ListCorrect == Spec => []ListIsFifo
<1>1. IInv => ListIsFifo
  BY DEF IInv
<1>2. QED
  BY <1>1, Invariance, PTL

(* put, get and flush never touch a node, and the decoder never reads a    *)
(* packet, that has been freed; the semaphore is deleted after its last    *)
(* user has returned.                                                      *)
THEOREM MemorySafe == Spec => []NoUseAfterFree
<1>1. IInv => NoUseAfterFree
  <2> SUFFICES ASSUME IInv PROVE NoUseAfterFree
    OBVIOUS
  <2> USE FifoFacts DEF NoPacket
  <2>1. ASSUME fifo # <<>>, ppc # "flush_free"
        PROVE  first_pkt \in nodes /\ last_pkt \in nodes
    <3>1. 1 \in 1 .. Len(fifo) /\ Len(fifo) \in 1 .. Len(fifo)
      BY <2>1
    <3>2. fifo[1] \in nodes /\ fifo[Len(fifo)] \in nodes
      BY <2>1, <3>1 DEF IInv, Allocated, Passed
    <3> QED
      BY <2>1, <3>2 DEF IInv, ListIsFifo
  <2>2. ppc = "put_alloc" /\ last_pkt # NoPacket => last_pkt \in nodes
    BY <2>1 DEF IInv, ListIsFifo
  <2>3. cpc = "get_test" /\ first_pkt # NoPacket => first_pkt \in nodes
    BY <2>1 DEF IInv, ListIsFifo, Exclusion, PInCS, CInCS
  <2>4. ASSUME ppc = "flush_free", cursor # NoPacket
        PROVE  cursor \in nodes /\ cursor \in payloads
    <3>1. PICK i \in 1 .. Len(fifo) : cursor = fifo[i]
      BY <2>4 DEF IInv, Allocated
    <3>2. ~Passed(cursor)
      BY <2>4, <3>1 DEF Passed, Packet
    <3> QED
      BY <3>1, <3>2 DEF IInv, Allocated
  <2>5. mutex_exists = 0 => cpc = "done" /\ ppc = "done"
    BY DEF IInv, TypeOK, Exclusion, Closing
  <2>6. QED
    BY <2>2, <2>3, <2>4, <2>5 DEF NoUseAfterFree, IInv, Allocated
<1>2. QED
  BY <1>1, Invariance, PTL

(* Everything allocated is in the list, held by the thread that frees it,  *)
(* or one of the two leaks; nothing else survives the close.               *)
THEOREM NoOtherLeak == Spec => []HeapAccounted
<1>1. IInv => HeapAccounted
  <2> SUFFICES ASSUME IInv PROVE HeapAccounted
    OBVIOUS
  <2> USE FifoFacts
  <2>1. \A i \in 1 .. Len(fifo) : fifo[i] \in Linked
    BY DEF Linked
  <2>2. \A p \in nodes : p \in Linked \/ (cpc = "get_count" /\ p = got)
    BY <2>1 DEF IInv, Allocated
  <2>3. \A p \in payloads : \/ p \in Linked \/ p \in lost
                            \/ cpc \in {"get_count", "decode"} /\ p = got
                            \/ ppc \in {"put", "put_alloc"} /\ p = nread
    BY <2>1 DEF IInv, Allocated
  <2>4. ppc = "done" => /\ cpc = "done" /\ Linked = {}
    BY DEF IInv, Closing, Linked
  <2>5. QED
    BY <2>2, <2>3, <2>4 DEF HeapAccounted
<1>2. QED
  BY <1>1, Invariance, PTL

-----------------------------------------------------------------------------
(* The bytes of a queue.  Induction over its length is a statement on the  *)
(* set of the lengths for which a fact holds, from the least natural       *)
(* number outside it.                                                      *)

(* A set of natural numbers has a least one.                               *)
LEMMA LeastNatural ==
  ASSUME NEW T \in SUBSET Nat, T # {}
  PROVE  \E n \in T : \A m \in T : n <= m
<1> DEFINE R == {ss \in Nat \X Nat : ss[1] < ss[2]}
<1>1. IsWellFoundedOn(OpToRel(<, Nat), Nat)
  BY NatLessThanWellFounded
<1>2. OpToRel(<, Nat) = R
  BY DEF OpToRel
<1>3. IsWellFoundedOn(R, Nat)
  BY <1>1, <1>2
<1> HIDE DEF R
<1>4. PICK n \in T : \A m \in T : ~(<<m, n>> \in R)
  BY <1>3, WFMin
<1>5. ASSUME NEW m \in T, m < n PROVE FALSE
  <2>1. <<m, n>> \in R
    BY <1>5 DEF R
  <2> QED
    BY <1>4, <2>1
<1> QED
  BY <1>5

(* Induction as a statement on sets.                                       *)
LEMMA InductiveSet ==
  ASSUME NEW S, 0 \in S, \A n \in Nat : n \in S => n + 1 \in S
  PROVE  \A n \in Nat : n \in S
<1> SUFFICES ASSUME Nat \ S # {} PROVE FALSE
  OBVIOUS
<1>1. PICK n \in Nat \ S : \A m \in Nat \ S : n <= m
  BY LeastNatural
<1>2. n - 1 \in Nat
  OBVIOUS
<1>3. n - 1 \in S
  BY <1>1, <1>2
<1>4. (n - 1) + 1 \in S
  BY <1>2, <1>3
<1> QED
  BY <1>2, <1>4

(* The recursion of BytesOf has a solution.                                *)
LEMMA BytesExist ==
  ASSUME NEW s \in Seq(Packet)
  PROVE  \E f : f = [n \in 0 .. Len(s) |->
                      IF n = 0 THEN 0 ELSE f[n - 1] + PacketSize[s[n]]]
<1> DEFINE Runs(n) == {f \in [0 .. n -> Nat] :
                         /\ f[0] = 0
                         /\ \A m \in 1 .. n :
                              f[m] = f[m - 1] + PacketSize[s[m]]}
           S == {n \in Nat : n <= Len(s) => Runs(n) # {}}
<1>1. 0 \in S
  <2>1. [n \in 0 .. 0 |-> 0] \in Runs(0)
    OBVIOUS
  <2> QED
    BY <2>1
<1>2. ASSUME NEW n \in Nat, n \in S PROVE n + 1 \in S
  <2> SUFFICES ASSUME n + 1 <= Len(s) PROVE Runs(n + 1) # {}
    OBVIOUS
  <2>1. PICK f \in Runs(n) : TRUE
    BY <1>2
  <2>2. PacketSize[s[n + 1]] \in Nat
    BY PacketQueueAssumption
  <2> DEFINE g == [m \in 0 .. n + 1 |-> IF m = n + 1
                                        THEN f[n] + PacketSize[s[n + 1]]
                                        ELSE f[m]]
  <2>3. f \in [0 .. n -> Nat] /\ f[0] = 0
    BY <2>1
  <2>4. g \in [0 .. n + 1 -> Nat] /\ g[0] = 0
    BY <2>2, <2>3
  <2>5. ASSUME NEW m \in 1 .. n + 1
        PROVE  g[m] = g[m - 1] + PacketSize[s[m]]
    <3>1. CASE m = n + 1
      BY <3>1
    <3>2. CASE m \in 1 .. n
      BY <3>2, <2>1
    <3> QED
      BY <3>1, <3>2
  <2>6. g \in Runs(n + 1)
    BY <2>4, <2>5
  <2> QED
    BY <2>6
<1>3. Len(s) \in S
  <2> HIDE DEF S
  <2> QED
    BY <1>1, <1>2, InductiveSet
<1>4. PICK f \in Runs(Len(s)) : TRUE
  BY <1>3
<1>5. f = [n \in 0 .. Len(s) |->
            IF n = 0 THEN 0 ELSE f[n - 1] + PacketSize[s[n]]]
  BY <1>4
<1> QED
  BY <1>5

(* BytesOf is a running sum of the packet sizes.                           *)
LEMMA BytesDef ==
  ASSUME NEW s \in Seq(Packet)
  PROVE  /\ BytesOf(s)[0] = 0
         /\ \A n \in 1 .. Len(s) :
              BytesOf(s)[n] = BytesOf(s)[n - 1] + PacketSize[s[n]]
<1> DEFINE F == BytesOf(s)
<1>1. F = CHOOSE f : f = [n \in 0 .. Len(s) |->
                          IF n = 0 THEN 0 ELSE f[n - 1] + PacketSize[s[n]]]
  BY DEF BytesOf
<1> HIDE DEF F
<1>2. F = [n \in 0 .. Len(s) |->
            IF n = 0 THEN 0 ELSE F[n - 1] + PacketSize[s[n]]]
  BY <1>1, BytesExist, Zenon
<1>3. F[0] = 0
  BY <1>2
<1>4. \A n \in 1 .. Len(s) : F[n] = F[n - 1] + PacketSize[s[n]]
  BY <1>2
<1> QED
  BY <1>3, <1>4 DEF F

(* Sums of sizes are natural numbers.                                      *)
LEMMA BytesType ==
  ASSUME NEW s \in Seq(Packet), NEW n \in 0 .. Len(s)
  PROVE  BytesOf(s)[n] \in Nat
<1> DEFINE S == {m \in Nat : m <= Len(s) => BytesOf(s)[m] \in Nat}
<1>1. 0 \in S
  BY BytesDef
<1>2. ASSUME NEW m \in Nat, m \in S PROVE m + 1 \in S
  <2> SUFFICES ASSUME m + 1 <= Len(s) PROVE BytesOf(s)[m + 1] \in Nat
    OBVIOUS
  <2>1. BytesOf(s)[m] \in Nat /\ PacketSize[s[m + 1]] \in Nat
    BY <1>2, PacketQueueAssumption
  <2>2. BytesOf(s)[m + 1] = BytesOf(s)[m] + PacketSize[s[m + 1]]
    BY BytesDef
  <2> QED
    BY <2>1, <2>2
<1>3. n \in S
  <2> HIDE DEF S
  <2> QED
    BY <1>1, <1>2, InductiveSet
<1> QED
  BY <1>3

(* A packet put adds its size.                                             *)
LEMMA BytesAppend ==
  ASSUME NEW s \in Seq(Packet), NEW p \in Packet
  PROVE  BytesOf(Append(s, p))[Len(s) + 1]
           = BytesOf(s)[Len(s)] + PacketSize[p]
<1> DEFINE t == Append(s, p)
           S == {n \in Nat : n <= Len(s) => BytesOf(t)[n] = BytesOf(s)[n]}
<1>1. /\ t \in Seq(Packet) /\ Len(t) = Len(s) + 1
      /\ \A i \in 1 .. Len(s) : t[i] = s[i]
      /\ t[Len(s) + 1] = p
  OBVIOUS
<1> HIDE DEF t
<1>2. 0 \in S
  BY <1>1, BytesDef
<1>3. ASSUME NEW n \in Nat, n \in S PROVE n + 1 \in S
  <2> SUFFICES ASSUME n + 1 <= Len(s)
               PROVE  BytesOf(t)[n + 1] = BytesOf(s)[n + 1]
    OBVIOUS
  <2>1. BytesOf(t)[n + 1] = BytesOf(t)[n] + PacketSize[t[n + 1]]
    BY <1>1, BytesDef
  <2>2. BytesOf(s)[n + 1] = BytesOf(s)[n] + PacketSize[s[n + 1]]
    BY BytesDef
  <2> QED
    BY <1>1, <1>3, <2>1, <2>2
<1>4. Len(s) \in S
  <2> HIDE DEF S
  <2> QED
    BY <1>2, <1>3, InductiveSet
<1>5. BytesOf(t)[Len(s) + 1] = BytesOf(t)[Len(s)] + PacketSize[p]
  BY <1>1, BytesDef
<1> QED
  BY <1>4, <1>5 DEF t

(* The packet taken from the other end takes its size with it.             *)
LEMMA BytesTail ==
  ASSUME NEW s \in Seq(Packet), s # <<>>
  PROVE  BytesOf(Tail(s))[Len(s) - 1]
           = BytesOf(s)[Len(s)] - PacketSize[s[1]]
<1> DEFINE t == Tail(s)
           S == {n \in Nat : n < Len(s) =>
                  BytesOf(s)[n + 1] = BytesOf(t)[n] + PacketSize[s[1]]}
<1>1. /\ t \in Seq(Packet) /\ Len(t) = Len(s) - 1
      /\ \A i \in 1 .. Len(s) - 1 : t[i] = s[i + 1]
  OBVIOUS
<1> HIDE DEF t
<1>2. 0 \in S
  <2>1. BytesOf(s)[1] = BytesOf(s)[0] + PacketSize[s[1]] /\ BytesOf(s)[0] = 0
    BY BytesDef
  <2>2. BytesOf(t)[0] = 0
    BY <1>1, BytesDef
  <2> QED
    BY <2>1, <2>2
<1>3. ASSUME NEW n \in Nat, n \in S PROVE n + 1 \in S
  <2> SUFFICES ASSUME n + 1 < Len(s)
               PROVE  BytesOf(s)[n + 2]
                        = BytesOf(t)[n + 1] + PacketSize[s[1]]
    OBVIOUS
  <2>1. BytesOf(t)[n + 1] = BytesOf(t)[n] + PacketSize[s[n + 2]]
    <3>1. n + 1 \in 1 .. Len(t) /\ n + 1 \in 1 .. Len(s) - 1
      BY <1>1
    <3>2. t[n + 1] = s[n + 2]
      BY <1>1, <3>1
    <3> QED
      BY <1>1, <3>1, <3>2, BytesDef
  <2>2. BytesOf(s)[n + 2] = BytesOf(s)[n + 1] + PacketSize[s[n + 2]]
    BY BytesDef
  <2>3. /\ PacketSize[s[n + 2]] \in Nat /\ PacketSize[s[1]] \in Nat
        /\ BytesOf(t)[n] \in Nat
    BY <1>1, BytesType, PacketQueueAssumption
  <2> QED
    BY <1>3, <2>1, <2>2, <2>3
<1>4. Len(s) - 1 \in Nat
  OBVIOUS
<1>5. Len(s) - 1 \in S
  <2> HIDE DEF S
  <2> QED
    BY <1>2, <1>3, <1>4, InductiveSet
<1>6. /\ BytesOf(t)[Len(s) - 1] \in Nat /\ PacketSize[s[1]] \in Nat
      /\ BytesOf(s)[Len(s)] \in Nat
  BY <1>1, BytesType, PacketQueueAssumption
<1> QED
  BY <1>4, <1>5, <1>6 DEF t

-----------------------------------------------------------------------------
(* size lags behind the bytes of the list inside the critical sections,    *)
(* and a packet is on its way only if the queue was within its limit when  *)
(* it was read.                                                            *)
Weighed ==
  /\ size = QueuedBytes - (IF ppc = "put_count" THEN PacketSize[nread] ELSE 0)
                        + (IF cpc = "get_count" THEN PacketSize[got] ELSE 0)
  /\ ppc \in {"put", "put_alloc"} => QueuedBytes <= MaxQueueSize
  /\ fifo # <<>> => QueuedBytes - PacketSize[last_pkt] <= MaxQueueSize

(* The limits and sums are integers.                                       *)
LEMMA WeighedTypes ==
  ASSUME IInv
  PROVE  /\ QueuedBytes \in Nat /\ MaxQueueSize \in Nat /\ size \in Int
         /\ fifo # <<>> => last_pkt \in Packet
         /\ \A p \in Packet : PacketSize[p] \in Nat
         /\ ppc = "put_count" => nread \in Packet
         /\ cpc = "get_count" => got \in Packet
         /\ nread \in Int /\ got \in Int
<1>1. QueuedBytes \in Nat
  <2>1. Len(fifo) \in 0 .. Len(fifo)
    BY FifoFacts
  <2> QED
    BY <2>1, FifoFacts, BytesType DEF QueuedBytes
<1>2. fifo # <<>> => last_pkt \in Packet
  BY FifoFacts DEF IInv, ListIsFifo
<1>3. ppc = "put_count" => nread \in Packet
  <2> SUFFICES ASSUME ppc = "put_count" PROVE nread \in Packet
    OBVIOUS
  <2>1. 1 \in 1 .. Len(fifo)
    BY FifoFacts DEF IInv, Counted
  <2>2. fifo[1] <= nread /\ fifo[1] \in Packet
    BY <2>1, FifoFacts DEF IInv, Ordered
  <2> QED
    BY <2>2, PacketQueueAssumption DEF IInv, TypeOK, Packet
<1>4. cpc = "get_count" => got \in Packet
  BY DEF IInv, Ordered
<1> QED
  BY <1>1, <1>2, <1>3, <1>4, PacketQueueAssumption DEF IInv, TypeOK

(* The empty queue has no bytes.                                           *)
LEMMA WeighedInit == Init => Weighed
<1> SUFFICES ASSUME Init PROVE Weighed
  OBVIOUS
<1>1. QueuedBytes = 0
  <2>1. <<>> \in Seq(Packet) /\ Len(<<>>) = 0
    OBVIOUS
  <2> QED
    BY <2>1, BytesDef DEF Init, QueuedBytes
<1> QED
  BY <1>1 DEF Init, Weighed

(* Linking a packet read within the limit.                                 *)
LEMMA PutLinkWeighed == IInv /\ Weighed /\ PutLink => Weighed'
<1> SUFFICES ASSUME IInv, Weighed, PutLink PROVE Weighed'
  OBVIOUS
<1>1. /\ ppc = "put_alloc" /\ ppc' = "put_count" /\ cpc' = cpc
      /\ size' = size /\ nread' = nread /\ got' = got /\ last_pkt' = nread
      /\ fifo' = Append(fifo, nread)
  BY DEF PutLink, LinkPacket, counters
<1>2. nread \in Packet
  BY PutLinkFifo
<1>3. QueuedBytes' = QueuedBytes + PacketSize[nread]
  <2>1. Len(fifo') = Len(fifo) + 1
    BY PutLinkFifo
  <2> QED
    BY <1>1, <1>2, <2>1, FifoFacts, BytesAppend DEF QueuedBytes
<1>4. cpc # "get_count"
  BY <1>1 DEF IInv, Exclusion, PInCS, CInCS
<1> QED
  BY <1>1, <1>2, <1>3, <1>4, WeighedTypes DEF Weighed

(* Taking the oldest packet.                                               *)
LEMMA GetUnlinkWeighed == IInv /\ Weighed /\ GetUnlink => Weighed'
<1> SUFFICES ASSUME IInv, Weighed, GetUnlink PROVE Weighed'
  OBVIOUS
<1>1. /\ cpc = "get_test" /\ cpc' = "get_count" /\ ppc' = ppc
      /\ size' = size /\ nread' = nread /\ got' = fifo[1]
      /\ fifo' = Tail(fifo) /\ fifo # <<>> /\ Len(fifo') = Len(fifo) - 1
      /\ fifo[1] \in Packet
  BY GetUnlinkFifo, FifoFacts DEF GetUnlink, counters
<1>2. QueuedBytes' = QueuedBytes - PacketSize[fifo[1]]
  BY <1>1, FifoFacts, BytesTail DEF QueuedBytes
<1>3. ppc # "put_count"
  BY <1>1 DEF IInv, Exclusion, PInCS, CInCS
<1>4. fifo' # <<>> => last_pkt' = last_pkt
  <2> SUFFICES ASSUME fifo' # <<>> PROVE last_pkt' = last_pkt
    OBVIOUS
  <2>1. Len(fifo') # 0
    BY GetUnlinkFifo, EmptyFacts
  <2>2. Len(fifo) > 1 /\ 1 \in 1 .. Len(fifo) - 1
    BY <1>1, <2>1, FifoFacts
  <2>3. next[first_pkt] = fifo[2]
    BY <2>2, GetUnlinkFifo DEF IInv, ListIsFifo
  <2>4. fifo[2] \in Packet
    BY <2>2, FifoFacts
  <2> QED
    BY <2>3, <2>4 DEF GetUnlink, LastAfterGet, NoPacket, Packet
<1>5. QueuedBytes' <= QueuedBytes
  BY <1>1, <1>2, WeighedTypes
<1>6. size' = QueuedBytes' + PacketSize[got']
  BY <1>1, <1>2, <1>3, WeighedTypes DEF Weighed
<1>7. ppc' \in {"put", "put_alloc"} => QueuedBytes' <= MaxQueueSize
  BY <1>1, <1>2, <1>5, WeighedTypes DEF Weighed
<1>8. ASSUME fifo' # <<>>
      PROVE  QueuedBytes' - PacketSize[last_pkt'] <= MaxQueueSize
  <2>1. last_pkt' = last_pkt /\ last_pkt \in Packet
    BY <1>1, <1>4, <1>8, WeighedTypes
  <2>2. QueuedBytes - PacketSize[last_pkt] <= MaxQueueSize
    BY <1>1 DEF Weighed
  <2> QED
    BY <1>1, <1>2, <2>1, <2>2, WeighedTypes
<1> QED
  BY <1>1, <1>2, <1>3, <1>6, <1>7, <1>8, WeighedTypes DEF Weighed

\* Nothing that Weighed speaks of changes but the places of the threads.
Weightless == UNCHANGED <<size, fifo, last_pkt, nread, got>>

(* The other steps.                                                        *)
LEMMA WeightlessStep ==
  ASSUME IInv, Weighed, Weightless,
         ppc' \in {"put", "put_alloc"} => ppc \in {"put", "put_alloc"},
         ppc' = "put_count" <=> ppc = "put_count",
         cpc' = "get_count" <=> cpc = "get_count"
  PROVE  Weighed'
<1>1. QueuedBytes' = QueuedBytes
  BY DEF Weightless, QueuedBytes
<1> QED
  BY <1>1, WeighedTypes DEF Weighed, Weightless

(* Every step keeps the counters in line with the list, and the limit.     *)
LEMMA WeighedStep == IInv /\ Weighed /\ [Next]_vars => Weighed'
<1> SUFFICES ASSUME IInv, Weighed, [Next]_vars PROVE Weighed'
  OBVIOUS
<1>1. CASE ReadFrame
  <2>1. /\ ppc = "loop" /\ ppc' = "put" /\ cpc' = cpc /\ size' = size
        /\ fifo' = fifo /\ last_pkt' = last_pkt /\ got' = got
        /\ size <= MaxQueueSize
    BY <1>1, WeighedTypes DEF ReadFrame, QueueFull
  <2>2. QueuedBytes' = QueuedBytes
    BY <2>1 DEF QueuedBytes
  <2> QED
    BY <2>1, <2>2, WeighedTypes DEF Weighed
<1>2. CASE PutLink
  BY <1>2, PutLinkWeighed
<1>3. CASE PutCount
  <2>1. /\ ppc = "put_count" /\ ppc' = "loop" /\ cpc' = cpc
        /\ size' = size + PacketSize[nread]
        /\ UNCHANGED <<fifo, last_pkt, nread, got>>
    BY <1>3 DEF PutCount
  <2>2. QueuedBytes' = QueuedBytes
    BY <2>1 DEF QueuedBytes
  <2> QED
    BY <2>1, <2>2, WeighedTypes DEF Weighed
<1>4. CASE GetUnlink
  BY <1>4, GetUnlinkWeighed
<1>5. CASE GetCount
  <2>1. /\ cpc = "get_count" /\ cpc' = "decode" /\ ppc' = ppc
        /\ size' = size - PacketSize[got]
        /\ UNCHANGED <<fifo, last_pkt, nread, got>>
    BY <1>5 DEF GetCount
  <2>2. QueuedBytes' = QueuedBytes
    BY <2>1 DEF QueuedBytes
  <2> QED
    BY <2>1, <2>2, WeighedTypes DEF Weighed
<1>6. CASE FlushReset
  <2>1. /\ size' = 0 /\ fifo' = <<>> /\ cpc' = cpc /\ nread' = nread
        /\ ppc = "flush_free" /\ ppc' \in {"delete", "loop"}
    BY <1>6 DEF FlushReset, ResetCounters
  <2>2. QueuedBytes' = 0
    <3>1. <<>> \in Seq(Packet) /\ Len(<<>>) = 0
      OBVIOUS
    <3> QED
      BY <2>1, <3>1, BytesDef DEF QueuedBytes
  <2>3. cpc # "get_count"
    BY <2>1 DEF IInv, Exclusion, PInCS, CInCS
  <2> QED
    BY <2>1, <2>2, <2>3 DEF Weighed
<1>7. CASE RequestStop \/ RequestSeek \/ TogglePause \/ PutEnter \/ PutFail
  BY <1>7, WeightlessStep DEF Weightless, RequestStop, RequestSeek,
     TogglePause, PutEnter, PutFail
<1>8. CASE SeekFail \/ Seek \/ FlushEnter \/ FlushFree \/ CloseStream
  BY <1>8, WeightlessStep DEF Weightless, SeekFail, Seek, FlushEnter,
     FlushFree, CloseStream
<1>9. CASE AbortEnter \/ AbortSet \/ JoinConsumer \/ DeleteMutex
  BY <1>9, WeightlessStep DEF Weightless, AbortEnter, AbortSet,
     JoinConsumer, DeleteMutex
<1>10. CASE LeavePause \/ GetEnter \/ GetAborted \/ GetEmpty
  BY <1>10, WeightlessStep DEF Weightless, LeavePause, GetEnter, GetAborted,
     GetEmpty
<1>11. CASE Decode \/ DropPicture \/ UNCHANGED vars
  BY <1>11, WeightlessStep DEF Weightless, Decode, DropPicture, vars
<1> QED
  BY <1>1, <1>2, <1>3, <1>4, <1>5, <1>6, <1>7, <1>8, <1>9, <1>10, <1>11
  DEF Next, Producer, Consumer, Finished

(* Whoever takes the mutex finds the counters equal to what is in the      *)
(* list, and the queue is never over its limit by more than the last       *)
(* packet, although the limit is tested without the mutex.                 *)
THEOREM Bounded == Spec => []QueueBounded
<1>1. IInv /\ Weighed => QueueBounded
  <2> SUFFICES ASSUME IInv, Weighed PROVE QueueBounded
    OBVIOUS
  <2>1. mutex = 1 => ppc # "put_count" /\ cpc # "get_count"
    BY DEF IInv, TypeOK, Exclusion, Closing, PInCS, CInCS
  <2> QED
    BY <2>1, WeighedTypes, FifoFacts
    DEF QueueBounded, Weighed, IInv, Counted
<1>2. Spec => []Weighed
  BY WeighedInit, WeighedStep, Invariance, PTL DEF Spec
<1> QED
  BY <1>1, <1>2, Invariance, PTL

-----------------------------------------------------------------------------
(* The close, apart from fairness: after the stop some thread can always   *)
(* take a step, and each has only so many left.                            *)

(* Where a thread waits for another one, or for the user: the semaphore,   *)
(* the end of the consumer, a full queue or the end of the file, a pause.  *)
ProducerWaits ==
  \/ ppc \in {"put", "flush", "abort"} /\ mutex = 0 /\ mutex_exists = 1
  \/ ppc = "join" /\ ~ConsumerEnded
  \/ /\ ppc = "loop" /\ stop = 0 /\ seek_req = 0
     /\ QueueFull \/ nread = NumPackets
ConsumerWaits ==
  \/ cpc = "loop" /\ ~MayRun
  \/ cpc = "get" /\ mutex = 0 /\ mutex_exists = 1

NoCircularWait ==
  stop = 1 => \/ ppc = "done" /\ cpc = "done"
              \/ ppc # "done" /\ ~ProducerWaits
              \/ cpc # "done" /\ ~ConsumerWaits

(* The most steps a thread has left: the producer after the stop, and the  *)
(* consumer after the abort.  A flush passes the packets in file order.    *)
ToFree == IF cursor = NoPacket THEN 0 ELSE NumPackets + 1 - cursor

Distance(place, free) ==
  [done |-> 0, delete |-> 1, flush_free |-> 2 + free,
   flush |-> NumPackets + 3, join |-> NumPackets + 4,
   abort_set |-> NumPackets + 5, abort |-> NumPackets + 6,
   loop |-> NumPackets + 7, put_count |-> NumPackets + 8,
   put_alloc |-> NumPackets + 9, put |-> NumPackets + 10][place]

SeekFlush == closing = 0 /\ ppc \in {"flush", "flush_free"}
ProducerLeft ==
  Distance(ppc, ToFree) + (IF SeekFlush THEN NumPackets + 6 ELSE 0)

ConsumerLeft == [done |-> 0, get_test |-> 1, get |-> 2, loop |-> 3,
                 decode |-> 4, get_count |-> 5][cpc]

CloseAdvances ==
  [][/\ stop = 1 => /\ ProducerLeft' <= ProducerLeft
                    /\ Producer => ProducerLeft' < ProducerLeft
     /\ abort_request = 1 => /\ ConsumerLeft' <= ConsumerLeft
                             /\ Consumer => ConsumerLeft' < ConsumerLeft]_vars

(* The steps from each place.                                              *)
LEMMA Distances ==
  ASSUME NEW f
  PROVE  /\ Distance("done", f) = 0 /\ Distance("delete", f) = 1
         /\ Distance("flush_free", f) = 2 + f
         /\ Distance("flush", f) = NumPackets + 3
         /\ Distance("join", f) = NumPackets + 4
         /\ Distance("abort_set", f) = NumPackets + 5
         /\ Distance("abort", f) = NumPackets + 6
         /\ Distance("loop", f) = NumPackets + 7
         /\ Distance("put_count", f) = NumPackets + 8
         /\ Distance("put_alloc", f) = NumPackets + 9
         /\ Distance("put", f) = NumPackets + 10
BY DEF Distance

(* The counts of steps never go below zero.                                *)
LEMMA LeftNatural ==
  ASSUME IInv
  PROVE  /\ NumPackets \in Nat /\ ToFree \in 0 .. NumPackets
         /\ ProducerLeft \in Nat /\ ConsumerLeft \in Nat
<1>1. NumPackets \in Nat /\ ToFree \in 0 .. NumPackets
  BY PacketQueueAssumption DEF ToFree, NoPacket, IInv, TypeOK
<1>2. Distance(ppc, ToFree) \in Nat
  BY <1>1, Distances DEF IInv, TypeOK
<1>3. ProducerLeft \in Nat
  BY <1>1, <1>2 DEF ProducerLeft
<1>4. ConsumerLeft \in Nat
  BY DEF ConsumerLeft, IInv, TypeOK
<1> QED
  BY <1>1, <1>3, <1>4

(* No thread waits for one that waits: whoever holds the semaphore does    *)
(* not wait for anything, and the consumer leaves a pause for the abort.   *)
THEOREM NeverStuck == Spec => []NoCircularWait
<1>1. IInv => NoCircularWait
  <2> SUFFICES ASSUME IInv, stop = 1 PROVE NoCircularWait
    BY DEF NoCircularWait
  <2>1. CASE ppc = "done"
    BY <2>1 DEF NoCircularWait, IInv, TypeOK, Closing
  <2>2. CASE ppc = "join"
    BY <2>2 DEF NoCircularWait, ConsumerWaits, ProducerWaits, MayRun,
       ConsumerEnded, IInv, TypeOK, Exclusion, Closing, PInCS, CInCS
  <2>3. CASE ppc \in {"put", "flush", "abort"}
    BY <2>3 DEF NoCircularWait, ConsumerWaits, ProducerWaits,
       IInv, TypeOK, Exclusion, Closing, PInCS, CInCS
  <2>4. CASE ppc \notin {"done", "join", "put", "flush", "abort"}
    BY <2>4 DEF NoCircularWait, ProducerWaits
  <2> QED
    BY <2>1, <2>2, <2>3, <2>4
<1> QED
  BY <1>1, Invariance, PTL

(* A flush moves its cursor on to a later packet.                          *)
LEMMA FlushAdvances ==
  ASSUME IInv, FlushFree
  PROVE  ToFree \in Nat /\ ToFree' \in Nat /\ ToFree' < ToFree
<1> USE FifoFacts DEF NoPacket
<1>1. cursor # NoPacket /\ ppc = "flush_free" /\ cursor' = next[cursor]
  BY DEF FlushFree
<1>2. PICK k \in 1 .. Len(fifo) : cursor = fifo[k]
  BY <1>1 DEF IInv, Allocated
<1>3. NumPackets \in Nat /\ cursor \in 1 .. NumPackets
  BY <1>2, PacketQueueAssumption DEF Packet
<1>4. ToFree = NumPackets + 1 - cursor
  BY <1>1 DEF ToFree
<1>5. CASE k = Len(fifo)
  <2>1. ToFree' = 0
    BY <1>1, <1>2, <1>5 DEF ToFree, IInv, ListIsFifo
  <2> QED
    BY <1>3, <1>4, <2>1
<1>6. CASE k < Len(fifo)
  <2>1. k + 1 \in 1 .. Len(fifo) /\ cursor' = fifo[k + 1]
    BY <1>1, <1>2, <1>6 DEF IInv, ListIsFifo
  <2>2. cursor < cursor' /\ cursor' \in 1 .. NumPackets
    BY <1>2, <2>1 DEF IInv, Ordered, Packet
  <2>3. ToFree' = NumPackets + 1 - cursor'
    BY <2>2 DEF ToFree
  <2>4. \A m, n \in 1 .. NumPackets :
          m < n => /\ NumPackets + 1 - m \in Nat /\ NumPackets + 1 - n \in Nat
                   /\ NumPackets + 1 - n < NumPackets + 1 - m
    BY <1>3
  <2> QED
    BY <1>3, <1>4, <2>2, <2>3, <2>4
<1> QED
  BY <1>2, <1>5, <1>6

(* A step of the producer after the stop.                                  *)
LEMMA ProducerNearer ==
  ASSUME IInv, Producer, stop = 1
  PROVE  ProducerLeft' <= ProducerLeft /\ ProducerLeft' < ProducerLeft
<1>1. /\ NumPackets \in Nat /\ ToFree \in 0 .. NumPackets
      /\ closing \in {0, 1}
  BY LeftNatural DEF IInv, TypeOK
<1> USE Distances DEF ProducerLeft, SeekFlush
<1>2. CASE FlushFree
  <2>1. ppc = "flush_free" /\ ppc' = ppc /\ closing' = closing
    BY <1>2 DEF FlushFree
  <2> QED
    BY <1>1, <1>2, <2>1, FlushAdvances
<1>3. CASE FlushEnter
  <2>1. ppc = "flush" /\ ppc' = "flush_free" /\ closing' = closing
    BY <1>3 DEF FlushEnter
  <2>2. ToFree' \in 0 .. NumPackets
    BY <1>3, PacketQueueAssumption
    DEF FlushEnter, ToFree, NoPacket, IInv, TypeOK
  <2> QED
    BY <1>1, <2>1, <2>2
<1>4. CASE FlushReset
  <2>1. /\ ppc = "flush_free"
        /\ ppc' = IF closing = 1 THEN "delete" ELSE "loop"
    BY <1>4 DEF FlushReset
  <2> QED
    BY <1>1, <2>1
<1>5. CASE PutEnter \/ PutFail \/ PutLink \/ PutCount
  <2>1. \/ ppc = "put" /\ ppc' = "put_alloc"
        \/ ppc = "put_alloc" /\ ppc' \in {"put_count", "loop"}
        \/ ppc = "put_count" /\ ppc' = "loop"
    BY <1>5 DEF PutEnter, PutFail, PutLink, PutCount
  <2> QED
    BY <1>1, <2>1
<1>6. CASE CloseStream \/ AbortEnter \/ AbortSet \/ JoinConsumer \/ DeleteMutex
  <2>1. \/ ppc = "loop" /\ ppc' = "abort"
        \/ ppc = "abort" /\ ppc' = "abort_set"
        \/ ppc = "abort_set" /\ ppc' = "join"
        \/ ppc = "join" /\ ppc' = "flush" /\ closing' = 1
        \/ ppc = "delete" /\ ppc' = "done"
    BY <1>6
    DEF CloseStream, AbortEnter, AbortSet, JoinConsumer, DeleteMutex
  <2> QED
    BY <1>1, <2>1
<1>7. ~(ReadFrame \/ SeekFail \/ Seek)
  BY DEF ReadFrame, SeekFail, Seek, SeekPending
<1> QED
  BY <1>2, <1>3, <1>4, <1>5, <1>6, <1>7 DEF Producer

(* After the stop every step of the producer brings its end nearer, after  *)
(* the abort every step of the consumer, and no other step undoes it: put, *)
(* flush and get do not go round for ever.                                 *)
THEOREM CloseApproaches == Spec => CloseAdvances
<1> DEFINE P == /\ ProducerLeft' <= ProducerLeft
                /\ Producer => ProducerLeft' < ProducerLeft
           C == /\ ConsumerLeft' <= ConsumerLeft
                /\ Consumer => ConsumerLeft' < ConsumerLeft
<1>1. ASSUME IInv, [Next]_vars, stop = 1 PROVE P
  <2>1. ProducerLeft \in Nat
    BY <1>1, LeftNatural
  <2>2. CASE Producer
    BY <1>1, <2>1, <2>2, ProducerNearer
  <2>3. CASE ~Producer
    <3>1. ppc' = ppc /\ closing' = closing /\ cursor' = cursor
      BY <1>1, <2>3 DEF Next, Consumer, Finished, vars, RequestStop,
         RequestSeek, TogglePause, LeavePause, GetEnter, GetAborted,
         GetEmpty, GetUnlink, GetCount, Decode, DropPicture
    <3>2. ProducerLeft' = ProducerLeft
      BY <3>1 DEF ProducerLeft, SeekFlush, ToFree
    <3> QED
      BY <2>1, <2>3, <3>2
  <2> QED
    BY <2>2, <2>3
<1>2. ASSUME IInv, [Next]_vars, abort_request = 1 PROVE C
  <2>1. ConsumerLeft \in Nat
    BY <1>2, LeftNatural
  <2>2. CASE Consumer
    <3>1. CASE LeavePause \/ GetEnter \/ GetAborted \/ GetCount
      BY <2>1, <3>1
      DEF LeavePause, GetEnter, GetAborted, GetCount, ConsumerLeft
    <3>2. CASE Decode \/ DropPicture
      BY <2>1, <3>2 DEF Decode, DropPicture, ConsumerLeft
    <3>3. ~(GetEmpty \/ GetUnlink)
      BY <1>2 DEF GetEmpty, GetUnlink
    <3>4. ConsumerLeft' < ConsumerLeft /\ ConsumerLeft' <= ConsumerLeft
      BY <2>2, <3>1, <3>2, <3>3 DEF Consumer
    <3> QED
      BY <3>4
  <2>3. CASE ~Consumer
    <3>1. cpc' = cpc
      BY <1>2, <2>3 DEF Next, Producer, Finished, vars, RequestStop,
         RequestSeek, TogglePause, ReadFrame, PutEnter, PutFail, PutLink,
         PutCount, SeekFail, Seek, FlushEnter, FlushFree, FlushReset,
         CloseStream, AbortEnter, AbortSet, JoinConsumer, DeleteMutex
    <3> QED
      BY <2>1, <2>3, <3>1 DEF ConsumerLeft
  <2> QED
    BY <2>2, <2>3
<1>3. IInv /\ [Next]_vars
        => [/\ stop = 1 => P
            /\ abort_request = 1 => C]_vars
  BY <1>1, <1>2
<1> QED
  BY <1>3, Invariance, PTL DEF Spec, CloseAdvances

(* The locked linked list implements the abstract FIFO: in order, at most  *)
(* once, nothing after the abort.                                          *)
THEOREM Refinement == Spec => ImplementsFifo
<1>1. Init => Fifo!Init
  BY DEF Init, Fifo!Init, NoPacket, Fifo!NoPacket
<1>2. ASSUME IInv, [Next]_vars PROVE [Fifo!Next]_(Fifo!vars)
  <2> USE FifoFacts
  <2>1. CASE ReadFrame
    <3>1. Fifo!Offer
      BY <1>2, <2>1 DEF ReadFrame, IInv, Closing, Fifo!Offer
    <3> QED
      BY <3>1 DEF Fifo!Next
  <2>2. CASE PutLink
    <3>1. Fifo!Put
      BY <1>2, <2>2, PutLinkFifo
      DEF PutLink, IInv, Closing, Fifo!Put, Fifo!Packet, Packet
    <3> QED
      BY <3>1 DEF Fifo!Next
  <2>3. CASE GetUnlink
    <3>1. Fifo!Get
      BY <1>2, <2>3, GetUnlinkFifo DEF GetUnlink, Fifo!Get
    <3> QED
      BY <3>1 DEF Fifo!Next
  <2>4. CASE FlushReset
    <3>1. Fifo!Flush
      BY <2>4 DEF FlushReset, Fifo!Flush
    <3> QED
      BY <3>1 DEF Fifo!Next
  <2>5. CASE AbortSet
    <3>1. Fifo!Abort
      BY <2>5 DEF AbortSet, Fifo!Abort
    <3> QED
      BY <3>1 DEF Fifo!Next
  <2>6. CASE UNCHANGED <<fifo, nread, abort_request, got>>
    BY <2>6 DEF Fifo!vars
  <2>7. QED
    BY <1>2, <2>1, <2>2, <2>3, <2>4, <2>5, <2>6
    DEF Next, Producer, Consumer, Finished, vars, RequestStop, RequestSeek,
       TogglePause, PutEnter, PutFail, PutCount, SeekFail, Seek,
       FlushEnter, FlushFree, CloseStream, AbortEnter, JoinConsumer,
       DeleteMutex, LeavePause, GetEnter, GetAborted, GetEmpty, GetCount,
       Decode, DropPicture
<1>3. QED
  BY <1>1, <1>2, Invariance, PTL DEF Spec, ImplementsFifo, Fifo!Spec
=============================================================================
