----------------------------- MODULE InputProofs -----------------------------
(* Theorems about the input drivers: EventRing, for every ring size from   *)
(* two slots on; Ps2, for any number of bytes waiting; Keyboard, for any   *)
(* keys and any delay of the handler.                                      *)
EXTENDS EventRing, Ps2, Keyboard, SequenceTheorems, TLAPS

LEMMA SuccIndex ==
  ASSUME NEW i \in Index
  PROVE  Succ(i) \in Index /\ Succ(i) # i
BY RingAssumption DEF Index, Succ

(* RingTypeOK, SlotSafe and SlotsWritten together are inductive: an event  *)
(* written in a slot stays there until the pop that reads it is done with  *)
(* the slot.                                                               *)
RingInv == RingTypeOK /\ SlotSafe /\ SlotsWritten

LEMMA RingInvInit == RingInit => RingInv
BY RingAssumption
DEF RingInit, RingInv, RingTypeOK, SlotSafe, SlotsWritten, Index, UsedSlots

LEMMA RingInvStep == RingInv /\ [RingNext]_rvars => RingInv'
<1> SUFFICES ASSUME RingInv, [RingNext]_rvars PROVE RingInv'
  OBVIOUS
<1> USE DEF RingInv
<1>1. ASSUME NEW e \in Events, Push(e) PROVE RingInv'
  <2>1. CASE Full
    BY <1>1, <2>1 DEF Push, RingTypeOK, SlotSafe, SlotsWritten, UsedSlots, Full
  <2>2. CASE ~Full
    <3>1. /\ buffer' = [buffer EXCEPT ![head] = e] /\ head' = Succ(head)
          /\ UNCHANGED <<tail, pop, taken, out, got>>
      BY <1>1, <2>2 DEF Push
    <3>2. RingTypeOK'
      BY <3>1, SuccIndex DEF RingTypeOK
    <3>3. \A i \in UsedSlots' : i \in UsedSlots \/ i = head
      BY <3>1, <2>2, RingAssumption DEF UsedSlots, RingTypeOK, Full, Index, Succ
    <3>4. UsedSlots \subseteq UsedSlots'
      BY <3>1, <2>2, RingAssumption DEF UsedSlots, RingTypeOK, Full, Index, Succ
    <3>5. pop = "freed" => taken # head
      BY <2>2 DEF SlotSafe
    <3>6. SlotSafe'
      BY <3>1, <3>4, <3>5, <2>2, RingAssumption
      DEF SlotSafe, RingTypeOK, Full, Index, Succ
    <3>7. SlotsWritten'
      <4>1. head \notin UsedSlots
        BY RingAssumption DEF UsedSlots, RingTypeOK, Index
      <4>2. pop \in {"tested", "copied", "freed"} => taken # head
        BY <3>5, <4>1 DEF SlotSafe
      <4>3. \A i \in Index : buffer'[i] = IF i = head THEN e ELSE buffer[i]
        BY <3>1 DEF RingTypeOK
      <4>4. \A i \in UsedSlots' : i \in Index
        BY DEF UsedSlots
      <4>5. \A i \in UsedSlots' : buffer'[i] \in Events
        BY <3>3, <4>3, <4>4 DEF SlotsWritten
      <4>6. taken \in Index /\ taken' = taken /\ pop' = pop /\ out' = out
        BY <3>1 DEF RingTypeOK
      <4>. QED BY <4>2, <4>3, <4>5, <4>6 DEF SlotsWritten
    <3>. QED BY <3>2, <3>6, <3>7
  <2>. QED BY <2>1, <2>2
<1>2. CASE PopTest
  <2>1. tail \in UsedSlots
    BY <1>2, RingAssumption DEF PopTest, Empty, UsedSlots, RingTypeOK, Index
  <2>. QED BY <1>2, <2>1
       DEF PopTest, ring, RingTypeOK, SlotSafe, SlotsWritten, UsedSlots
<1>3. CASE PopCopy
  <2>1. buffer[taken] \in Events
    BY <1>3 DEF PopCopy, SlotSafe, SlotsWritten
  <2>. QED BY <1>3, <2>1
       DEF PopCopy, ring, RingTypeOK, SlotSafe, SlotsWritten, UsedSlots
<1>4. CASE PopFree
  <2>1. taken \in UsedSlots /\ tail = taken /\ tail' = Succ(taken) /\ head' = head
    BY <1>4 DEF PopFree, SlotSafe, RingTypeOK
  <2>2. RingTypeOK'
    BY <1>4, <2>1, SuccIndex DEF PopFree, RingTypeOK
  <2>3. UsedSlots' \subseteq UsedSlots
    BY <2>1, RingAssumption DEF UsedSlots, RingTypeOK, Index, Succ
  <2>4. SlotSafe'
    BY <1>4, <2>1, RingAssumption
    DEF PopFree, SlotSafe, RingTypeOK, UsedSlots, Full, Index, Succ
  <2>5. SlotsWritten'
    BY <1>4, <2>1, <2>3 DEF PopFree, SlotsWritten
  <2>. QED BY <2>2, <2>4, <2>5
<1>5. CASE PopReturn
  BY <1>5 DEF PopReturn, ring, RingTypeOK, SlotSafe, SlotsWritten, UsedSlots
<1>6. CASE UNCHANGED rvars
  BY <1>6 DEF rvars, RingTypeOK, SlotSafe, SlotsWritten, UsedSlots, Full
<1>. QED BY <1>1, <1>2, <1>3, <1>4, <1>5, <1>6 DEF RingNext

(* The types, for any size.                                                *)
THEOREM RingTypeCorrect == RingSpec => []RingTypeOK
<1>1. RingInv => RingTypeOK
  BY DEF RingInv
<1>. QED BY RingInvInit, RingInvStep, <1>1, PTL DEF RingSpec

(* A push never writes the slot that an interrupted pop has yet to read.   *)
THEOREM RingSlotSafe == RingSpec => []SlotSafe
<1>1. RingInv => SlotSafe
  BY DEF RingInv
<1>. QED BY RingInvInit, RingInvStep, <1>1, PTL DEF RingSpec

(* A pop never returns a slot that no push has written.                    *)
THEOREM RingSlotsWritten == RingSpec => []SlotsWritten
<1>1. RingInv => SlotsWritten
  BY DEF RingInv
<1>. QED BY RingInvInit, RingInvStep, <1>1, PTL DEF RingSpec

-----------------------------------------------------------------------------
(* The refinement.                                                         *)
ContentsFacts ==
  /\ Count \in 0 .. SIZE - 1
  /\ \A n \in 0 .. Count - 1 : Slot(n) \in UsedSlots
  /\ Contents \in Seq(Events \cup {NO_EVENT})
  /\ Len(Contents) = Count
  /\ \A n \in 1 .. Count : Contents[n] = buffer[Slot(n - 1)]

LEMMA ContentsSeq == RingTypeOK => ContentsFacts
<1> SUFFICES ASSUME RingTypeOK PROVE ContentsFacts
  OBVIOUS
<1>1. Count \in 0 .. SIZE - 1
  BY RingAssumption DEF Count, RingTypeOK, Index
<1>2. \A n \in 0 .. Count - 1 : Slot(n) \in UsedSlots
  BY <1>1, RingAssumption DEF Count, Slot, UsedSlots, RingTypeOK, Index
<1>3. \A n \in 1 .. Count : buffer[Slot(n - 1)] \in Events \cup {NO_EVENT}
  BY <1>1, <1>2 DEF UsedSlots, RingTypeOK
<1>4. Contents \in Seq(Events \cup {NO_EVENT}) /\ Len(Contents) = Count
  BY <1>1, <1>3 DEF Contents
<1>. QED BY <1>1, <1>2, <1>4 DEF Contents, ContentsFacts

(* A push appends its event to the contents.                               *)
LEMMA ContentsPush ==
  ASSUME RingTypeOK, RingTypeOK', NEW e \in Events, ~Full,
         buffer' = [buffer EXCEPT ![head] = e], head' = Succ(head), tail' = tail
  PROVE  Len(Contents) < SIZE - 1 /\ Contents' = Append(Contents, e)
<1>1. Count' = Count + 1 /\ Count < SIZE - 1
  BY RingAssumption DEF Count, RingTypeOK, Index, Full, Succ
<1>2. \A n \in 0 .. Count - 1 : Slot(n)' = Slot(n) /\ Slot(n) \in Index \ {head}
  BY RingAssumption DEF Count, Slot, RingTypeOK, Index
<1>3. \A n \in Nat : n = Count => Slot(n)' = head
  BY RingAssumption DEF Count, Slot, RingTypeOK, Index
<1>4. /\ Contents \in Seq(Events \cup {NO_EVENT}) /\ Len(Contents) = Count
      /\ \A n \in 1 .. Count : Contents[n] = buffer[Slot(n - 1)]
  BY ContentsSeq DEF ContentsFacts
<1>5. /\ Contents' \in Seq(Events \cup {NO_EVENT}) /\ Len(Contents') = Count + 1
      /\ \A n \in 1 .. Count + 1 : Contents'[n] = buffer'[Slot(n - 1)']
  <2>1. (RingTypeOK => ContentsFacts)'
    BY ContentsSeq, PTL
  <2>. QED BY <2>1, <1>1 DEF ContentsFacts
<1>6. Count \in Nat
  BY ContentsSeq DEF ContentsFacts
<1>7. ASSUME NEW n \in 1 .. Count + 1
      PROVE  Contents'[n] = Append(Contents, e)[n]
  <2>1. CASE n = Count + 1
    BY <1>3, <1>4, <1>5, <1>6, <2>1 DEF RingTypeOK
  <2>2. CASE n # Count + 1
    <3>1. n - 1 \in 0 .. Count - 1 /\ n \in 1 .. Count
      BY <1>6, <2>2
    <3>2. Slot(n - 1)' = Slot(n - 1) /\ Slot(n - 1) # head
      BY <1>2, <3>1
    <3>3. buffer'[Slot(n - 1)] = buffer[Slot(n - 1)]
      BY <1>2, <3>1 DEF RingTypeOK
    <3>. QED BY <1>4, <1>5, <3>1, <3>2, <3>3
  <2>. QED BY <2>1, <2>2
<1>. QED BY <1>1, <1>4, <1>5, <1>6, <1>7

(* A pop's store to tail removes the head of the contents.                 *)
LEMMA ContentsPop ==
  ASSUME RingTypeOK, RingTypeOK', tail \in UsedSlots,
         buffer' = buffer, head' = head, tail' = Succ(tail)
  PROVE  /\ Contents # <<>>
         /\ Head(Contents) = buffer[tail]
         /\ Contents' = Tail(Contents)
<1>1. Count' = Count - 1 /\ Count > 0
  BY RingAssumption DEF Count, RingTypeOK, Index, UsedSlots, Succ
<1>2. \A n \in 0 .. Count - 2 : Slot(n)' = Slot(n + 1)
  BY RingAssumption DEF Count, Slot, RingTypeOK, Index, Succ
<1>3. Slot(0) = tail
  BY RingAssumption DEF Slot, RingTypeOK, Index
<1>4. /\ Contents \in Seq(Events \cup {NO_EVENT}) /\ Len(Contents) = Count
      /\ \A n \in 1 .. Count : Contents[n] = buffer[Slot(n - 1)]
      /\ Count \in Nat
  BY ContentsSeq DEF ContentsFacts
<1>5. /\ Contents' \in Seq(Events \cup {NO_EVENT}) /\ Len(Contents') = Count - 1
      /\ \A n \in 1 .. Count - 1 : Contents'[n] = buffer[Slot(n - 1)']
  <2>1. (RingTypeOK => ContentsFacts)'
    BY ContentsSeq, PTL
  <2>. QED BY <2>1, <1>1 DEF ContentsFacts
<1>6. Contents # <<>> /\ Head(Contents) = buffer[tail]
  BY <1>1, <1>3, <1>4
<1>7. ASSUME NEW n \in 1 .. Count - 1
      PROVE  Contents'[n] = Tail(Contents)[n]
  <2>1. n - 1 \in 0 .. Count - 2 /\ n + 1 \in 1 .. Count
    BY <1>4
  <2>2. Slot(n - 1)' = Slot(n)
    BY <1>2, <2>1
  <2>3. Tail(Contents)[n] = Contents[n + 1]
    BY <1>4, <1>6
  <2>4. Contents[n + 1] = buffer[Slot(n)]
    <3>1. Contents[n + 1] = buffer[Slot((n + 1) - 1)]
      BY <1>4, <2>1
    <3>2. (n + 1) - 1 = n
      BY <1>4
    <3>. QED BY <3>1, <3>2
  <2>. QED BY <1>5, <2>2, <2>3, <2>4
<1>8. Tail(Contents) \in Seq(Events \cup {NO_EVENT}) /\ Len(Tail(Contents)) = Count - 1
  BY <1>4, <1>6
<1>. QED BY <1>5, <1>6, <1>7, <1>8

LEMMA ContentsFrame ==
  ASSUME ring' = ring
  PROVE  Contents' = Contents
BY DEF ring, Contents, Count, Slot

LEMMA RefineInit == RingInit => Queue!QueueInit
<1> SUFFICES ASSUME RingInit PROVE Queue!QueueInit
  OBVIOUS
<1>1. Contents = <<>>
  BY DEF RingInit, Contents, Count
<1>2. InFlight = NO_EVENT /\ got = NO_EVENT
  BY DEF RingInit, InFlight
<1>. QED BY <1>1, <1>2 DEF Queue!QueueInit

LEMMA RefineStep ==
  RingInv /\ RingInv' /\ [RingNext]_rvars => [Queue!QueueNext]_(Queue!qvars)
<1> SUFFICES ASSUME RingInv, RingInv', [RingNext]_rvars
             PROVE  [Queue!QueueNext]_(Queue!qvars)
  OBVIOUS
<1> USE DEF RingInv
<1>1. ASSUME NEW e \in Events, Push(e) PROVE [Queue!QueueNext]_(Queue!qvars)
  <2>1. CASE Full
    <3>1. Contents' = Contents
      BY <1>1, <2>1, ContentsFrame DEF Push, ring
    <3>2. InFlight' = InFlight /\ got' = got
      BY <1>1, <2>1 DEF Push, InFlight
    <3>. QED BY <3>1, <3>2 DEF Queue!qvars
  <2>2. CASE ~Full
    <3>1. Len(Contents) < SIZE - 1 /\ Contents' = Append(Contents, e)
      BY <1>1, <2>2, ContentsPush DEF Push
    <3>2. InFlight' = InFlight /\ got' = got
      BY <1>1, <2>2 DEF Push, InFlight, SlotSafe, RingTypeOK
    <3>3. Queue!Accept(e)
      BY <3>1, <3>2 DEF Queue!Accept
    <3>. QED BY <3>3 DEF Queue!QueueNext
  <2>. QED BY <2>1, <2>2
<1>2. CASE PopTest
  <2>1. Contents' = Contents /\ got' = got
    BY <1>2, ContentsFrame DEF PopTest
  <2>2. InFlight' = InFlight
    BY <1>2 DEF PopTest, InFlight
  <2>. QED BY <2>1, <2>2 DEF Queue!qvars
<1>3. CASE PopCopy
  <2>1. Contents' = Contents /\ got' = got
    BY <1>3, ContentsFrame DEF PopCopy
  <2>2. InFlight' = InFlight
    BY <1>3 DEF PopCopy, InFlight, ring
  <2>. QED BY <2>1, <2>2 DEF Queue!qvars
<1>4. CASE PopFree
  <2>1. tail = taken /\ taken \in UsedSlots /\ buffer[taken] \in Events
    BY <1>4 DEF PopFree, RingTypeOK, SlotSafe, SlotsWritten
  <2>2. /\ Contents # <<>>
        /\ Head(Contents) = buffer[tail]
        /\ Contents' = Tail(Contents)
    BY <1>4, <2>1, ContentsPop DEF PopFree
  <2>3. InFlight = NO_EVENT
    BY <1>4 DEF PopFree, InFlight
  <2>4. InFlight' = buffer[tail] /\ got' = got
    <3>1. CASE pop = "tested"
      BY <1>4, <2>1, <3>1 DEF PopFree, InFlight
    <3>2. CASE pop = "copied"
      <4>1. out = buffer[tail]
        BY <2>1, <3>2 DEF SlotsWritten
      <4>. QED BY <1>4, <3>2, <4>1 DEF PopFree, InFlight
    <3>. QED BY <1>4, <3>1, <3>2 DEF PopFree
  <2>. QED BY <2>2, <2>3, <2>4 DEF Queue!QueueNext, Queue!Take
<1>5. CASE PopReturn
  <2>1. Contents' = Contents
    BY <1>5, ContentsFrame DEF PopReturn
  <2>2. InFlight = out /\ InFlight' = NO_EVENT /\ got' = out /\ out # NO_EVENT
    BY <1>5, RingAssumption DEF PopReturn, InFlight, SlotsWritten
  <2>. QED BY <2>1, <2>2 DEF Queue!QueueNext, Queue!Return
<1>6. CASE UNCHANGED rvars
  <2>1. Contents' = Contents
    BY <1>6, ContentsFrame DEF rvars, ring
  <2>2. InFlight' = InFlight /\ got' = got
    BY <1>6 DEF rvars, InFlight
  <2>. QED BY <2>1, <2>2 DEF Queue!qvars
<1>. QED BY <1>1, <1>2, <1>3, <1>4, <1>5, <1>6 DEF RingNext

(* The ring implements the bounded FIFO, for every size.                   *)
THEOREM RingImplementsQueue == RingSpec => RefinesQueue
BY RingInvInit, RingInvStep, RefineInit, RefineStep, PTL
DEF RingSpec, RefinesQueue, Queue!QueueSpec

-----------------------------------------------------------------------------
(* What the mouse sends, and what may be last: a whole number of packets   *)
(* and acknowledgements is sent at once.                                   *)
AuxBytes == {"buttons", "dx", "dy", "ack"}
Whole    == {"dy", "ack"}

(* b may come right behind a in the mouse's stream.                        *)
Follows(a, b) ==
  PlaceOf(a) # 0 /\ PlaceOf(b) # 0 => (PlaceOf(b) - PlaceOf(a)) % 3 = 1

(* The byte the handler stored last, unless it ended a packet; and the     *)
(* byte before the ones the mouse has yet to send.                         *)
Stored == IF mouse_cycle = 0 THEN "none" ELSE mouse_byte[mouse_cycle]
Ahead  == IF outbuf[1] = "aux" THEN outbuf[2] ELSE Stored

(* The packet in the making, the output buffer and the bytes in the mouse  *)
(* are one consecutive piece of its stream.                                *)
PacketOK ==
  /\ mouse_cycle \in 0 .. 2
  /\ mouse_byte \in [1 .. 3 -> AuxBytes \cup {"none"}]
  /\ \A k \in 1 .. mouse_cycle : mouse_byte[k] # "none"
  /\ mouse_cycle = 2 => Follows(mouse_byte[1], mouse_byte[2])
  /\ NeverTorn

BufferOK ==
  outbuf[1] = "aux" => outbuf[2] \in AuxBytes /\ Follows(Stored, outbuf[2])

StreamOK ==
  /\ aux \in Seq(AuxBytes)
  /\ \A k \in 1 .. Len(aux) - 1 : Follows(aux[k], aux[k + 1])
  /\ IF aux = <<>> THEN Ahead \in Whole \cup {"none"}
                   ELSE Follows(Ahead, aux[1]) /\ aux[Len(aux)] \in Whole

(* A byte of the mouse is in the buffer whenever IRQ12 is requested, and   *)
(* never while IRQ1 is or while mouse_init reads the command byte.         *)
RequestsOK ==
  /\ Irq12Reaches /\ 12 \in raised => outbuf[1] = "aux"
  /\ outbuf[1] = "aux" => 1 \notin raised
  /\ init \in {"enable", "ask", "read", "write", "defaults"} =>
       aux = <<>> /\ ~stream /\ outbuf[1] # "aux"

Ps2Inv == PacketOK /\ BufferOK /\ StreamOK /\ RequestsOK

(* PlaceOf by place: what the mouse may append and the handler forgets.    *)
LEMMA WholeThenButtons ==
  /\ \A a \in Whole \cup {"none"} : Follows(a, "buttons")
  /\ \A a : Follows(a, "ack") /\ Follows("none", a)
  /\ Follows("buttons", "dx") /\ Follows("dx", "dy")
<1>1. /\ PlaceOf("buttons") = 1 /\ PlaceOf("dx") = 2 /\ PlaceOf("dy") = 3
      /\ PlaceOf("ack") = 0 /\ PlaceOf("none") = 0
  BY DEF PlaceOf
<1>2. ASSUME NEW d \in Int, d < 0, d + 3 > 0 PROVE d % 3 = d + 3
  BY <1>2
<1>3. ASSUME NEW x \in Int, NEW y \in Int, x = 3, y = 1 PROVE (y - x) % 3 = 1
  <2> DEFINE d == y - x
  <2>1. d \in Int /\ d < 0 /\ d + 3 = 1
    BY <1>3
  <2> HIDE DEF d
  <2>2. d % 3 = 1
    BY <1>2, <2>1
  <2>. QED BY <2>2 DEF d
<1>. QED BY <1>1, <1>3 DEF Whole, Follows

LEMMA Ps2Start == Ps2Init => Ps2Inv
<1> SUFFICES ASSUME Ps2Init PROVE Ps2Inv
  OBVIOUS
<1>1. outbuf[1] = "none" /\ mouse_cycle = 0 /\ aux = <<>> /\ Ahead = "none"
  BY DEF Ps2Init, NoByte, Ahead, Stored
<1>2. /\ mouse_byte \in [1 .. 3 -> AuxBytes \cup {"none"}]
      /\ \A k \in 1 .. 3 : mouse_byte[k] = "none"
  <2>1. \A k \in 1 .. 3 : k = 1 \/ k = 2 \/ k = 3
    OBVIOUS
  <2>. QED BY <2>1 DEF Ps2Init
<1>3. PacketOK
  BY <1>1, <1>2 DEF PacketOK, NeverTorn
<1>4. BufferOK /\ StreamOK /\ RequestsOK
  BY <1>1 DEF Ps2Init, BufferOK, StreamOK, RequestsOK
<1>. QED BY <1>3, <1>4 DEF Ps2Inv

(* What leaves the mouse's bytes alone.                                    *)
LEMMA Ps2Elsewhere ==
  ASSUME Ps2Inv, UNCHANGED <<mouse, aux, stream>>,
         outbuf' = outbuf \/ (outbuf[1] # "aux" /\ outbuf'[1] # "aux"),
         RequestsOK'
  PROVE  Ps2Inv'
<1>1. PacketOK'
  BY DEF Ps2Inv, PacketOK, NeverTorn, mouse
<1>2. Stored' = Stored /\ Ahead' = Ahead
  BY DEF Stored, Ahead, mouse
<1>3. BufferOK' /\ StreamOK'
  BY <1>2 DEF Ps2Inv, BufferOK, StreamOK
<1>. QED BY <1>1, <1>3 DEF Ps2Inv

(* New bytes are appended to what they may follow.                         *)
LEMMA MoveAppends ==
  ASSUME Ps2Inv, Move
  PROVE  Ps2Inv'
<1>1. /\ aux' = aux \o <<"buttons", "dx", "dy">> /\ stream
      /\ UNCHANGED <<ctrl, stream, drv, mouse>>
  BY DEF Move
<1>2. PacketOK' /\ BufferOK' /\ Ahead' = Ahead
  BY <1>1 DEF Ps2Inv, PacketOK, NeverTorn, BufferOK, Stored, Ahead, mouse, ctrl
<1>3. RequestsOK'
  BY <1>1 DEF Ps2Inv, RequestsOK, ctrl, drv
<1>4. StreamOK'
  <2> DEFINE n == Len(aux)
  <2>1. aux \in Seq(AuxBytes) /\ n \in Nat
    BY DEF Ps2Inv, StreamOK
  <2>2. /\ aux' \in Seq(AuxBytes) /\ Len(aux') = n + 3
        /\ \A k \in 1 .. n : aux'[k] = aux[k]
        /\ aux'[n + 1] = "buttons" /\ aux'[n + 2] = "dx" /\ aux'[n + 3] = "dy"
    BY <1>1, <2>1 DEF AuxBytes
  <2>3. ASSUME NEW k \in 1 .. n + 2 PROVE Follows(aux'[k], aux'[k + 1])
    <3>1. CASE k < n
      BY <3>1, <2>1, <2>2 DEF Ps2Inv, StreamOK
    <3>2. CASE k = n
      <4>1. aux # <<>> /\ aux[n] \in Whole
        BY <3>2, <2>1 DEF Ps2Inv, StreamOK
      <4>. QED BY <3>2, <4>1, <2>1, <2>2, WholeThenButtons
    <3>3. CASE k > n
      <4>1. k = n + 1 \/ k = n + 2
        BY <3>3, <2>1
      <4>. QED BY <4>1, <2>1, <2>2, WholeThenButtons
    <3>. QED BY <3>1, <3>2, <3>3, <2>1
  <2>4. Follows(Ahead, aux'[1])
    <3>1. CASE n = 0
      BY <3>1, <2>1, <2>2, WholeThenButtons DEF Ps2Inv, StreamOK
    <3>2. CASE n # 0
      BY <3>2, <2>1, <2>2 DEF Ps2Inv, StreamOK
    <3>. QED BY <3>1, <3>2
  <2>5. aux' # <<>> /\ aux'[Len(aux')] \in Whole
    BY <2>1, <2>2 DEF Whole
  <2>. QED BY <1>2, <2>1, <2>2, <2>3, <2>4, <2>5 DEF StreamOK
<1>. QED BY <1>2, <1>3, <1>4 DEF Ps2Inv

(* An acknowledgement may follow anything.                                 *)
LEMMA AckAppends ==
  ASSUME Ps2Inv, aux' = Append(aux, "ack"), UNCHANGED <<ctrl, mouse>>,
         init' \in {"report", "register"}
  PROVE  Ps2Inv'
<1>2. PacketOK' /\ BufferOK' /\ Ahead' = Ahead
  BY DEF Ps2Inv, PacketOK, NeverTorn, BufferOK, Stored, Ahead, mouse, ctrl
<1>3. RequestsOK'
  BY DEF Ps2Inv, RequestsOK, ctrl
<1>4. StreamOK'
  <2> DEFINE n == Len(aux)
  <2>1. aux \in Seq(AuxBytes) /\ n \in Nat
    BY DEF Ps2Inv, StreamOK
  <2>2. /\ aux' \in Seq(AuxBytes) /\ Len(aux') = n + 1
        /\ \A k \in 1 .. n : aux'[k] = aux[k]
        /\ aux'[n + 1] = "ack"
    BY <2>1 DEF AuxBytes
  <2>3. ASSUME NEW k \in 1 .. n PROVE Follows(aux'[k], aux'[k + 1])
    <3>1. CASE k < n
      BY <3>1, <2>1, <2>2 DEF Ps2Inv, StreamOK
    <3>2. CASE k = n
      BY <3>2, <2>1, <2>2, WholeThenButtons
    <3>. QED BY <3>1, <3>2, <2>1
  <2>4. Follows(Ahead, aux'[1])
    <3>1. CASE n = 0
      BY <3>1, <2>1, <2>2, WholeThenButtons
    <3>2. CASE n # 0
      BY <3>2, <2>1, <2>2 DEF Ps2Inv, StreamOK
    <3>. QED BY <3>1, <3>2
  <2>5. aux' # <<>> /\ aux'[Len(aux')] \in Whole
    BY <2>1, <2>2 DEF Whole
  <2>. QED BY <1>2, <2>1, <2>2, <2>3, <2>4, <2>5 DEF StreamOK
<1>. QED BY <1>2, <1>3, <1>4 DEF Ps2Inv

(* The byte that leaves the mouse follows what the handler stored.         *)
LEMMA AuxSent ==
  ASSUME Ps2Inv, SendAux
  PROVE  Ps2Inv'
<1>1. /\ outbuf = NoByte /\ aux # <<>> /\ Settled
      /\ outbuf' = <<"aux", Head(aux)>> /\ aux' = Tail(aux)
      /\ raised' \subseteq raised \cup {12}
      /\ UNCHANGED <<stream, drv, mouse>>
  BY DEF SendAux, Request
<1>2. outbuf[1] # "aux" /\ outbuf'[1] = "aux" /\ outbuf'[2] = aux[1]
  BY <1>1 DEF NoByte, Ps2Inv, StreamOK
<1>3. PacketOK' /\ Stored' = Stored
  BY <1>1 DEF Ps2Inv, PacketOK, NeverTorn, Stored, mouse
<1>4. Ahead = Stored /\ Ahead' = aux[1]
  BY <1>2 DEF Ahead
<1>5. aux[1] \in AuxBytes /\ Follows(Ahead, aux[1])
  BY <1>1 DEF Ps2Inv, StreamOK
<1>6. BufferOK'
  BY <1>2, <1>3, <1>4, <1>5 DEF BufferOK
<1>7. RequestsOK'
  BY <1>1, <1>2 DEF Ps2Inv, RequestsOK, Settled, drv
<1>8. StreamOK'
  <2> DEFINE n == Len(aux)
  <2>1. aux \in Seq(AuxBytes) /\ n \in Nat \ {0}
    BY <1>1 DEF Ps2Inv, StreamOK
  <2>2. /\ aux' \in Seq(AuxBytes) /\ Len(aux') = n - 1
        /\ \A k \in 1 .. n - 1 : aux'[k] = aux[k + 1]
    BY <1>1, <2>1
  <2>3. ASSUME NEW k \in 1 .. n - 2 PROVE Follows(aux'[k], aux'[k + 1])
    BY <2>1, <2>2 DEF Ps2Inv, StreamOK
  <2>4. aux[n] \in Whole
    BY <1>1 DEF Ps2Inv, StreamOK
  <2>5. CASE n = 1
    BY <1>4, <2>1, <2>2, <2>4, <2>5 DEF StreamOK
  <2>6. CASE n > 1
    <3>1. aux'[1] = aux[2] /\ Follows(aux[1], aux[2]) /\ aux'[n - 1] = aux[n]
      BY <2>1, <2>2, <2>6 DEF Ps2Inv, StreamOK
    <3>2. aux' # <<>>
      BY <2>1, <2>2, <2>6
    <3>. QED BY <3>1, <3>2, <1>4, <2>2, <2>3, <2>4 DEF StreamOK
  <2>7. n = 1 \/ n > 1
    <3> HIDE DEF n
    <3>. QED BY <2>1
  <2>. QED BY <2>5, <2>6, <2>7
<1>. QED BY <1>3, <1>6, <1>7, <1>8 DEF Ps2Inv

(* The handler stores the byte in the buffer behind the one it stored last.*)
LEMMA ByteStored ==
  ASSUME Ps2Inv, MouseIrq
  PROVE  Ps2Inv'
<1>1. /\ 12 \in raised /\ outbuf[1] = "aux" /\ raised' = raised \ {12}
      /\ UNCHANGED <<aux, stream, drv>>
  BY DEF MouseIrq, Ps2Inv, RequestsOK, devs
<1>2. CASE ~registered
  <2>1. UNCHANGED <<mouse, outbuf>>
    BY <1>2 DEF MouseIrq, mouse
  <2>2. RequestsOK'
    BY <1>1, <2>1 DEF Ps2Inv, RequestsOK, drv
  <2>. QED BY <1>1, <2>1, <2>2, Ps2Elsewhere
<1>3. CASE registered
  <2> DEFINE b == outbuf[2]
             c == mouse_cycle
  <2>1. Data = outbuf /\ outbuf # NoByte
    BY <1>1 DEF Data, NoByte
  <2>2. /\ outbuf' = NoByte
        /\ mouse_byte' = [mouse_byte EXCEPT ![c + 1] = b]
        /\ mouse_cycle' = IF c = 2 THEN 0 ELSE c + 1
    BY <1>1, <1>3, <2>1 DEF MouseIrq, Read, Meaning, CycleNext
  <2>3. /\ c \in 0 .. 2 /\ b \in AuxBytes /\ Follows(Stored, b)
        /\ mouse_byte \in [1 .. 3 -> AuxBytes \cup {"none"}]
        /\ \A k \in 1 .. c : mouse_byte[k] # "none"
        /\ c = 2 => Follows(mouse_byte[1], mouse_byte[2])
        /\ "none" \notin AuxBytes
    BY <1>1 DEF Ps2Inv, PacketOK, BufferOK, AuxBytes
  <2>4. outbuf'[1] # "aux"
    BY <2>2 DEF NoByte
  <2>5. RequestsOK'
    BY <1>1, <2>4 DEF Ps2Inv, RequestsOK, drv
  <2>6. Ahead' = IF c = 2 THEN "none" ELSE b
    BY <2>2, <2>3, <2>4 DEF Ahead, Stored
  <2>7. Ahead = b
    BY <1>1 DEF Ahead
  <2>8. StreamOK'
    BY <1>1, <2>6, <2>7, WholeThenButtons DEF Ps2Inv, StreamOK
  <2>9. BufferOK'
    BY <2>4 DEF BufferOK
  <2>10. PacketOK'
    <3>1. mouse_byte' \in [1 .. 3 -> AuxBytes \cup {"none"}] /\ mouse_cycle' \in 0 .. 2
      BY <2>2, <2>3
    <3>2. CASE c = 0
      <4>1. mouse_cycle' = 1 /\ mouse_byte'[1] = b
        BY <3>2, <2>2, <2>3
      <4>. QED BY <3>1, <4>1, <2>3 DEF PacketOK, NeverTorn
    <3>3. CASE c = 1
      <4>1. /\ mouse_cycle' = 2 /\ mouse_byte'[1] = mouse_byte[1] /\ mouse_byte'[2] = b
            /\ Stored = mouse_byte[1] /\ mouse_byte[1] # "none"
        BY <3>3, <2>2, <2>3 DEF Stored
      <4>2. \A k \in 1 .. 2 : k = 1 \/ k = 2
        OBVIOUS
      <4>. QED BY <3>1, <4>1, <4>2, <2>3 DEF PacketOK, NeverTorn
    <3>4. CASE c = 2
      <4>1. /\ mouse_cycle' = 0 /\ mouse_byte'[3] = b
            /\ mouse_byte'[1] = mouse_byte[1] /\ mouse_byte'[2] = mouse_byte[2]
            /\ Stored = mouse_byte[2] /\ mouse_byte[1] # "none" /\ mouse_byte[2] # "none"
        BY <3>4, <2>2, <2>3 DEF Stored
      <4>2. /\ Follows(mouse_byte'[1], mouse_byte'[2])
            /\ Follows(mouse_byte'[2], mouse_byte'[3])
        BY <3>4, <4>1, <2>3
      <4>3. /\ \A k \in 1 .. 3 : k = 1 \/ k = 2 \/ k = 3
            /\ \A k \in 1 .. 2 : k = 1 \/ k = 2
        OBVIOUS
      <4>4. NeverTorn'
        <5>1. \A k \in 1 .. 3 : mouse_byte'[k] # "none"
          BY <4>1, <4>3, <2>3
        <5>2. \A k \in 1 .. 2 : Follows(mouse_byte'[k], mouse_byte'[k + 1])
          BY <4>2, <4>3
        <5>. QED BY <5>1, <5>2 DEF NeverTorn, Follows
      <4>. QED BY <3>1, <4>1, <4>4 DEF PacketOK
    <3>. QED BY <3>2, <3>3, <3>4, <2>3
  <2>. QED BY <2>5, <2>8, <2>9, <2>10 DEF Ps2Inv
<1>. QED BY <1>2, <1>3

LEMMA Ps2Step == Ps2Inv /\ [Ps2Next]_ps2_vars => Ps2Inv'
<1> SUFFICES ASSUME Ps2Inv, [Ps2Next]_ps2_vars PROVE Ps2Inv'
  OBVIOUS
<1> USE DEF ctrl, devs, drv, mouse
<1>1. RequestsOK
  BY DEF Ps2Inv
<1>2. NoByte[1] = "none"
  BY DEF NoByte
<1>3. CASE Type
  BY <1>1, <1>3, Ps2Elsewhere DEF Type, RequestsOK
<1>4. CASE Move
  BY <1>4, MoveAppends
<1>5. CASE SendKey
  <2>1. /\ outbuf[1] # "aux" /\ outbuf'[1] = "kbd" /\ raised' \subseteq raised \cup {1}
        /\ UNCHANGED <<mouse, aux, stream, drv>>
    BY <1>2, <1>5 DEF SendKey, Request
  <2>2. RequestsOK'
    BY <1>1, <2>1 DEF RequestsOK
  <2>. QED BY <2>1, <2>2, Ps2Elsewhere
<1>6. CASE SendAux
  BY <1>6, AuxSent
<1>7. CASE SendAnswer
  <2>1. /\ outbuf[1] # "aux" /\ outbuf'[1] = "cmd" /\ raised' \subseteq raised \cup {1}
        /\ UNCHANGED <<mouse, aux, stream, drv>>
    BY <1>2, <1>7 DEF SendAnswer, Request
  <2>2. RequestsOK'
    BY <1>1, <2>1 DEF RequestsOK
  <2>. QED BY <2>1, <2>2, Ps2Elsewhere
<1>8. CASE KeyboardIrq
  <2>1. /\ outbuf[1] # "aux" /\ outbuf'[1] # "aux" /\ raised' \subseteq raised
        /\ UNCHANGED <<mouse, aux, stream, drv>>
    BY <1>1, <1>2, <1>8 DEF KeyboardIrq, Read, RequestsOK
  <2>2. RequestsOK'
    BY <1>1, <2>1 DEF RequestsOK
  <2>. QED BY <2>1, <2>2, Ps2Elsewhere
<1>9. CASE MouseIrq
  BY <1>9, ByteStored
<1>10. CASE EnableAux \/ AskConfig \/ WriteConfig \/ RegisterMouse
  <2>1. RequestsOK' /\ UNCHANGED <<mouse, aux, stream, outbuf>>
    BY <1>1, <1>10 DEF EnableAux, AskConfig, WriteConfig, RegisterMouse, RequestsOK
  <2>. QED BY <2>1, Ps2Elsewhere
<1>11. CASE ReadConfig
  <2>1. /\ outbuf[1] # "aux" /\ outbuf'[1] # "aux" /\ raised' = raised
        /\ init = "read" /\ init' = "write" /\ UNCHANGED <<mouse, aux, stream>>
    BY <1>1, <1>2, <1>11 DEF ReadConfig, Read, RequestsOK
  <2>2. RequestsOK'
    BY <1>1, <2>1 DEF RequestsOK
  <2>. QED BY <2>1, <2>2, Ps2Elsewhere
<1>12. CASE SetDefaults \/ EnableReports
  BY <1>12, AckAppends DEF SetDefaults, EnableReports, MouseSendCmd
<1>13. CASE UNCHANGED ps2_vars
  BY <1>1, <1>13, Ps2Elsewhere DEF ps2_vars, RequestsOK
<1>. QED BY <1>3, <1>4, <1>5, <1>6, <1>7, <1>8, <1>9, <1>10, <1>11, <1>12, <1>13
         DEF Ps2Next

(* The packets mouse_irq_handler (mouse.c:51-62) parses are three          *)
(* consecutive bytes of the mouse's stream, for any number of packets and  *)
(* keys waiting, with IRQ12 delivered or not, and at whatever step of      *)
(* mouse_init a byte arrives.                                              *)
THEOREM PacketsWhole == Ps2Spec => []NeverTorn
<1>1. Ps2Inv => NeverTorn
  BY DEF Ps2Inv, PacketOK
<1>. QED BY Ps2Start, Ps2Step, <1>1, PTL DEF Ps2Spec

(* A request of the keyboard's line stands for a byte in the buffer, or in *)
(* the latch since mouse_init read it, and that byte is owed to the        *)
(* handler if it is a scan code.                                           *)
KeyInv ==
  /\ owing \in Nat /\ stolen \in {0, 1}
  /\ init \in {"enable", "ask", "read"} => stolen = 0
  /\ 1 \in raised /\ outbuf = NoByte /\ latch[1] = "kbd" => owing >= 1
  /\ KeysHandled

LEMMA KeyStep == Ps2Inv /\ KeyInv /\ [Ps2Next]_ps2_vars => KeyInv'
<1> SUFFICES ASSUME Ps2Inv, KeyInv, [Ps2Next]_ps2_vars PROVE KeyInv'
  OBVIOUS
<1>1. RequestsOK /\ NoByte[1] = "none"
  BY DEF Ps2Inv, NoByte
<1> USE DEF KeyInv, KeysHandled, ctrl, devs, drv, mouse, fate
<1>2. CASE Type \/ Move \/ EnableAux \/ AskConfig \/ WriteConfig \/ SetDefaults
             \/ EnableReports \/ RegisterMouse
  BY <1>2 DEF Type, Move, EnableAux, AskConfig, WriteConfig, SetDefaults, EnableReports,
              MouseSendCmd, RegisterMouse
<1>3. CASE SendKey
  BY <1>1, <1>3 DEF SendKey, NoByte
<1>4. CASE SendAux
  BY <1>1, <1>4 DEF SendAux, NoByte
<1>5. CASE SendAnswer
  BY <1>1, <1>5 DEF SendAnswer, NoByte
<1>6. CASE KeyboardIrq
  BY <1>1, <1>6 DEF KeyboardIrq, Read, Data, Handled
<1>7. CASE MouseIrq
  BY <1>1, <1>7 DEF MouseIrq, Read, Data, RequestsOK
<1>8. CASE ReadConfig
  <2>1. stolen = 0 /\ outbuf' = NoByte /\ owing' = owing /\ raised' = raised /\ init' = "write"
    BY <1>8 DEF ReadConfig, Read
  <2>2. CASE outbuf[1] = "kbd"
    <3>1. owing = 1 /\ stolen' = 1
      BY <1>8, <2>1, <2>2 DEF ReadConfig
    <3>. QED BY <1>1, <2>1, <3>1
  <2>3. CASE outbuf[1] # "kbd"
    <3>1. owing = 0 /\ stolen' = 0
      BY <1>8, <2>1, <2>3 DEF ReadConfig
    <3>2. latch'[1] = "kbd" => outbuf = NoByte /\ latch[1] = "kbd"
      BY <1>8, <2>3 DEF ReadConfig, Read, Data
    <3>. QED BY <1>1, <2>1, <3>1, <3>2
  <2>. QED BY <2>2, <2>3
<1>9. CASE UNCHANGED ps2_vars
  BY <1>9 DEF ps2_vars
<1>. QED BY <1>2, <1>3, <1>4, <1>5, <1>6, <1>7, <1>8, <1>9 DEF Ps2Next

(* The keyboard handler (keyboard.c:56-57) takes every scan code that left *)
(* the buffer once, and only the one mouse_init's read may have taken can  *)
(* be missing: for any number of keys and packets, and at whatever step of *)
(* mouse_init a byte arrives.                                              *)
THEOREM KeysTaken == Ps2Spec => []KeysHandled
<1>1. Ps2Init => KeyInv
  <2> SUFFICES ASSUME Ps2Init PROVE KeyInv
    OBVIOUS
  <2>1. /\ owing = 0 /\ stolen = 0 /\ raised = {} /\ outbuf[1] = "none"
    BY DEF Ps2Init, NoByte
  <2>. QED BY <2>1 DEF KeyInv, KeysHandled
<1>2. KeyInv => KeysHandled
  BY DEF KeyInv
<1>. QED BY <1>1, <1>2, Ps2Start, Ps2Step, KeyStep, PTL DEF Ps2Spec

-----------------------------------------------------------------------------
(* The modifiers as a set: those a set of keys holds, those the handler's  *)
(* flags show, and what a byte does to the flags.                          *)
Modifiers == {"shift", "ctrl", "alt"}

KeysOf(m) == CASE m = "shift" -> {"lshift", "rshift"}
               [] m = "ctrl" -> {"lctrl", "rctrl"}
               [] m = "alt" -> {"lalt", "ralt"}

Held(s) == {m \in Modifiers : KeysOf(m) \cap s # {}}

Shown == {m \in Modifiers : \/ m = "shift" /\ shift_pressed
                            \/ m = "ctrl" /\ ctrl_pressed
                            \/ m = "alt" /\ alt_pressed}

Meant(code) == {m \in Modifiers : \/ m = "shift" /\ IsShift(code)
                                  \/ m = "ctrl" /\ code = 29
                                  \/ m = "alt" /\ code = 56}

After(s, b) == IF b >= RELEASED THEN s \ Meant(b - RELEASED) ELSE s \cup Meant(b)

(* What the flags will show once the handler has taken n bytes: after the  *)
(* prefix of a key, what they showed before it; after any other byte, what *)
(* was held when it was sent.                                              *)
ShownAfter(w, s, n) ==
  IF n = 0 THEN s
  ELSE IF w[n].byte # 224 THEN Held(w[n].held)
  ELSE IF n = 1 THEN s ELSE Held(w[n - 1].held)

(* The inductive invariant: what the handler is to show after all bytes    *)
(* that wait is what is held now, and each byte leads from what is shown   *)
(* before it to what is shown after it.  A held pair would break that: the *)
(* release of one key clears the flag of both.                             *)
WireBytes == [byte : 0 .. 255, held : SUBSET Keyboard]

KeysOK ==
  /\ down \subseteq Keyboard
  /\ repeating # "none" => repeating \in down
  /\ \A p \in Pairs : \A x, y \in p \cap down : x = y

FlagsOK ==
  /\ shift_pressed \in BOOLEAN /\ ctrl_pressed \in BOOLEAN /\ alt_pressed \in BOOLEAN

WireOK ==
  /\ wire \in Seq(WireBytes)
  /\ \A n \in 1 .. Len(wire) :
       /\ wire[n].byte = 224 => n < Len(wire) /\ wire[n + 1].byte # 224
       /\ ShownAfter(wire, Shown, n)
            = After(ShownAfter(wire, Shown, n - 1), wire[n].byte)
  /\ ShownAfter(wire, Shown, Len(wire)) = Held(down)

KeyboardInv == KeysOK /\ FlagsOK /\ WireOK /\ EventAsTyped

-----------------------------------------------------------------------------
(* A key's code means the modifier that the key is.                        *)
LEMMA CodeFacts ==
  ASSUME NEW k \in Keyboard
  PROVE  /\ Code[k] \in {29, 30, 42, 54, 56, 58, 59}
         /\ \A m \in Modifiers : m \in Meant(Code[k]) <=> k \in KeysOf(m)
<1>1. k \in {"lshift", "rshift", "lctrl", "rctrl", "lalt", "ralt", "caps", "a", "f1"}
  BY KeyboardAssumption DEF Code
<1>2. /\ Code["lshift"] = 42 /\ Code["rshift"] = 54 /\ Code["lctrl"] = 29
      /\ Code["rctrl"] = 29 /\ Code["lalt"] = 56 /\ Code["ralt"] = 56
      /\ Code["caps"] = 58 /\ Code["a"] = 30 /\ Code["f1"] = 59
  BY DEF Code
<1>3. Code[k] \in {29, 30, 42, 54, 56, 58, 59}
  BY <1>1, <1>2
<1>4. k \in {"lshift", "rshift"} <=> IsShift(Code[k])
  BY <1>1, <1>2 DEF IsShift
<1>5. k \in {"lctrl", "rctrl"} <=> Code[k] = 29
  BY <1>1, <1>2
<1>6. k \in {"lalt", "ralt"} <=> Code[k] = 56
  BY <1>1, <1>2
<1>7. /\ KeysOf("shift") = {"lshift", "rshift"}
      /\ KeysOf("ctrl") = {"lctrl", "rctrl"}
      /\ KeysOf("alt") = {"lalt", "ralt"}
  BY DEF KeysOf
<1>. QED BY <1>3, <1>4, <1>5, <1>6, <1>7 DEF Modifiers, Meant

(* A press adds what the key stands for; a release takes it away, for no   *)
(* other held key stands for the same.                                     *)
LEMMA PressHolds ==
  ASSUME NEW k \in Keyboard, NEW s
  PROVE  Held(s \cup {k}) = After(Held(s), Code[k])
<1>1. Code[k] < RELEASED
  BY CodeFacts DEF RELEASED
<1>2. After(Held(s), Code[k]) = Held(s) \cup Meant(Code[k])
  BY <1>1, CodeFacts DEF After, RELEASED
<1>. QED BY <1>2, CodeFacts DEF Held, Meant

LEMMA ReleaseLetsGo ==
  ASSUME NEW k \in Keyboard, NEW s, k \in s,
         \A p \in Pairs : \A x, y \in p \cap s : x = y
  PROVE  Held(s \ {k}) = After(Held(s), Code[k] + RELEASED)
<1>1. /\ Code[k] + RELEASED >= RELEASED
      /\ (Code[k] + RELEASED) - RELEASED = Code[k]
  BY CodeFacts DEF RELEASED
<1>2. After(Held(s), Code[k] + RELEASED) = Held(s) \ Meant(Code[k])
  BY <1>1 DEF After
<1>3. \A m \in Modifiers : KeysOf(m) \in Pairs
  BY DEF Modifiers, KeysOf, Pairs
<1>. QED BY <1>2, <1>3, CodeFacts DEF Held, Meant

(* The prefix of the right block's keys means nothing to the handler.      *)
LEMMA PrefixIdle == \A s : After(s, 224) = s
<1>1. 224 >= RELEASED /\ 224 - RELEASED = 96
  BY DEF RELEASED
<1>2. Meant(96) = {}
  BY DEF Meant, Modifiers, IsShift
<1>. QED BY <1>1, <1>2 DEF After

-----------------------------------------------------------------------------
(* A function on 1 .. n is a sequence of that length.                      *)
LEMMA SeqOfLen ==
  ASSUME NEW S, NEW n \in Nat, NEW s \in [1 .. n -> S]
  PROVE  s \in Seq(S) /\ Len(s) = n
<1>1. s \in Seq(S)
  BY SeqDef
<1>2. DOMAIN s = 1 .. Len(s) /\ DOMAIN s = 1 .. n /\ Len(s) \in Nat
  BY <1>1, LenProperties
<1>. QED BY <1>1, <1>2

LEMMA KeyboardStart == KeyboardInit => KeyboardInv
<1> SUFFICES ASSUME KeyboardInit PROVE KeyboardInv
  OBVIOUS
<1>1. Shown = {} /\ Held(down) = {}
  BY DEF KeyboardInit, Shown, Held
<1>2. WireOK
  BY <1>1 DEF KeyboardInit, WireOK, ShownAfter
<1>. QED BY <1>2 DEF KeyboardInit, KeyboardInv, KeysOK, FlagsOK, EventAsTyped

(* What the keyboard sends continues what it sent before.                  *)
LEMMA SendContinues ==
  ASSUME KeyboardInv, NEW k \in Keyboard, NEW n \in 0 .. 255, n # 224,
         Send(Bytes(k, n), down'), KeysOK', Held(down') = After(Held(down), n)
  PROVE  KeyboardInv'
<1> DEFINE bytes == Bytes(k, n)
           len   == Len(wire)
           new   == [j \in 1 .. Len(bytes) |-> [byte |-> bytes[j], held |-> down']]
<1>1. /\ wire' = wire \o new
      /\ UNCHANGED <<flags, pushed>>
      /\ down' \in SUBSET Keyboard
  BY DEF Send, KeysOK
<1>2. Shown' = Shown /\ FlagsOK' /\ EventAsTyped'
  BY <1>1 DEF Shown, flags, pushed, KeyboardInv, FlagsOK, EventAsTyped
<1>3. /\ wire \in Seq(WireBytes) /\ len \in Nat
      /\ \A i \in 1 .. len :
           /\ wire[i].byte = 224 => i < len /\ wire[i + 1].byte # 224
           /\ ShownAfter(wire, Shown, i)
                = After(ShownAfter(wire, Shown, i - 1), wire[i].byte)
      /\ ShownAfter(wire, Shown, len) = Held(down)
  BY DEF KeyboardInv, WireOK
<1>4. CASE bytes = <<n>>
  <2>1. /\ new \in Seq(WireBytes)
        /\ Len(new) = 1 /\ new[1] = [byte |-> n, held |-> down']
    <3>1. Len(bytes) = 1 /\ bytes[1] = n
      BY <1>4
    <3> HIDE DEF bytes
    <3>2. \A j \in 1 .. 1 : [byte |-> bytes[j], held |-> down'] \in WireBytes
      <4>1. \A j \in 1 .. 1 : bytes[j] \in 0 .. 255
        BY <3>1
      <4>. QED BY <4>1, <1>1 DEF WireBytes
    <3>3. new \in [1 .. 1 -> WireBytes] /\ new[1] = [byte |-> n, held |-> down']
      BY <3>1, <3>2
    <3> HIDE DEF new
    <3>4. new \in Seq(WireBytes) /\ Len(new) = 1
      <4>1. new \in [1 .. 1 -> WireBytes] /\ 1 \in Nat
        BY <3>3
      <4>. QED BY ONLY <4>1, SeqOfLen
    <3>. QED BY <3>3, <3>4
  <2> HIDE DEF new
  <2>2. /\ wire' \in Seq(WireBytes)
        /\ Len(wire') = len + 1
        /\ \A i \in 1 .. len : wire'[i] = wire[i]
        /\ wire'[len + 1] = [byte |-> n, held |-> down']
    <3> DEFINE w == wire \o new
    <3>1. /\ w \in Seq(WireBytes) /\ Len(w) = len + Len(new)
          /\ \A i \in 1 .. len + Len(new) :
               w[i] = IF i <= len THEN wire[i] ELSE new[i - len]
      <4>1. wire \in Seq(WireBytes) /\ new \in Seq(WireBytes)
        BY <1>3, <2>1
      <4>. QED BY ONLY <4>1, ConcatProperties
    <3>2. wire' = w
      BY <1>1
    <3> HIDE DEF w, len
    <3>. QED BY <1>3, <2>1, <3>1, <3>2
  <2> HIDE DEF len
  <2>3. \A i \in 0 .. len : ShownAfter(wire', Shown', i) = ShownAfter(wire, Shown, i)
    BY <1>2, <1>3, <2>2 DEF ShownAfter
  <2>4. ShownAfter(wire', Shown', len + 1) = Held(down')
    BY <1>3, <2>2 DEF ShownAfter
  <2>5. ASSUME NEW i \in 1 .. len + 1
        PROVE  /\ wire'[i].byte = 224 => i < len + 1 /\ wire'[i + 1].byte # 224
               /\ ShownAfter(wire', Shown', i)
                    = After(ShownAfter(wire', Shown', i - 1), wire'[i].byte)
    <3>1. CASE i <= len
      <4>1. /\ i \in 1 .. len /\ wire'[i] = wire[i]
            /\ i < len => wire'[i + 1] = wire[i + 1]
        <5>1. i \in 1 .. len /\ (i < len => i + 1 \in 1 .. len)
          BY <3>1, <1>3
        <5>. QED BY <5>1, <2>2
      <4>2. i \in 0 .. len /\ i - 1 \in 0 .. len
        BY <4>1, <1>3
      <4>3. /\ ShownAfter(wire', Shown', i) = ShownAfter(wire, Shown, i)
            /\ ShownAfter(wire', Shown', i - 1) = ShownAfter(wire, Shown, i - 1)
        BY <4>2, <2>3
      <4>4. /\ wire[i].byte = 224 => i < len /\ wire[i + 1].byte # 224
            /\ ShownAfter(wire, Shown, i)
                 = After(ShownAfter(wire, Shown, i - 1), wire[i].byte)
        BY <4>1, <1>3
      <4>. QED BY <4>1, <4>3, <4>4, <1>3
    <3>2. CASE i = len + 1
      BY <3>2, <1>3, <2>2, <2>3, <2>4
    <3>. QED BY <1>3, <3>1, <3>2
  <2>6. WireOK'
    BY <2>2, <2>4, <2>5 DEF WireOK
  <2>. QED BY <1>2, <2>6 DEF KeyboardInv
<1>5. CASE bytes = <<224, n>>
  <2>1. /\ new \in Seq(WireBytes)
        /\ Len(new) = 2 /\ new[1] = [byte |-> 224, held |-> down']
        /\ new[2] = [byte |-> n, held |-> down']
    <3>1. Len(bytes) = 2 /\ bytes[1] = 224 /\ bytes[2] = n
      BY <1>5
    <3> HIDE DEF bytes
    <3>2. \A j \in 1 .. 2 : [byte |-> bytes[j], held |-> down'] \in WireBytes
      <4>1. \A j \in 1 .. 2 : bytes[j] \in 0 .. 255
        BY <3>1
      <4>. QED BY <4>1, <1>1 DEF WireBytes
    <3>3. /\ new \in [1 .. 2 -> WireBytes] /\ new[1] = [byte |-> 224, held |-> down']
          /\ new[2] = [byte |-> n, held |-> down']
      BY <3>1, <3>2
    <3> HIDE DEF new
    <3>4. new \in Seq(WireBytes) /\ Len(new) = 2
      <4>1. new \in [1 .. 2 -> WireBytes] /\ 2 \in Nat
        BY <3>3
      <4>. QED BY ONLY <4>1, SeqOfLen
    <3>. QED BY <3>3, <3>4
  <2> HIDE DEF new
  <2>2. /\ wire' \in Seq(WireBytes)
        /\ Len(wire') = len + 2
        /\ \A i \in 1 .. len : wire'[i] = wire[i]
        /\ wire'[len + 1] = [byte |-> 224, held |-> down']
        /\ wire'[len + 2] = [byte |-> n, held |-> down']
    <3> DEFINE w == wire \o new
    <3>1. /\ w \in Seq(WireBytes) /\ Len(w) = len + Len(new)
          /\ \A i \in 1 .. len + Len(new) :
               w[i] = IF i <= len THEN wire[i] ELSE new[i - len]
      <4>1. wire \in Seq(WireBytes) /\ new \in Seq(WireBytes)
        BY <1>3, <2>1
      <4>. QED BY ONLY <4>1, ConcatProperties
    <3>2. wire' = w
      BY <1>1
    <3> HIDE DEF w, len
    <3>. QED BY <1>3, <2>1, <3>1, <3>2
  <2> HIDE DEF len
  <2>3. \A i \in 0 .. len : ShownAfter(wire', Shown', i) = ShownAfter(wire, Shown, i)
    BY <1>2, <1>3, <2>2 DEF ShownAfter
  <2>4. ShownAfter(wire', Shown', len + 1) = ShownAfter(wire, Shown, len)
    <3>1. CASE len = 0
      BY <3>1, <1>2, <2>2 DEF ShownAfter
    <3>2. CASE len # 0
      <4>1. wire[len].byte # 224 /\ wire'[len] = wire[len]
        BY <3>2, <1>3, <2>2
      <4>. QED BY <3>2, <4>1, <1>3, <2>2 DEF ShownAfter
    <3>. QED BY <3>1, <3>2
  <2>5. ShownAfter(wire', Shown', len + 2) = Held(down')
    BY <1>3, <2>2 DEF ShownAfter
  <2>6. ASSUME NEW i \in 1 .. len + 2
        PROVE  /\ wire'[i].byte = 224 => i < len + 2 /\ wire'[i + 1].byte # 224
               /\ ShownAfter(wire', Shown', i)
                    = After(ShownAfter(wire', Shown', i - 1), wire'[i].byte)
    <3>1. CASE i <= len
      <4>1. /\ i \in 1 .. len /\ wire'[i] = wire[i]
            /\ i < len => wire'[i + 1] = wire[i + 1]
        <5>1. i \in 1 .. len /\ (i < len => i + 1 \in 1 .. len)
          BY <3>1, <1>3
        <5>. QED BY <5>1, <2>2
      <4>2. i \in 0 .. len /\ i - 1 \in 0 .. len
        BY <4>1, <1>3
      <4>3. /\ ShownAfter(wire', Shown', i) = ShownAfter(wire, Shown, i)
            /\ ShownAfter(wire', Shown', i - 1) = ShownAfter(wire, Shown, i - 1)
        BY <4>2, <2>3
      <4>4. /\ wire[i].byte = 224 => i < len /\ wire[i + 1].byte # 224
            /\ ShownAfter(wire, Shown, i)
                 = After(ShownAfter(wire, Shown, i - 1), wire[i].byte)
        BY <4>1, <1>3
      <4>. QED BY <4>1, <4>3, <4>4, <1>3
    <3>2. CASE i = len + 1
      BY <3>2, <1>3, <2>2, <2>3, <2>4, PrefixIdle
    <3>3. CASE i = len + 2
      BY <3>3, <1>3, <2>2, <2>3, <2>4, <2>5
    <3>. QED BY <1>3, <3>1, <3>2, <3>3
  <2>7. WireOK'
    BY <2>2, <2>5, <2>6 DEF WireOK
  <2>. QED BY <1>2, <2>7 DEF KeyboardInv
<1>. QED BY <1>4, <1>5 DEF Bytes

(* The handler takes a byte: the flags become what was to be shown after   *)
(* it, and what is to be shown later stays.                                *)
LEMMA TakenFollows ==
  ASSUME KeyboardInv, Taken, FlagsOK', EventAsTyped', Shown' = After(Shown, Scancode)
  PROVE  KeyboardInv'
<1> DEFINE len == Len(wire)
<1>1. /\ wire \in Seq(WireBytes) /\ len \in Nat
      /\ \A i \in 1 .. len :
           /\ wire[i].byte = 224 => i < len /\ wire[i + 1].byte # 224
           /\ ShownAfter(wire, Shown, i)
                = After(ShownAfter(wire, Shown, i - 1), wire[i].byte)
      /\ ShownAfter(wire, Shown, len) = Held(down)
  BY DEF KeyboardInv, WireOK
<1>2. /\ len > 0 /\ UNCHANGED key_state /\ Scancode = wire[1].byte
      /\ wire' \in Seq(WireBytes)
      /\ Len(wire') = len - 1
      /\ \A i \in 1 .. len - 1 : wire'[i] = wire[i + 1]
  BY <1>1 DEF Taken, Scancode
<1> HIDE DEF len
<1>3. KeysOK' /\ down' = down
  BY <1>2 DEF KeyboardInv, KeysOK, key_state
<1>4. Shown' = ShownAfter(wire, Shown, 1)
  BY <1>1, <1>2 DEF ShownAfter
<1>5. ASSUME NEW i \in 0 .. len - 1
      PROVE  ShownAfter(wire', Shown', i) = ShownAfter(wire, Shown, i + 1)
  <2>1. CASE i = 0
    BY <2>1, <1>4 DEF ShownAfter
  <2>2. CASE i > 0
    <3>1. wire'[i] = wire[i + 1] /\ (i > 1 => wire'[i - 1] = wire[i])
      BY <2>2, <1>1, <1>2
    <3>2. CASE wire[i + 1].byte # 224
      BY <2>2, <3>1, <3>2, <1>1 DEF ShownAfter
    <3>3. CASE wire[i + 1].byte = 224
      <4>1. wire[i].byte # 224
        BY <2>2, <3>3, <1>1
      <4>2. /\ ShownAfter(wire, Shown, i) = Held(wire[i].held)
            /\ ShownAfter(wire, Shown, i + 1) = Held(wire[i].held)
        BY <2>2, <3>3, <4>1, <1>1 DEF ShownAfter
      <4>3. CASE i = 1
        BY <4>2, <4>3, <3>1, <3>3, <1>4 DEF ShownAfter
      <4>4. CASE i > 1
        BY <4>2, <4>4, <3>1, <3>3 DEF ShownAfter
      <4>. QED BY <2>2, <4>3, <4>4
    <3>. QED BY <3>2, <3>3
  <2>. QED BY <1>1, <2>1, <2>2
<1>6. ASSUME NEW i \in 1 .. len - 1
      PROVE  /\ wire'[i].byte = 224 => i < len - 1 /\ wire'[i + 1].byte # 224
             /\ ShownAfter(wire', Shown', i)
                  = After(ShownAfter(wire', Shown', i - 1), wire'[i].byte)
  <2>1. wire'[i] = wire[i + 1] /\ i + 1 \in 1 .. len /\ i - 1 \in 0 .. len - 1
    BY <1>1, <1>2
  <2>2. /\ ShownAfter(wire', Shown', i) = ShownAfter(wire, Shown, i + 1)
        /\ ShownAfter(wire', Shown', i - 1) = ShownAfter(wire, Shown, i)
    BY <2>1, <1>1, <1>5
  <2>3. ShownAfter(wire, Shown, i + 1)
          = After(ShownAfter(wire, Shown, i), wire[i + 1].byte)
    BY <2>1, <1>1
  <2>4. wire[i + 1].byte = 224 => i + 1 < len /\ wire[i + 2].byte # 224
    BY <2>1, <1>1
  <2>5. wire[i + 1].byte = 224 => i < len - 1 /\ wire'[i + 1] = wire[i + 2]
    BY <2>1, <2>4, <1>1, <1>2
  <2>. QED BY <2>1, <2>2, <2>3, <2>4, <2>5
<1>7. ShownAfter(wire', Shown', len - 1) = Held(down)
  BY <1>1, <1>2, <1>5
<1>8. WireOK'
  BY <1>2, <1>3, <1>6, <1>7 DEF WireOK
<1>. QED BY <1>3, <1>8 DEF KeyboardInv

LEMMA KeyboardStep ==
  ASSUME OneOfEach
  PROVE  KeyboardInv /\ [KeyboardNext]_keyboard_vars => KeyboardInv'
<1> SUFFICES ASSUME KeyboardInv, [KeyboardNext]_keyboard_vars PROVE KeyboardInv'
  OBVIOUS
<1>1. ASSUME NEW k \in Keyboard, Press(k) PROVE KeyboardInv'
  <2>1. /\ k \notin down /\ down' = down \cup {k} /\ repeating' = k
        /\ \A p \in Pairs : k \in p => p \cap down = {}
        /\ Send(Bytes(k, Code[k]), down')
    BY <1>1 DEF Press
  <2>2. KeysOK'
    BY <2>1 DEF KeyboardInv, KeysOK
  <2>3. Code[k] \in 0 .. 255 /\ Code[k] # 224
    BY CodeFacts
  <2>. QED BY <2>1, <2>2, <2>3, PressHolds, SendContinues
<1>2. ASSUME NEW k \in Keyboard, Release(k) PROVE KeyboardInv'
  <2>1. /\ k \in down /\ down' = down \ {k}
        /\ repeating' = (IF repeating = k THEN "none" ELSE repeating)
        /\ Send(Bytes(k, Code[k] + RELEASED), down')
    BY <1>2 DEF Release
  <2>2. KeysOK'
    BY <2>1 DEF KeyboardInv, KeysOK
  <2>3. Code[k] + RELEASED \in 0 .. 255 /\ Code[k] + RELEASED # 224
    BY CodeFacts DEF RELEASED
  <2>4. Held(down') = After(Held(down), Code[k] + RELEASED)
    BY <2>1, ReleaseLetsGo DEF KeyboardInv, KeysOK
  <2>. QED BY <2>1, <2>2, <2>3, <2>4, SendContinues
<1>3. CASE Repeat
  <2>1. /\ repeating \in down /\ repeating \in Keyboard /\ down' = down
        /\ Send(Bytes(repeating, Code[repeating]), down')
    BY <1>3 DEF Repeat, KeyboardInv, KeysOK, key_state
  <2>2. KeysOK'
    BY <1>3 DEF Repeat, KeyboardInv, KeysOK, key_state
  <2>3. Code[repeating] \in 0 .. 255 /\ Code[repeating] # 224
    BY <2>1, CodeFacts
  <2>4. down \cup {repeating} = down
    BY <2>1
  <2>5. Held(down') = After(Held(down), Code[repeating])
    BY <2>1, <2>4, PressHolds
  <2>. QED BY <2>1, <2>2, <2>3, <2>5, SendContinues
<1>4. CASE HandleRelease \/ HandleSpecial
  <2>1. Taken /\ EventAsTyped' /\ FlagsOK'
    BY <1>4 DEF HandleRelease, HandleSpecial, KeyboardInv, EventAsTyped, FlagsOK, pushed
  <2>2. Shown' = After(Shown, Scancode)
    <3>1. CASE HandleRelease
      BY <3>1 DEF HandleRelease, Shown, After, Meant
    <3>2. CASE HandleSpecial
      <4>1. ~(Scancode >= RELEASED)
        BY <3>2 DEF HandleSpecial, Special, IsShift, RELEASED
      <4>. QED BY <3>2, <4>1 DEF HandleSpecial, Shown, After, Meant
    <3>. QED BY <1>4, <3>1, <3>2
  <2>. QED BY <2>1, <2>2, TakenFollows
<1>5. CASE HandleKey
  <2>1. /\ Taken /\ Scancode < RELEASED /\ ~Special(Scancode) /\ UNCHANGED flags
        /\ event' = [key |-> Scancode, ctrl |-> ctrl_pressed,
                     alt |-> alt_pressed, shift |-> shift_pressed]
        /\ typed' = Head(wire).held /\ Scancode = Head(wire).byte
    BY <1>5 DEF HandleKey, Scancode
  <2>2. Shown' = Shown /\ FlagsOK'
    BY <2>1 DEF Shown, flags, KeyboardInv, FlagsOK
  <2>3. Scancode \in 0 .. 255 /\ 1 \in 1 .. Len(wire) /\ Head(wire) = wire[1]
    <3>1. wire \in Seq(WireBytes) /\ wire # <<>>
      BY <2>1 DEF Taken, KeyboardInv, WireOK
    <3>2. Head(wire) \in WireBytes /\ Head(wire) = wire[1] /\ 1 \in 1 .. Len(wire)
      BY <3>1
    <3>. QED BY <2>1, <3>2 DEF WireBytes
  <2>4. After(Shown, Scancode) = Shown
    <3>1. Meant(Scancode) = {}
      BY <2>1 DEF Meant, Special
    <3>2. ~(Scancode >= RELEASED)
      BY <2>1, <2>3 DEF RELEASED
    <3>. QED BY <3>1, <3>2 DEF After
  <2>5. Held(typed') = Shown
    <3>1. ShownAfter(wire, Shown, 1) = After(ShownAfter(wire, Shown, 0), wire[1].byte)
      BY <2>3 DEF KeyboardInv, WireOK
    <3>2. ShownAfter(wire, Shown, 0) = Shown /\ wire[1].byte # 224
      BY <2>1, <2>3 DEF ShownAfter, RELEASED
    <3>. QED BY <3>1, <3>2, <2>1, <2>4 DEF ShownAfter
  <2>6. EventAsTyped'
    <3>1. /\ KeysOf("shift") = {"lshift", "rshift"}
          /\ KeysOf("ctrl") = {"lctrl", "rctrl"}
          /\ KeysOf("alt") = {"lalt", "ralt"}
      BY DEF KeysOf
    <3>2. /\ event'.shift = shift_pressed /\ event'.ctrl = ctrl_pressed
          /\ event'.alt = alt_pressed
      BY <2>1
    <3>3. /\ shift_pressed <=> "shift" \in Held(typed')
          /\ ctrl_pressed <=> "ctrl" \in Held(typed')
          /\ alt_pressed <=> "alt" \in Held(typed')
      BY <2>5 DEF Shown, Modifiers
    <3>. QED BY <3>1, <3>2, <3>3 DEF EventAsTyped, PairHeld, Held, Modifiers,
                KeyboardInv, FlagsOK
  <2>. QED BY <2>1, <2>2, <2>4, <2>6, TakenFollows
<1>6. CASE UNCHANGED keyboard_vars
  <2>1. Shown' = Shown /\ wire' = wire /\ down' = down
    BY <1>6 DEF keyboard_vars, Shown
  <2>2. WireOK'
    BY <2>1 DEF KeyboardInv, WireOK
  <2>3. KeysOK' /\ FlagsOK' /\ EventAsTyped'
    BY <1>6 DEF keyboard_vars, KeyboardInv, KeysOK, FlagsOK, EventAsTyped
  <2>. QED BY <2>2, <2>3 DEF KeyboardInv
<1>. QED BY <1>1, <1>2, <1>3, <1>4, <1>5, <1>6 DEF KeyboardNext

(* keyboard_irq_handler (keyboard.c:59-80), for any keys and any delay: as *)
(* long as the two keys of a pair are not held together, the flags show    *)
(* the modifiers that are held once the bytes are handled.                 *)
THEOREM FlagsFollow ==
  ASSUME OneOfEach
  PROVE  KeyboardSpec => []ModifiersFollow
<1>1. KeyboardInv => ModifiersFollow
  <2> SUFFICES ASSUME KeyboardInv, wire = <<>> PROVE ModifiersFollow
    BY DEF ModifiersFollow
  <2>1. Shown = Held(down)
    BY DEF KeyboardInv, WireOK, ShownAfter
  <2>2. /\ KeysOf("shift") = {"lshift", "rshift"}
        /\ KeysOf("ctrl") = {"lctrl", "rctrl"}
        /\ KeysOf("alt") = {"lalt", "ralt"}
    BY DEF KeysOf
  <2>3. /\ shift_pressed <=> "shift" \in Held(down)
        /\ ctrl_pressed <=> "ctrl" \in Held(down)
        /\ alt_pressed <=> "alt" \in Held(down)
    BY <2>1 DEF Shown, Modifiers
  <2>. QED BY <2>2, <2>3 DEF ModifiersFollow, PairHeld, Held, Modifiers,
              KeyboardInv, FlagsOK
<1>. QED BY KeyboardStart, KeyboardStep, <1>1, PTL DEF KeyboardSpec

(* The event that is pushed for a key (keyboard.c:83-96) carries the       *)
(* modifiers that were held when the key went down, however many bytes     *)
(* were waiting when the handler ran.                                      *)
THEOREM EventsAsTyped ==
  ASSUME OneOfEach
  PROVE  KeyboardSpec => []EventAsTyped
<1>1. KeyboardInv => EventAsTyped
  BY DEF KeyboardInv
<1>. QED BY KeyboardStart, KeyboardStep, <1>1, PTL DEF KeyboardSpec
=============================================================================
