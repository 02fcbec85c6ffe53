------------------------------ MODULE PollingProofs ------------------------------
(***************************************************************************)
(* Proofs about Polling, for any number of boards and of events: what the  *)
(* driver stores and what it charges as lost is what the boards sent, as   *)
(* long as there is room, and no packet of a poll is left behind.          *)
(***************************************************************************)
EXTENDS Polling, SequenceTheorems, TLAPS

Real == 1 .. MaxEvents
Packets == [src : Febs, CMD : {"OK", "DATA_CDR", "EOF_CDR", "none"}, events : Seq(Real)]

Types ==
  /\ f \in Febs
  /\ link \in Seq(Packets) /\ rpkt \in Packets
  /\ numbytes \in {0, 1} /\ jj \in Nat
  /\ overwritten \in Event
  /\ lostperpoll_cpu \in [Febs -> Seq(Event)] /\ lostperpoll_fpga \in [Febs -> Seq(Event)]
  /\ stored \in [Febs -> Seq(Event)] /\ received \in [Febs -> Seq(Real)]
  /\ overrun \in BOOLEAN

\* What is still to be received is of the board being polled, its end mark last.
Link ==
  /\ pc \in {"idle", "poll", "receive", "process", "done"}
  /\ pc \notin {"receive", "process"} => link = <<>>
  /\ \A i \in 1 .. Len(link) : link[i].src = f /\ (link[i].CMD = "EOF_CDR" => i = Len(link))
  /\ pc = "receive" /\ (numbytes = 0 \/ rpkt.CMD = "EOF_CDR") => link = <<>>
  /\ pc = "process" => rpkt.src = f /\ rpkt.CMD = "DATA_CDR" /\ numbytes = 1

\* The first k events of the packet are stored.
StoredUpTo(k) ==
  /\ jj = EVENT * k
  /\ received = [stored EXCEPT ![f] = @ \o SubSeq(rpkt.events, k + 1, Len(rpkt.events))]

Stored == ~overrun =>
  /\ lostperpoll_fpga = stored
  /\ pc # "process" => stored = received
  /\ pc = "process" => \E k \in 0 .. Len(rpkt.events) : StoredUpTo(k)

Polled == IF pc = "done" THEN f ELSE f - 1
AllSent(n) == \A b \in 1 .. n : received[b] # <<>>
AllCharged(n) == \A b \in 1 .. n : lostperpoll_cpu[b] = <<Last(received[b])>>

\* The boards before the one being polled are charged; nothing has come from those
\* behind it, and nothing is charged to them.
Charged ==
  /\ pc = "done" => f = NFebs
  /\ pc # "idle" /\ overwritten # Nothing => rpkt.src <= f
  /\ pc \in {"poll", "receive", "process"} =>
       \A b \in Febs : /\ b >= f => lostperpoll_cpu[b] = <<>>
                       /\ b > f \/ (b = f /\ pc = "poll") => received[b] = <<>>
  /\ pc = "receive" /\ received[f] # <<>> => rpkt.src = f
  /\ ~overrun /\ pc \in {"receive", "process"} /\ stored[f] # <<>> => overwritten = Last(stored[f])
  /\ ~overrun /\ pc # "idle" /\ AllSent(Polled) => AllCharged(Polled)

Inv == Types /\ Link /\ Stored /\ Charged

-----------------------------------------------------------------------------
(* Numbers and sequences.                                                   *)

LEMMA Multiples ==
  ASSUME NEW d \in Nat \ {0}, NEW k \in Nat
  PROVE  /\ (d * k) % d = 0 /\ (d * k) \div d = k
         /\ d * k \in Nat /\ d * (k + 1) = d * k + d
  BY Z3

LEMMA MultiplesOrdered ==
  ASSUME NEW d \in Nat \ {0}, NEW k \in Nat, NEW n \in Nat
  PROVE  d * k < d * n <=> k < n
  BY Z3

LEMMA Division ==
  ASSUME NEW d \in Nat \ {0}, NEW j \in Nat
  PROVE  (j \div d) \in Nat /\ (j % d) \in Nat /\ j = d * (j \div d) + (j % d)
  BY Z3

\* Storing the next event of a packet.
LEMMA OneMore ==
  ASSUME NEW S, NEW s \in Seq(S), NEW e \in Seq(S), NEW k \in Nat, k < Len(e)
  PROVE  s \o SubSeq(e, k + 1, Len(e)) = Append(s, e[k + 1]) \o SubSeq(e, k + 2, Len(e))
  <1>1. k + 1 \in 1 .. Len(e) /\ Len(e) \in k + 1 .. Len(e) /\ (k + 1) + 1 = k + 2
    OBVIOUS
  <1>2. SubSeq(e, k + 1, Len(e)) = <<e[k + 1]>> \o SubSeq(e, k + 2, Len(e))
    BY <1>1, SubSeqRecursiveFirst
  <1>3. e[k + 1] \in S /\ \A i \in k + 2 .. Len(e) : e[i] \in S
    BY <1>1
  <1>4. SubSeq(e, k + 2, Len(e)) \in Seq(S)
    BY <1>3, k + 2 \in Int, Len(e) \in Int, SubSeqProperties
  <1>5. Append(s, e[k + 1]) = s \o <<e[k + 1]>>
    BY <1>3, AppendIsConcat
  <1>6. <<e[k + 1]>> \in Seq(S)
    BY <1>3
  <1>7. PICK one \in Seq(S) : one = <<e[k + 1]>>
    BY <1>6
  <1>8. PICK rest \in Seq(S) : rest = SubSeq(e, k + 2, Len(e))
    BY <1>4
  <1>9. s \o (one \o rest) = (s \o one) \o rest
    BY ConcatAssociative
  <1> QED
    BY <1>2, <1>5, <1>7, <1>8, <1>9

LEMMA Tuples ==
  ASSUME NEW S, NEW x \in S, NEW y \in S
  PROVE  <<>> \in Seq(S) /\ <<x>> \in Seq(S) /\ <<x, y>> \in Seq(S) /\ Len(<<x>>) = 1
  OBVIOUS

-----------------------------------------------------------------------------
(* The link.                                                                *)

LEMMA Sizes ==
  NFebs \in Nat \ {0} /\ HEAD \in Nat \ {0} /\ EVENT \in Nat \ {0} /\ MaxEvents \in Nat
  BY NFebsAssumption, EVENTAssumption, MaxEventsAssumption

LEMMA NumbersAreEvents ==
  ASSUME NEW m \in 0 .. MaxEvents, NEW n \in 1 .. MaxEvents
  PROVE  Numbers(m, n) \in Seq(Real)
  <1>1. CASE n >= m
    <2>1. n - m \in Nat /\ \A i \in 1 .. n - m : m + i \in Real
      BY <1>1, Sizes DEF Real
    <2> QED
      BY <2>1 DEF Numbers
  <1>2. CASE n < m
    <2>1. 1 .. n - m = {} /\ 1 .. 0 = {}
      BY <1>2, Sizes
    <2>2. Numbers(m, n) = [i \in 1 .. 0 |-> m + i]
      BY <2>1 DEF Numbers
    <2>3. [i \in 1 .. 0 |-> m + i] \in Seq(Real)
      BY <2>1
    <2> QED
      BY <2>2, <2>3
  <1> QED
    BY <1>1, <1>2, Sizes

LEMMA AnswersAreOfBoard ==
  ASSUME NEW b \in Febs, NEW l \in Answers(b)
  PROVE  /\ l \in Seq(Packets)
         /\ \A i \in 1 .. Len(l) : l[i].src = b /\ (l[i].CMD = "EOF_CDR" => i = Len(l))
  <1> DEFINE Of == {p \in Packets : p.src = b}
             Data == {p \in Of : p.CMD # "EOF_CDR"}
             One == {<<Packet(b, "DATA_CDR", Numbers(m, n))>> :
                       m \in 0 .. MaxEvents, n \in 1 .. MaxEvents}
             Two == {<<Packet(b, "DATA_CDR", Numbers(0, m)), Packet(b, "DATA_CDR", Numbers(m, n))>> :
                       m \in 1 .. MaxEvents, n \in 1 .. MaxEvents}
             Fronts == {<<>>, <<Packet(b, "OK", <<>>)>>}
             Ends == {<<>>, <<Packet(b, "EOF_CDR", <<>>)>>}
  <1>1. PICK prefix \in Fronts, data \in {<<>>} \cup One \cup Two, end \in Ends :
          l = prefix \o data \o end
    <2>1. Answers(b) = {prefix \o data \o end : prefix \in Fronts, data \in {<<>>} \cup One \cup Two,
                                                end \in Ends}
      BY DEF Answers
    <2> HIDE DEF Fronts, Ends, One, Two
    <2> QED
      BY <2>1
  <1>2. ASSUME NEW m \in 0 .. MaxEvents, NEW n \in 1 .. MaxEvents
        PROVE  Packet(b, "DATA_CDR", Numbers(m, n)) \in Data
    BY NumbersAreEvents DEF Packet, Packets
  <1>3. Packet(b, "OK", <<>>) \in Data /\ Packet(b, "EOF_CDR", <<>>) \in Of
    BY DEF Packet, Packets
  <1>4. prefix \in Seq(Data)
    <2>1. CASE prefix = <<>>
      BY <2>1
    <2>2. CASE prefix = <<Packet(b, "OK", <<>>)>>
      <3> HIDE DEF Data
      <3> QED
        BY <1>3, <2>2, Tuples
    <2> QED
      BY <2>1, <2>2
  <1>5. data \in Seq(Data)
    <2>1. CASE data = <<>>
      BY <2>1
    <2>2. CASE data \in One
      <3>1. PICK m \in 0 .. MaxEvents, n \in 1 .. MaxEvents :
              data = <<Packet(b, "DATA_CDR", Numbers(m, n))>>
        BY <2>2
      <3> HIDE DEF Data
      <3> QED
        BY <1>2, <3>1, Tuples
    <2>3. CASE data \in Two
      <3>1. PICK m \in 1 .. MaxEvents, n \in 1 .. MaxEvents :
              data = <<Packet(b, "DATA_CDR", Numbers(0, m)), Packet(b, "DATA_CDR", Numbers(m, n))>>
        BY <2>3
      <3>2. m \in 0 .. MaxEvents /\ 0 \in 0 .. MaxEvents
        BY Sizes
      <3> HIDE DEF Data
      <3> QED
        BY <1>2, <3>1, <3>2, Tuples
    <2> QED
      BY <2>1, <2>2, <2>3
  <1>6. end \in Seq(Of) /\ (end = <<>> \/ Len(end) = 1)
    <2>1. CASE end = <<>>
      BY <2>1
    <2>2. CASE end = <<Packet(b, "EOF_CDR", <<>>)>>
      <3> HIDE DEF Of
      <3> QED
        BY <1>3, <2>2, Tuples
    <2> QED
      BY <2>1, <2>2
  <1> HIDE DEF Data, Fronts, Ends, One, Two
  <1>7. prefix \o data \in Seq(Data)
    BY <1>4, <1>5
  <1>8. PICK first \in Seq(Data) : first = prefix \o data
    BY <1>7
  <1>9. first \in Seq(Of) /\ (\A x \in Data : x \in Of /\ x.CMD # "EOF_CDR")
    BY DEF Data
  <1> HIDE DEF Of
  <1>10. l = first \o end
    BY <1>1, <1>8
  <1>11. PICK a \in Nat, z \in {0, 1} : a = Len(first) /\ z = Len(end)
    BY <1>6
  <1>12. /\ l \in Seq(Of) /\ Len(l) = a + z
         /\ \A i \in 1 .. a : l[i] = first[i]
    BY <1>6, <1>9, <1>10, <1>11, ConcatProperties
  <1>13. ASSUME NEW i \in 1 .. a + z PROVE l[i] \in Of /\ (l[i].CMD = "EOF_CDR" => i = a + z)
    <2>1. CASE i <= a
      BY <1>9, <1>11, <1>12, <2>1
    <2>2. CASE i > a
      <3>1. i = a + z
        BY <2>2
      <3>2. i \in 1 .. Len(l)
        BY <1>12
      <3>3. l[i] \in Of
        BY <1>12, <3>2, ElementOfSeq
      <3> QED
        BY <3>1, <3>3
    <2> QED
      BY <2>1, <2>2
  <1>14. l \in Seq(Packets)
    BY <1>12 DEF Of
  <1> QED
    BY <1>12, <1>13, <1>14 DEF Of

-----------------------------------------------------------------------------
(* The invariant.                                                           *)

LEMMA InitInv == Init => Inv
  <1> SUFFICES ASSUME Init PROVE Inv
    OBVIOUS
  <1> USE DEF Init
  <1>1. 1 \in Febs /\ <<>> \in Seq(Event) /\ <<>> \in Seq(Real)
    BY Sizes DEF Febs
  <1>2. Types
    <2>1. PICK src \in Febs : rpkt = Packet(src, "OK", <<>>)
      OBVIOUS
    <2>2. rpkt \in Packets
      BY <1>1, <2>1 DEF Packet, Packets
    <2>3. link \in Seq(Packets) /\ overwritten \in Event
      BY Sizes DEF Nothing, Event, Garbage
    <2> QED
      BY <1>1, <2>2, <2>3 DEF Types, None
  <1>3. Link /\ Stored /\ Charged
    BY DEF Link, Stored, Charged
  <1> QED
    BY <1>2, <1>3 DEF Inv

LEMMA SetupInv == Inv /\ polldata_setup => Inv'
  <1> SUFFICES ASSUME Inv, polldata_setup PROVE Inv'
    OBVIOUS
  <1> USE DEF Inv, polldata_setup, Zeroes
  <1>1. 1 \in Febs /\ <<>> \in Seq(Event) /\ <<>> \in Seq(Real) /\ Nothing \in Event
    BY Sizes DEF Febs, Nothing, Event, Garbage
  <1>2. None \in [Febs -> Seq(Event)] /\ None \in [Febs -> Seq(Real)]
    BY <1>1 DEF None
  <1>3. Types'
    BY <1>1, <1>2 DEF Types
  <1>4. Link'
    BY DEF Link
  <1>5. Stored'
    BY DEF Stored
  <1>6. Charged'
    <2>1. 1 .. f' - 1 = {}
      OBVIOUS
    <2>2. \A b \in Febs : None[b] = <<>>
      BY DEF None
    <2>3. AllCharged(Polled)'
      BY <2>1 DEF AllCharged, Polled
    <2> QED
      BY <2>2, <2>3 DEF Charged
  <1> QED
    BY <1>3, <1>4, <1>5, <1>6

LEMMA PollInv == Inv /\ pollfeb => Inv'
  <1> SUFFICES ASSUME Inv, pollfeb PROVE Inv'
    OBVIOUS
  <1> USE DEF Inv, pollfeb, Cleared
  <1>1. f \in Febs /\ rpkt \in Packets
    BY DEF Types
  <1>2. rpkt' \in Packets /\ rpkt'.src = rpkt.src /\ rpkt'.CMD = "none"
    BY <1>1 DEF Packets
  <1>3. /\ link' \in Seq(Packets)
        /\ \A i \in 1 .. Len(link') : link'[i].src = f /\ (link'[i].CMD = "EOF_CDR" => i = Len(link'))
    BY <1>1, AnswersAreOfBoard
  <1>4. Types'
    BY <1>2, <1>3 DEF Types, counters, history
  <1>5. Link'
    BY <1>2, <1>3 DEF Link
  <1>6. Stored'
    BY DEF Stored, counters, history
  <1>7. Charged'
    <2>1. received[f] = <<>>
      BY <1>1 DEF Charged, Types, Febs
    <2>2. ~overrun => stored[f] = <<>>
      BY <2>1 DEF Stored
    <2>3. f \in Int
      BY <1>1 DEF Febs
    <2>4. /\ pc \in {"poll", "receive", "process"}
          /\ pc' = "receive" /\ f' = f /\ overwritten' = overwritten /\ stored' = stored
          /\ lostperpoll_cpu' = lostperpoll_cpu /\ received' = received /\ overrun' = overrun
      BY DEF counters, history
    <2>5. AllSent(Polled)' <=> AllSent(Polled)
      BY <2>4 DEF AllSent, Polled
    <2>6. AllCharged(Polled)' <=> AllCharged(Polled)
      BY <2>4 DEF AllCharged, Polled
    <2> QED
      BY <1>2, <2>1, <2>2, <2>3, <2>4, <2>5, <2>6 DEF Charged
  <1> QED
    BY <1>4, <1>5, <1>6, <1>7

LEMMA TimedOutInv == Inv /\ TimedOut => Inv'
  <1> SUFFICES ASSUME Inv, TimedOut PROVE Inv'
    OBVIOUS
  <1> USE DEF Inv, TimedOut, counters, history
  <1>1. Types'
    BY DEF Types
  <1>2. Link'
    BY DEF Link
  <1>3. Stored' /\ Charged'
    BY DEF Stored, StoredUpTo, Charged, Polled, AllSent, AllCharged
  <1> QED
    BY <1>1, <1>2, <1>3

LEMMA CompleteInv == Inv /\ polldata_complete => Inv'
  <1> SUFFICES ASSUME Inv, polldata_complete PROVE Inv'
    OBVIOUS
  <1> USE DEF Inv, polldata_complete, counters, history
  <1>1. PICK src \in Febs : rpkt' = Packet(src, "OK", <<>>)
    OBVIOUS
  <1>2. rpkt' \in Packets
    BY <1>1 DEF Packet, Packets
  <1>3. Types'
    BY <1>2 DEF Types
  <1>4. Link'
    BY DEF Link
  <1>5. Stored' /\ Charged'
    BY DEF Stored, Charged
  <1> QED
    BY <1>3, <1>4, <1>5

LEMMA StutterInv == Inv /\ UNCHANGED vars => Inv'
  <1> SUFFICES ASSUME Inv, UNCHANGED vars PROVE Inv'
    OBVIOUS
  <1> USE DEF Inv, vars, counters, history
  <1>1. Types' /\ Link'
    BY DEF Types, Link
  <1>2. Stored' /\ Charged'
    BY DEF Stored, StoredUpTo, Charged, Polled, AllSent, AllCharged
  <1> QED
    BY <1>1, <1>2

LEMMA ReceiveInv == Inv /\ Receive => Inv'
  <1> SUFFICES ASSUME Inv, Receive PROVE Inv'
    OBVIOUS
  <1>1. /\ pc = "receive" /\ link # <<>>
        /\ rpkt' = Head(link) /\ link' = Tail(link) /\ numbytes' = 1
        /\ f' = f /\ overwritten' = overwritten /\ stored' = stored /\ overrun' = overrun
        /\ lostperpoll_cpu' = lostperpoll_cpu /\ lostperpoll_fpga' = lostperpoll_fpga
    BY DEF Receive, counters
  <1>2. /\ f \in Febs /\ link \in Seq(Packets)
        /\ stored \in [Febs -> Seq(Event)] /\ received \in [Febs -> Seq(Real)]
    BY DEF Inv, Types
  <1>3. /\ rpkt' = link[1] /\ rpkt' \in Packets
        /\ link' \in Seq(Packets) /\ Len(link') = Len(link) - 1 /\ Len(link) \in Nat \ {0}
        /\ \A i \in 1 .. Len(link) - 1 : link'[i] = link[i + 1]
    BY <1>1, <1>2
  <1>4. rpkt'.src = f /\ (rpkt'.CMD = "EOF_CDR" => Len(link) = 1)
    BY <1>3 DEF Inv, Link
  <1>5. \/ /\ rpkt'.CMD = "DATA_CDR" /\ pc' = "process" /\ jj' = 0
           /\ received' = [received EXCEPT ![f] = @ \o rpkt'.events]
        \/ /\ rpkt'.CMD # "DATA_CDR" /\ pc' = "receive" /\ jj' = jj /\ received' = received
    <2>1. CASE rpkt'.CMD = "DATA_CDR"
      BY <1>4, <2>1 DEF Receive
    <2>2. CASE rpkt'.CMD # "DATA_CDR"
      BY <1>1, <2>2 DEF Receive
    <2> QED
      BY <2>1, <2>2
  <1>6. rpkt'.events \in Seq(Real) /\ rpkt'.src \in Febs
    BY <1>3 DEF Packets
  <1>7. received' \in [Febs -> Seq(Real)]
    <2>1. received[f] \o rpkt'.events \in Seq(Real)
      BY <1>2, <1>6
    <2> QED
      BY <1>2, <1>5, <2>1
  <1>8. Types'
    BY <1>1, <1>3, <1>5, <1>7 DEF Inv, Types
  <1>9. Link'
    <2>1. \A i \in 1 .. Len(link') : link'[i].src = f /\ (link'[i].CMD = "EOF_CDR" => i = Len(link'))
      <3> SUFFICES ASSUME NEW i \in 1 .. Len(link')
                   PROVE  link'[i].src = f /\ (link'[i].CMD = "EOF_CDR" => i = Len(link'))
        OBVIOUS
      <3>1. link'[i] = link[i + 1] /\ i + 1 \in 1 .. Len(link)
        BY <1>3
      <3>2. link[i + 1].src = f /\ (link[i + 1].CMD = "EOF_CDR" => i + 1 = Len(link))
        BY <3>1 DEF Inv, Link
      <3> QED
        BY <1>3, <3>1, <3>2
    <2>2. ASSUME rpkt'.CMD = "EOF_CDR" PROVE link' = <<>>
      <3>1. Len(link) = 1
        BY <1>4, <2>2
      <3>2. Len(link') = 0
        BY <1>3, <3>1
      <3>3. link' \in Seq(Packets)
        BY <1>3
      <3> QED
        BY <3>2, <3>3, EmptySeq
    <2>3. CASE pc' = "process"
      BY <1>1, <1>4, <1>5, <2>1, <2>3 DEF Link
    <2>4. CASE pc' = "receive"
      BY <1>1, <2>1, <2>2, <2>4 DEF Link
    <2> QED
      BY <1>5, <2>3, <2>4
  <1>10. Stored'
    <2> SUFFICES ASSUME ~overrun' PROVE Stored'
      BY DEF Stored
    <2>1. lostperpoll_fpga = stored /\ stored = received
      BY <1>1 DEF Inv, Stored
    <2>2. CASE pc' = "receive"
      BY <1>1, <1>5, <2>1, <2>2 DEF Stored
    <2>3. CASE pc' = "process"
      <3>1. SubSeq(rpkt'.events, 0 + 1, Len(rpkt'.events)) = rpkt'.events
        BY <1>6, SubSeqFull
      <3>2. jj' = EVENT * 0 /\ 0 \in 0 .. Len(rpkt'.events)
        BY <1>5, <1>6, <2>3, Sizes
      <3>3. StoredUpTo(0)'
        BY <1>1, <1>5, <2>1, <2>3, <3>1, <3>2 DEF StoredUpTo
      <3> QED
        BY <1>1, <2>1, <2>3, <3>2, <3>3 DEF Stored
    <2> QED
      BY <1>5, <2>2, <2>3
  <1>11. Charged'
    <2>1. f \in Int /\ \A b \in Febs : b \in Int
      BY <1>2 DEF Febs
    <2>2. \A b \in Febs : b # f => received'[b] = received[b]
      BY <1>2, <1>5
    <2>3. \A b \in 1 .. f - 1 : received'[b] = received[b]
      <3>1. \A b \in 1 .. f - 1 : b \in Febs /\ b # f
        BY <1>2, Sizes DEF Febs
      <3> QED
        BY <2>2, <3>1
    <2>4. pc' # "done" /\ pc' # "poll" /\ pc' # "idle" /\ pc = "receive"
      BY <1>1, <1>5
    <2>5. AllSent(Polled)' <=> AllSent(Polled)
      BY <1>1, <2>3, <2>4 DEF AllSent, Polled
    <2>6. AllCharged(Polled)' <=> AllCharged(Polled)
      BY <1>1, <2>3, <2>4 DEF AllCharged, Polled
    <2>7. \A b \in Febs : b >= f => lostperpoll_cpu'[b] = <<>>
      BY <1>1, <2>4 DEF Inv, Charged
    <2>8. \A b \in Febs : b > f => received'[b] = <<>>
      BY <2>1, <2>2, <2>4 DEF Inv, Charged
    <2>9. ~overrun /\ stored[f] # <<>> => overwritten = Last(stored[f])
      BY <2>4 DEF Inv, Charged
    <2>10. ~overrun' /\ AllSent(Polled)' => AllCharged(Polled)'
      BY <1>1, <2>4, <2>5, <2>6 DEF Inv, Charged
    <2> QED
      BY <1>1, <1>4, <2>1, <2>4, <2>7, <2>8, <2>9, <2>10 DEF Charged
  <1> QED
    BY <1>8, <1>9, <1>10, <1>11 DEF Inv

\* What is read at jj is an event, or words of one.
LEMMA ThisIsEvent ==
  ASSUME Inv, pc = "process", jj < datalen
  PROVE  This \in Event
  <1>1. /\ jj \in Nat /\ rpkt.events \in Seq(Real) /\ Real \subseteq Event /\ Garbage \in Event
    BY Sizes DEF Inv, Types, Packets, Real, Event, Garbage
  <1>2. CASE jj % EVENT = 0
    <2>1. PICK k \in Nat : k = jj \div EVENT /\ jj = EVENT * k
      BY <1>1, <1>2, Division, Sizes
    <2>2. PICK n \in Nat : n = Len(rpkt.events)
      BY <1>1
    <2>3. k < n
      BY <2>1, <2>2, MultiplesOrdered, Sizes DEF datalen
    <2>4. k + 1 \in 1 .. Len(rpkt.events)
      BY <2>2, <2>3
    <2>5. rpkt.events[k + 1] \in Real
      BY <1>1, <2>4, ElementOfSeq
    <2> QED
      BY <1>1, <1>2, <2>1, <2>5 DEF This
  <1>3. CASE jj % EVENT # 0
    BY <1>1, <1>3 DEF This
  <1> QED
    BY <1>2, <1>3

LEMMA NoRoomInv == Inv /\ NoRoom => Inv'
  <1> SUFFICES ASSUME Inv, NoRoom PROVE Inv'
    OBVIOUS
  <1>1. This \in Event
    BY ThisIsEvent DEF NoRoom
  <1>2. rpkt.src = f /\ f \in Febs /\ pc = "process" /\ f \in Int
    BY DEF NoRoom, Inv, Link, Types, Febs
  <1>3. /\ pc' = pc /\ f' = f /\ link' = link /\ rpkt' = rpkt /\ numbytes' = numbytes
        /\ lostperpoll_cpu' = lostperpoll_cpu /\ stored' = stored /\ received' = received
        /\ overrun' = TRUE /\ overwritten' = This /\ jj' = jj + HEAD
        /\ lostperpoll_fpga' = [lostperpoll_fpga EXCEPT ![f] = Append(@, This)]
    BY <1>2 DEF NoRoom, ReadHead
  <1>4. lostperpoll_fpga \in [Febs -> Seq(Event)] /\ jj \in Nat
    BY DEF Inv, Types
  <1>5. lostperpoll_fpga' \in [Febs -> Seq(Event)] /\ jj' \in Nat
    <2>1. Append(lostperpoll_fpga[f], This) \in Seq(Event)
      BY <1>1, <1>2, <1>4
    <2>2. jj' \in Nat
      BY <1>3, <1>4, Sizes
    <2> QED
      BY <1>2, <1>3, <1>4, <2>1, <2>2
  <1>6. Types'
    BY <1>1, <1>3, <1>5 DEF Inv, Types
  <1>7. Link'
    BY <1>3 DEF Inv, Link
  <1>8. Stored'
    BY <1>3 DEF Stored
  <1>9. Charged'
    BY <1>2, <1>3 DEF Inv, Charged
  <1> QED
    BY <1>6, <1>7, <1>8, <1>9 DEF Inv

LEMMA StoreInv == Inv /\ Store => Inv'
  <1> SUFFICES ASSUME Inv, Store PROVE Inv'
    OBVIOUS
  <1>1. This \in Event
    BY ThisIsEvent DEF Store
  <1>2. rpkt.src = f /\ f \in Febs /\ pc = "process" /\ jj < datalen /\ f \in Int
    BY DEF Store, Inv, Link, Types, Febs
  <1>3. /\ pc' = pc /\ f' = f /\ link' = link /\ rpkt' = rpkt /\ numbytes' = numbytes
        /\ lostperpoll_cpu' = lostperpoll_cpu /\ received' = received
        /\ overrun' = overrun /\ overwritten' = This /\ jj' = jj + EVENT
        /\ lostperpoll_fpga' = [lostperpoll_fpga EXCEPT ![f] = Append(@, This)]
        /\ stored' = [stored EXCEPT ![f] = Append(@, This)]
    BY <1>2 DEF Store, ReadHead, Stride, history
  <1>4. /\ lostperpoll_fpga \in [Febs -> Seq(Event)] /\ jj \in Nat
        /\ stored \in [Febs -> Seq(Event)] /\ received \in [Febs -> Seq(Real)]
        /\ rpkt.events \in Seq(Real)
    BY DEF Inv, Types, Packets
  <1>5. /\ lostperpoll_fpga' \in [Febs -> Seq(Event)] /\ stored' \in [Febs -> Seq(Event)]
        /\ jj' \in Nat
    <2>1. Append(lostperpoll_fpga[f], This) \in Seq(Event) /\ Append(stored[f], This) \in Seq(Event)
      BY <1>1, <1>2, <1>4
    <2>2. jj' \in Nat
      BY <1>3, <1>4, Sizes
    <2> QED
      BY <1>2, <1>3, <1>4, <2>1, <2>2
  <1>6. Types'
    BY <1>1, <1>3, <1>5 DEF Inv, Types
  <1>7. Link'
    BY <1>3 DEF Inv, Link
  <1>8. Stored'
    <2> SUFFICES ASSUME ~overrun PROVE Stored'
      BY <1>3 DEF Stored
    <2>1. lostperpoll_fpga = stored
      BY DEF Inv, Stored
    <2>2. PICK k \in 0 .. Len(rpkt.events) : StoredUpTo(k)
      BY <1>2 DEF Inv, Stored
    <2>3. k \in Nat /\ Len(rpkt.events) \in Nat
      BY <1>4
    <2>4. k < Len(rpkt.events)
      BY <1>2, <2>2, <2>3, MultiplesOrdered, Sizes DEF StoredUpTo, datalen
    <2>5. jj % EVENT = 0 /\ jj \div EVENT = k /\ jj + EVENT = EVENT * (k + 1)
      BY <2>2, <2>3, Multiples, Sizes DEF StoredUpTo
    <2>6. This = rpkt.events[k + 1]
      BY <2>5 DEF This
    <2>7. PICK e \in Seq(Event) : e = rpkt.events
      <3>1. Real \subseteq Event
        BY Sizes DEF Real, Event, Garbage
      <3> QED
        BY <1>4, <3>1
    <2>8. PICK s \in Seq(Event) : s = stored[f]
      BY <1>2, <1>4
    <2>9. s \o SubSeq(e, k + 1, Len(e)) = Append(s, e[k + 1]) \o SubSeq(e, k + 2, Len(e))
      BY <2>3, <2>4, <2>7, OneMore
    <2>10. received = [stored EXCEPT ![f] = s \o SubSeq(e, k + 1, Len(e))]
      BY <2>2, <2>7, <2>8 DEF StoredUpTo
    <2>11. stored' = [stored EXCEPT ![f] = Append(s, e[k + 1])]
      BY <1>3, <2>6, <2>7, <2>8
    <2>12. stored'[f] = Append(s, e[k + 1])
      BY <1>2, <1>4, <2>11
    <2>13. received = [stored' EXCEPT ![f] = stored'[f] \o SubSeq(e, k + 2, Len(e))]
      BY <1>4, <2>9, <2>10, <2>11, <2>12
    <2>14. (k + 1) + 1 = k + 2 /\ k + 1 \in 0 .. Len(rpkt.events)
      BY <2>3, <2>4
    <2>15. StoredUpTo(k + 1)'
      BY <1>3, <2>5, <2>7, <2>13, <2>14 DEF StoredUpTo
    <2>16. lostperpoll_fpga' = stored'
      BY <1>3, <2>1
    <2> QED
      BY <1>2, <1>3, <2>14, <2>15, <2>16 DEF Stored
  <1>9. Charged'
    <2>1. stored'[f] = Append(stored[f], This)
      BY <1>2, <1>3, <1>4
    <2>2. Last(stored'[f]) = This
      <3>1. PICK s \in Seq(Event) : s = stored[f]
        BY <1>2, <1>4
      <3> QED
        BY <1>1, <2>1, <3>1, AppendProperties DEF Last
    <2>3. AllSent(Polled)' <=> AllSent(Polled)
      BY <1>3 DEF AllSent, Polled
    <2>4. AllCharged(Polled)' <=> AllCharged(Polled)
      BY <1>3 DEF AllCharged, Polled
    <2> QED
      BY <1>2, <1>3, <2>2, <2>3, <2>4 DEF Inv, Charged
  <1> QED
    BY <1>6, <1>7, <1>8, <1>9 DEF Inv

LEMMA ProcessedInv == Inv /\ Processed => Inv'
  <1> SUFFICES ASSUME Inv, Processed PROVE Inv'
    OBVIOUS
  <1>1. /\ pc = "process" /\ pc' = "receive" /\ jj >= datalen
        /\ f' = f /\ link' = link /\ rpkt' = rpkt /\ numbytes' = numbytes /\ jj' = jj
        /\ overwritten' = overwritten /\ lostperpoll_cpu' = lostperpoll_cpu
        /\ lostperpoll_fpga' = lostperpoll_fpga /\ stored' = stored
        /\ overrun' = overrun /\ received' = received
    BY DEF Processed, counters, history
  <1>2. /\ rpkt.src = f /\ rpkt.CMD = "DATA_CDR" /\ numbytes = 1
        /\ f \in Febs /\ f \in Int /\ rpkt.events \in Seq(Real) /\ jj \in Nat
        /\ stored \in [Febs -> Seq(Event)]
    BY <1>1 DEF Inv, Link, Types, Packets, Febs
  <1>3. Types'
    BY <1>1 DEF Inv, Types
  <1>4. Link'
    BY <1>1, <1>2 DEF Inv, Link
  <1>5. ~overrun => stored = received
    <2> SUFFICES ASSUME ~overrun PROVE stored = received
      OBVIOUS
    <2>1. PICK k \in 0 .. Len(rpkt.events) : StoredUpTo(k)
      BY <1>1 DEF Inv, Stored
    <2>2. PICK n \in Nat : n = Len(rpkt.events)
      BY <1>2
    <2>3. k \in Nat /\ k <= n
      BY <2>2
    <2>4. EVENT * n <= EVENT * k
      BY <1>1, <2>1, <2>2, <2>3 DEF StoredUpTo, datalen
    <2>5. ~(k < n)
      <3>1. EVENT * n \in Nat /\ EVENT * k \in Nat
        BY <2>3, Multiples, Sizes
      <3> QED
        BY <2>3, <2>4, <3>1, MultiplesOrdered, Sizes
    <2>6. SubSeq(rpkt.events, k + 1, Len(rpkt.events)) = <<>>
      BY <2>2, <2>3, <2>5, SubSeqEmpty
    <2>7. PICK s \in Seq(Event) : s = stored[f]
      BY <1>2
    <2>8. s \o <<>> = s
      BY ConcatEmptySeq
    <2>9. received = [stored EXCEPT ![f] = s]
      BY <2>1, <2>6, <2>7, <2>8 DEF StoredUpTo
    <2> QED
      BY <1>2, <2>7, <2>9
  <1>6. Stored'
    BY <1>1, <1>5 DEF Inv, Stored
  <1>7. Charged'
    <2>1. AllSent(Polled)' <=> AllSent(Polled)
      BY <1>1 DEF AllSent, Polled
    <2>2. AllCharged(Polled)' <=> AllCharged(Polled)
      BY <1>1 DEF AllCharged, Polled
    <2> QED
      BY <1>1, <1>2, <2>1, <2>2 DEF Inv, Charged
  <1> QED
    BY <1>3, <1>4, <1>6, <1>7 DEF Inv

LEMMA OverwrittenInv == Inv /\ updateoverwritten => Inv'
  <1> SUFFICES ASSUME Inv, updateoverwritten PROVE Inv'
    OBVIOUS
  <1>1. /\ pc = "receive" /\ ~More
        /\ link' = link /\ rpkt' = rpkt /\ numbytes' = numbytes /\ jj' = jj
        /\ overwritten' = overwritten /\ lostperpoll_fpga' = lostperpoll_fpga
        /\ stored' = stored /\ overrun' = overrun /\ received' = received
        /\ lostperpoll_cpu' = Charge
    BY DEF updateoverwritten, history
  <1>2. /\ f \in Febs /\ f \in Int /\ rpkt.src \in Febs /\ rpkt.src \in Int /\ numbytes \in {0, 1}
        /\ overwritten \in Event /\ NFebs \in Nat \ {0}
        /\ stored \in [Febs -> Seq(Event)] /\ received \in [Febs -> Seq(Real)]
        /\ lostperpoll_cpu \in [Febs -> Seq(Event)]
    BY Sizes DEF Inv, Types, Packets, Febs
  <1>3. \/ f < NFebs /\ pc' = "poll" /\ f' = f + 1 /\ f' \in Febs
        \/ f = NFebs /\ pc' = "done" /\ f' = f
    BY <1>2 DEF updateoverwritten, MoreBoards, Febs
  <1>4. /\ overwritten = Nothing => lostperpoll_cpu' = lostperpoll_cpu
        /\ overwritten # Nothing =>
             lostperpoll_cpu' = [lostperpoll_cpu EXCEPT
                                   ![rpkt.src] = Append(lostperpoll_cpu[rpkt.src], overwritten)]
    BY <1>1, <1>2 DEF Charge
  <1>5. lostperpoll_cpu' \in [Febs -> Seq(Event)]
    <2>1. Append(lostperpoll_cpu[rpkt.src], overwritten) \in Seq(Event)
      BY <1>2
    <2> QED
      BY <1>2, <1>4, <2>1
  <1>6. link = <<>>
    BY <1>1, <1>2 DEF More, Inv, Link
  <1>7. Types'
    BY <1>1, <1>2, <1>3, <1>5 DEF Inv, Types
  <1>8. Link'
    <2>1. Len(link') = 0
      BY <1>1, <1>6
    <2> QED
      BY <1>1, <1>3, <1>6, <2>1 DEF Link
  <1>9. Stored'
    BY <1>1, <1>3 DEF Inv, Stored
  <1>10. Charged'
    <2>1. \A b \in Febs : b > f => lostperpoll_cpu'[b] = <<>> /\ received'[b] = <<>>
      <3> SUFFICES ASSUME NEW b \in Febs, b > f
                   PROVE  lostperpoll_cpu'[b] = <<>> /\ received'[b] = <<>>
        OBVIOUS
      <3>1. b \in Int /\ lostperpoll_cpu[b] = <<>> /\ received[b] = <<>>
        <4>1. b \in Int /\ b >= f
          BY <1>2 DEF Febs
        <4> QED
          BY <1>1, <4>1 DEF Inv, Charged
      <3>2. overwritten # Nothing => rpkt.src # b
        BY <1>1, <1>2 DEF Inv, Charged
      <3> QED
        BY <1>1, <1>2, <1>4, <3>1, <3>2
    <2>2. overwritten # Nothing => rpkt.src <= f
      BY <1>1 DEF Inv, Charged
    <2>3. ASSUME ~overrun, AllSent(f)
          PROVE  \A b \in 1 .. f : lostperpoll_cpu'[b] = <<Last(received[b])>>
      <3>1. \A b \in Febs : b <= f => received[b] # <<>>
        BY <1>2, <2>3 DEF AllSent, Febs
      <3>2. rpkt.src = f /\ stored = received /\ overwritten = Last(stored[f])
        BY <1>1, <1>2, <2>3, <3>1 DEF Inv, Charged, Stored
      <3>3. overwritten = Last(received[f]) /\ overwritten # Nothing
        <4>1. PICK s \in Seq(Real) : s = received[f]
          BY <1>2
        <4>2. s # <<>>
          BY <1>2, <3>1, <4>1
        <4>3. Len(s) \in 1 .. Len(s)
          BY <4>2, EmptySeq
        <4>4. s[Len(s)] \in Real
          BY <4>3, ElementOfSeq
        <4> QED
          BY <3>2, <4>1, <4>4, Sizes DEF Last, Real, Nothing
      <3>4. lostperpoll_cpu[f] = <<>>
        BY <1>1, <1>2 DEF Inv, Charged
      <3>5. lostperpoll_cpu'[f] = <<Last(received[f])>>
        BY <1>2, <1>4, <3>2, <3>3, <3>4
      <3>6. AllSent(f - 1)
        BY <1>2, <2>3 DEF AllSent
      <3>7. AllCharged(f - 1)
        BY <1>1, <2>3, <3>6 DEF Inv, Charged, Polled
      <3>8. \A b \in 1 .. f - 1 : lostperpoll_cpu'[b] = <<Last(received[b])>>
        <4> SUFFICES ASSUME NEW b \in 1 .. f - 1
                     PROVE  lostperpoll_cpu'[b] = <<Last(received[b])>>
          OBVIOUS
        <4>1. b \in Febs /\ b # f
          BY <1>2 DEF Febs
        <4>2. lostperpoll_cpu'[b] = lostperpoll_cpu[b]
          BY <1>2, <1>4, <3>2, <3>3, <4>1
        <4> QED
          BY <3>7, <4>2 DEF AllCharged
      <3>9. \A b \in 1 .. f : b = f \/ b \in 1 .. f - 1
        BY <1>2
      <3> QED
        BY <3>5, <3>8, <3>9
    <2>4. Polled' = f
      BY <1>2, <1>3 DEF Polled
    <2>5. AllSent(Polled)' <=> AllSent(f)
      BY <1>1, <2>4 DEF AllSent
    <2>6. ~overrun' /\ AllSent(Polled)' => AllCharged(Polled)'
      BY <1>1, <2>3, <2>4, <2>5 DEF AllCharged
    <2>7. pc' \notin {"receive", "process", "idle"} /\ (pc' = "done" => f' = NFebs)
      BY <1>2, <1>3
    <2>8. overwritten' # Nothing => rpkt'.src <= f'
      BY <1>1, <1>2, <1>3, <2>2
    <2>9. pc' = "poll" => \A b \in Febs : b >= f' => lostperpoll_cpu'[b] = <<>> /\ received'[b] = <<>>
      <3> SUFFICES ASSUME pc' = "poll", NEW b \in Febs, b >= f'
                   PROVE  lostperpoll_cpu'[b] = <<>> /\ received'[b] = <<>>
        OBVIOUS
      <3>1. b > f
        BY <1>2, <1>3 DEF Febs
      <3> QED
        BY <2>1, <3>1
    <2>10. \A b \in Febs : b > f' \/ b = f' => b >= f'
      BY <1>2, <1>3 DEF Febs
    <2>11. CASE pc' = "poll"
      BY <2>6, <2>8, <2>9, <2>10, <2>11 DEF Charged
    <2>12. CASE pc' = "done"
      BY <2>6, <2>7, <2>8, <2>12 DEF Charged
    <2> QED
      BY <1>3, <2>11, <2>12
  <1> QED
    BY <1>7, <1>8, <1>9, <1>10 DEF Inv

-----------------------------------------------------------------------------
(* The theorems.                                                            *)

LEMMA NextInv == Inv /\ [Next]_vars => Inv'
  BY SetupInv, PollInv, ReceiveInv, TimedOutInv, StoreInv, NoRoomInv, ProcessedInv,
     OverwrittenInv, CompleteInv, StutterInv DEF Next

LEMMA Invariance == Spec => []Inv
  BY InitInv, NextInv, PTL DEF Spec

\* Every variable has its type.
THEOREM TypeCorrect == Spec => []TypeOK
  <1>1. Inv => TypeOK
    <2> SUFFICES ASSUME Inv PROVE TypeOK
      OBVIOUS
    <2>1. \A i \in DOMAIN link : link[i].src \in Febs
      <3>1. f \in Febs /\ DOMAIN link = 1 .. Len(link)
        BY DEF Inv, Types
      <3> QED
        BY <3>1 DEF Inv, Link
    <2>2. received \in [Febs -> Seq(Event)]
      <3>1. Seq(Real) \subseteq Seq(Event)
        BY Sizes DEF Real, Event, Garbage
      <3> QED
        BY <3>1 DEF Inv, Types
    <2>3. rpkt.src \in Febs /\ rpkt.CMD \in {"OK", "DATA_CDR", "EOF_CDR", "none"}
      BY DEF Inv, Types, Packets
    <2> QED
      BY <2>1, <2>2, <2>3 DEF TypeOK, Inv, Types, Link
  <1> QED
    BY <1>1, Invariance, PTL

\* However the events of a board come, in packets of any sizes and some of them
\* lost, what getnextevent stores for it is what was received, in order and each
\* event once, unless there was no room.
THEOREM EventsAreStored == Spec => []EveryEventStored
  <1>1. Inv => EveryEventStored
    BY DEF Inv, Stored, EveryEventStored
  <1> QED
    BY <1>1, Invariance, PTL

\* Then each number of events lost in the FPGA is added once to the counter of the
\* board that sent it.
THEOREM FpgaLossesAreCharged == Spec => []FpgaLostCharged
  <1>1. Inv => FpgaLostCharged
    BY DEF Inv, Stored, FpgaLostCharged
  <1> QED
    BY <1>1, Invariance, PTL

\* The number of events overwritten in the CPU is kept from packet to packet and
\* board to board and charged to the source of the last packet: as long as every
\* board sends events that is the board polled, and the number its own.
THEOREM CpuLossesAreCharged == Spec => []CpuLostCharged
  <1>1. Inv => CpuLostCharged
    <2> SUFFICES ASSUME Inv, ~overrun, pc = "done", \A b \in Febs : received[b] # <<>>
                 PROVE  \A b \in Febs : lostperpoll_cpu[b] = <<Last(received[b])>>
      BY DEF CpuLostCharged
    <2>1. Polled = NFebs
      BY DEF Polled, Inv, Charged
    <2>2. AllSent(Polled)
      BY <2>1 DEF AllSent, Febs
    <2>3. AllCharged(Polled)
      BY <2>2 DEF Inv, Charged
    <2> QED
      BY <2>1, <2>3 DEF AllCharged, Febs
  <1> QED
    BY <1>1, Invariance, PTL

\* The loop on the packets of a board ends with its end mark or with a timeout, and
\* behind either there is nothing.
THEOREM NothingIsThrownAway == Spec => []NothingThrownAway
  <1>1. Inv => NothingThrownAway
    BY DEF Inv, Link, NothingThrownAway
  <1> QED
    BY <1>1, Invariance, PTL
=============================================================================
