---------------------------- MODULE FEBReaderProofs ----------------------------
(***************************************************************************)
(* Proofs about FEBReader, for any number of boards, any capacities and    *)
(* any number of polls and runs: the thread that makes fragments finds a   *)
(* time and a number of dropped events beside every event it sees; at most *)
(* the first event of a poll is stale; and the numbers of dropped events   *)
(* make up for what was dropped.                                           *)
(***************************************************************************)
EXTENDS FEBReader, SequenceTheorems, TLAPS

Events == [feb : Nat, poll : Nat, no : Nat, ref : BOOLEAN]

Places == {"off", "setup", "board", "receive", "wait", "times", "dropped", "events"}
AtBoard == {"receive", "wait", "times", "dropped", "events"}

TypeOK ==
  /\ pc \in Places
  /\ feb \in 1 .. NFebs + 1 /\ (pc \in AtBoard => feb \in FEBIDs)
  /\ dtp \in [1 .. DTP -> Events]
  /\ nevents \in 0 .. DTP /\ good_events \in 0 .. DTP
  /\ (pc \in {"times", "dropped", "events"} => good_events # 0)
  /\ poll \in Nat
  /\ buffer \in [FEBIDs -> Seq(Events)]
  /\ timebuffer \in [FEBIDs -> Seq(Nat)]
  /\ droppedbuffer \in [FEBIDs -> Seq(Nat)]
  /\ gfeb \in FEBIDs /\ i_gps \in Nat

\* The worker runs in a run only.
WorkerOff == cpc \in {"constructing", "stopped"} => pc = "off"

Smaller(m, n) == IF m <= n THEN m ELSE n

\* A board's buffer of times is as long as that of its events, until an insertion
\* has got to it; the drops may outlive a run, so there are at least as many.
LengthsOf(b) ==
  /\ Len(buffer[b]) <= CAP /\ Len(droppedbuffer[b]) <= CAP
  /\ Len(timebuffer[b]) = IF feb = b /\ pc \in {"dropped", "events"}
                          THEN Smaller(CAP, Len(buffer[b]) + good_events)
                          ELSE Len(buffer[b])
  /\ Len(droppedbuffer[b]) >= IF feb = b /\ pc = "events"
                              THEN Smaller(CAP, Len(buffer[b]) + good_events)
                              ELSE Len(buffer[b])

Lengths == \A b \in FEBIDs : LengthsOf(b)

Inv == TypeOK /\ WorkerOff /\ Lengths

LEMMA Constants ==
  NFebs \in Nat \ {0} /\ CAP \in Nat \ {0} /\ DTP \in Nat \ {0} /\ WIDTH \in Nat \ {0}
  BY NFebsAssumption, CapacityAssumption, WIDTHAssumption

LEMMA Remainder ==
  ASSUME NEW n \in Int, NEW d \in Nat \ {0}
  PROVE  (n % d) \in 0 .. d - 1
  BY Z3

-----------------------------------------------------------------------------
(* The circular buffers.                                                    *)

LEMMA SubSeqLength ==
  ASSUME NEW S, NEW q \in Seq(S), NEW m \in Nat \ {0}, NEW n \in 0 .. Len(q)
  PROVE  /\ SubSeq(q, m, n) \in Seq(S)
         /\ Len(SubSeq(q, m, n)) = IF m <= n THEN n - m + 1 ELSE 0
  OBVIOUS

LEMMA PushLength ==
  ASSUME NEW S, NEW q \in Seq(S), NEW new \in Seq(S)
  PROVE  /\ Push(q, new) \in Seq(S)
         /\ Len(Push(q, new)) = Smaller(CAP, Len(q) + Len(new))
  <1> DEFINE all == q \o new
  <1>1. all \in Seq(S) /\ Len(all) = Len(q) + Len(new) /\ Len(all) \in Nat
    OBVIOUS
  <1>2. CASE Len(all) > CAP
    <2>1. Len(all) - CAP + 1 \in Nat \ {0} /\ Len(all) \in 0 .. Len(all)
      BY <1>1, <1>2, Constants
    <2>2. /\ SubSeq(all, Len(all) - CAP + 1, Len(all)) \in Seq(S)
          /\ Len(SubSeq(all, Len(all) - CAP + 1, Len(all)))
               = IF Len(all) - CAP + 1 <= Len(all)
                 THEN Len(all) - (Len(all) - CAP + 1) + 1 ELSE 0
      BY <1>1, <2>1, SubSeqLength
    <2>3. Len(SubSeq(all, Len(all) - CAP + 1, Len(all))) = CAP
      BY <1>1, <2>2, Constants
    <2> QED
      BY <1>1, <1>2, <2>2, <2>3, Constants DEF Push, Smaller
  <1>3. CASE ~(Len(all) > CAP)
    BY <1>1, <1>3, Constants DEF Push, Smaller
  <1> QED
    BY <1>2, <1>3

LEMMA EraseLength ==
  ASSUME NEW S, NEW q \in Seq(S), NEW n \in Nat
  PROVE  /\ EraseBegin(q, n) \in Seq(S)
         /\ Len(EraseBegin(q, n)) = IF n <= Len(q) THEN Len(q) - n ELSE 0
  BY SubSeqLength DEF EraseBegin

LEMMA CopiesLength ==
  ASSUME NEW S, NEW n \in Nat, NEW x \in S
  PROVE  Copies(n, x) \in Seq(S) /\ Len(Copies(n, x)) = n
  BY DEF Copies

-----------------------------------------------------------------------------
(* Steps that leave the buffers alone.                                      *)

LEMMA SameLengths ==
  ASSUME Lengths, UNCHANGED buffers,
         \/ UNCHANGED <<pc, feb, good_events>>
         \/ {pc, pc'} \cap {"dropped", "events"} = {}
  PROVE  Lengths'
  <1>1. buffer' = buffer /\ timebuffer' = timebuffer /\ droppedbuffer' = droppedbuffer
    BY DEF buffers
  <1>2. CASE UNCHANGED <<pc, feb, good_events>>
    BY <1>1, <1>2 DEF Lengths, LengthsOf
  <1>3. CASE {pc, pc'} \cap {"dropped", "events"} = {}
    BY <1>1, <1>3 DEF Lengths, LengthsOf
  <1> QED
    BY <1>2, <1>3

LEMMA InitInv == Init => Inv
  <1> SUFFICES ASSUME Init PROVE Inv
    OBVIOUS
  <1>1. TypeOK
    <2>1. <<>> \in Seq(Events) /\ <<>> \in Seq(Nat)
      OBVIOUS
    <2>2. dtp \in [1 .. DTP -> Events]
      BY DEF Init, Events, Event
    <2>3. 1 \in FEBIDs /\ 1 \in 1 .. NFebs + 1 /\ 0 \in 0 .. DTP
      BY Constants DEF FEBIDs
    <2> QED
      BY <2>1, <2>2, <2>3 DEF Init, TypeOK, Places, AtBoard
  <1>2. WorkerOff
    BY DEF Init, WorkerOff
  <1>3. Lengths
    BY Constants DEF Init, Lengths, LengthsOf
  <1> QED
    BY <1>1, <1>2, <1>3 DEF Inv

-----------------------------------------------------------------------------
(* The steps of the worker.                                                 *)

LEMMA GetFEBDataInv == Inv /\ GetFEBData => Inv'
  <1> SUFFICES ASSUME Inv, GetFEBData PROVE Inv'
    OBVIOUS
  <1> USE Constants DEF Inv
  <1>1. CASE pollfeb
    <2>1. /\ pc = "board" /\ pc' = "receive" /\ feb <= NFebs
          /\ poll' = poll + 1 /\ nevents' = 0
          /\ UNCHANGED <<feb, dtp, good_events, buffers, getter, framework, processed>>
      BY <1>1 DEF pollfeb
    <2>2. feb \in FEBIDs
      BY <2>1 DEF TypeOK, FEBIDs
    <2>3. TypeOK'
      BY <2>1, <2>2 DEF TypeOK, Places, AtBoard, buffers, getter
    <2>4. WorkerOff'
      BY <2>1 DEF WorkerOff, framework
    <2>5. Lengths'
      BY <2>1, SameLengths
    <2> QED
      BY <2>3, <2>4, <2>5
  <1>2. CASE ReceiveData
    <2> DEFINE Received(n, refs) ==
                 /\ dtp' = [i \in 1 .. DTP |->
                              IF i - nevents \in 1 .. n THEN Packet(n, refs)[i - nevents]
                              ELSE dtp[i]]
                 /\ IF nevents + n > DTP
                    THEN pc' = "off" /\ nevents' = nevents
                    ELSE nevents' = nevents + n /\ pc' = pc
    <2>0. PICK n \in 1 .. MaxPacket : \E refs \in SUBSET (1 .. n) : Received(n, refs)
      BY <1>2 DEF ReceiveData
    <2>1. PICK refs \in SUBSET (1 .. n) : Received(n, refs)
      BY <2>0
    <2>2. pc = "receive" /\ UNCHANGED <<feb, good_events, poll, buffers, getter, framework>>
      BY <1>2 DEF ReceiveData
    <2>3. dtp' \in [1 .. DTP -> Events]
      <3>1. ASSUME NEW i \in 1 .. n PROVE Packet(n, refs)[i] \in Events
        <4>1. feb \in Nat /\ poll \in Nat /\ nevents + i \in Nat /\ (i \in refs) \in BOOLEAN
          BY DEF TypeOK, FEBIDs
        <4>2. Packet(n, refs)[i] = [feb |-> feb, poll |-> poll, no |-> nevents + i, ref |-> i \in refs]
          BY DEF Packet, Event
        <4> QED
          BY <4>1, <4>2 DEF Events
      <3> QED
        BY <2>1, <3>1 DEF TypeOK
    <2>4. nevents' \in 0 .. DTP /\ pc' \in {"off", "receive"}
      BY <2>1, <2>2 DEF TypeOK
    <2>5. TypeOK'
      BY <2>2, <2>3, <2>4 DEF TypeOK, Places, AtBoard, buffers, getter
    <2>6. WorkerOff'
      BY <2>2 DEF WorkerOff, framework
    <2>7. Lengths'
      BY <2>2, <2>4, SameLengths
    <2> QED
      BY <2>5, <2>6, <2>7
  <1>3. CASE ReceiveEnd \/ ReceiveNothing \/ ReceiveBad
    <2>1. /\ pc = "receive" /\ pc' \in {"wait", "off"} /\ nevents' \in {nevents, 0}
          /\ UNCHANGED <<feb, dtp, good_events, poll, buffers, getter, framework>>
      BY <1>3 DEF ReceiveEnd, ReceiveNothing, ReceiveBad, reading, AfterTimeout, history
    <2>2. TypeOK'
      BY <2>1 DEF TypeOK, Places, AtBoard, buffers, getter
    <2>3. WorkerOff'
      BY <2>1 DEF WorkerOff, framework
    <2>4. Lengths'
      BY <2>1, SameLengths
    <2> QED
      BY <2>2, <2>3, <2>4
  <1> QED
    BY <1>1, <1>2, <1>3 DEF GetFEBData

LEMMA InsertInv == Inv /\ InsertIntoFEBBuffer => Inv'
  <1> SUFFICES ASSUME Inv, InsertIntoFEBBuffer PROVE Inv'
    OBVIOUS
  <1> USE Constants DEF Inv
  <1>1. CASE WaitForCapacity
    <2>1. UNCHANGED <<pc, reading, buffers, getter, framework>>
      BY <1>1 DEF WaitForCapacity, vars
    <2>2. TypeOK' /\ WorkerOff'
      BY <2>1 DEF TypeOK, WorkerOff, reading, buffers, getter, framework
    <2>3. Lengths'
      BY <2>1, SameLengths DEF reading
    <2> QED
      BY <2>2, <2>3
  <1>2. CASE StartInsert
    <2>1. /\ pc = "wait" /\ pc' = "times" /\ good_events' \in Good
          /\ UNCHANGED <<feb, dtp, nevents, poll, buffers, getter, framework>>
      BY <1>2 DEF StartInsert
    <2>2. good_events' \in 1 .. DTP
      BY <2>1 DEF Good, TypeOK
    <2>3. TypeOK'
      BY <2>1, <2>2 DEF TypeOK, Places, AtBoard, buffers, getter
    <2>4. WorkerOff'
      BY <2>1 DEF WorkerOff, framework
    <2>5. Lengths'
      BY <2>1, SameLengths
    <2> QED
      BY <2>3, <2>4, <2>5
  <1>3. CASE InsertTimes
    <2>1. /\ pc = "times" /\ pc' = "dropped"
          /\ timebuffer' = [timebuffer EXCEPT ![feb] = Push(@, Copies(good_events, poll))]
          /\ UNCHANGED <<reading, buffer, droppedbuffer, getter, framework>>
      BY <1>3 DEF InsertTimes, TimesInserted
    <2>2. feb \in FEBIDs /\ timebuffer[feb] \in Seq(Nat) /\ good_events \in Nat /\ poll \in Nat
      BY <2>1 DEF TypeOK, AtBoard
    <2>3. Copies(good_events, poll) \in Seq(Nat) /\ Len(Copies(good_events, poll)) = good_events
      BY <2>2, CopiesLength
    <2>4. PICK q \in Seq(Nat) : /\ q = Push(timebuffer[feb], Copies(good_events, poll))
                               /\ Len(q) = Smaller(CAP, Len(timebuffer[feb]) + good_events)
      BY <2>2, <2>3, PushLength
    <2>5. timebuffer' = [timebuffer EXCEPT ![feb] = q]
      BY <2>1, <2>4
    <2>6. TypeOK'
      BY <2>1, <2>5 DEF TypeOK, Places, AtBoard, reading, getter
    <2>7. WorkerOff'
      BY <2>1 DEF WorkerOff, framework
    <2>8. ASSUME NEW b \in FEBIDs PROVE LengthsOf(b)'
      <3>1. LengthsOf(b)
        BY DEF Lengths
      <3>2. timebuffer'[b] = IF b = feb THEN q ELSE timebuffer[b]
        BY <2>2, <2>5 DEF TypeOK
      <3>3. Len(buffer[b]) \in Nat
        BY DEF TypeOK
      <3> QED
        BY <2>1, <2>4, <3>1, <3>2, <3>3 DEF LengthsOf, reading
    <2> QED
      BY <2>6, <2>7, <2>8 DEF Lengths
  <1>4. CASE InsertDropped
    <2> DEFINE zeros == Copies(good_events - 1, 0)
               drops == (nevents - good_events) % WIDTH
    <2>1. /\ pc = "dropped" /\ pc' = "events"
          /\ droppedbuffer' = [droppedbuffer EXCEPT ![feb] = Push(Push(@, zeros), <<drops>>)]
          /\ UNCHANGED <<reading, buffer, timebuffer, getter, framework>>
      BY <1>4 DEF InsertDropped
    <2>2. /\ feb \in FEBIDs /\ droppedbuffer[feb] \in Seq(Nat)
          /\ good_events - 1 \in Nat /\ nevents - good_events \in Int /\ good_events \in Nat
      BY <2>1 DEF TypeOK, AtBoard
    <2>3. zeros \in Seq(Nat) /\ Len(zeros) = good_events - 1
      BY <2>2, CopiesLength
    <2>4. PICK p \in Seq(Nat) : /\ p = Push(droppedbuffer[feb], zeros)
                               /\ Len(p) = Smaller(CAP, Len(droppedbuffer[feb]) + (good_events - 1))
      BY <2>2, <2>3, PushLength
    <2>5. drops \in Nat
      BY <2>2, Remainder, Constants
    <2>6. <<drops>> \in Seq(Nat) /\ Len(<<drops>>) = 1
      BY <2>5
    <2>7. PICK q \in Seq(Nat) : q = Push(p, <<drops>>) /\ Len(q) = Smaller(CAP, Len(p) + 1)
      BY <2>6, PushLength
    <2>8. droppedbuffer' = [droppedbuffer EXCEPT ![feb] = q]
      BY <2>1, <2>4, <2>7
    <2>9. TypeOK'
      BY <2>1, <2>8 DEF TypeOK, Places, AtBoard, reading, getter
    <2>10. WorkerOff'
      BY <2>1 DEF WorkerOff, framework
    <2>11. ASSUME NEW b \in FEBIDs PROVE LengthsOf(b)'
      <3>1. LengthsOf(b)
        BY DEF Lengths
      <3>2. droppedbuffer'[b] = IF b = feb THEN q ELSE droppedbuffer[b]
        BY <2>2, <2>8 DEF TypeOK
      <3>3. Len(buffer[b]) \in Nat /\ Len(droppedbuffer[b]) \in Nat
        BY DEF TypeOK
      <3>4. CASE b = feb
        <4>1. Len(droppedbuffer[b]) >= Len(buffer[b]) /\ Len(droppedbuffer[b]) <= CAP
          BY <2>1, <3>1, <3>4 DEF LengthsOf
        <4>2. Len(q) >= Smaller(CAP, Len(buffer[b]) + good_events) /\ Len(q) <= CAP
          <5>1. PICK m \in Nat, d \in Nat, g \in Nat :
                  /\ m = Len(buffer[b]) /\ d = Len(droppedbuffer[b]) /\ g = good_events
                  /\ m <= d /\ g # 0
            BY <2>1, <2>2, <3>3, <4>1 DEF TypeOK
          <5>2. Len(q) = Smaller(CAP, Smaller(CAP, d + (g - 1)) + 1)
            BY <2>4, <2>7, <3>4, <5>1
          <5> HIDE DEF Inv
          <5>3. Len(q) >= Smaller(CAP, m + g) /\ Len(q) <= CAP
            BY <5>1, <5>2 DEF Smaller
          <5> QED
            BY <5>1, <5>3
        <4> QED
          BY <2>1, <3>1, <3>2, <3>4, <4>2 DEF LengthsOf, reading
      <3>5. CASE b # feb
        BY <2>1, <3>1, <3>2, <3>5 DEF LengthsOf, reading
      <3> QED
        BY <3>4, <3>5
    <2> QED
      BY <2>9, <2>10, <2>11 DEF Lengths
  <1>5. CASE InsertEvents
    <2> DEFINE new == SubSeq(dtp, 1, good_events)
    <2>1. /\ pc = "events" /\ pc' = "board" /\ feb' = feb + 1
          /\ nevents' = 0 /\ good_events' = 0
          /\ buffer' = [buffer EXCEPT ![feb] = Push(@, new)]
          /\ UNCHANGED <<dtp, poll, timebuffer, droppedbuffer, getter, framework>>
      BY <1>5 DEF InsertEvents
    <2>2. feb \in FEBIDs /\ buffer[feb] \in Seq(Events) /\ good_events \in 0 .. DTP
      BY <2>1 DEF TypeOK, AtBoard
    <2>3. dtp \in Seq(Events) /\ Len(dtp) = DTP
      BY DEF TypeOK
    <2>4. new \in Seq(Events) /\ Len(new) = good_events
      BY <2>2, <2>3, SubSeqLength
    <2>5. PICK q \in Seq(Events) : /\ q = Push(buffer[feb], new)
                                  /\ Len(q) = Smaller(CAP, Len(buffer[feb]) + good_events)
      BY <2>2, <2>4, PushLength
    <2>6. buffer' = [buffer EXCEPT ![feb] = q]
      BY <2>1, <2>5
    <2>7. feb' \in 1 .. NFebs + 1
      BY <2>1, <2>2 DEF FEBIDs
    <2>8. TypeOK'
      BY <2>1, <2>6, <2>7 DEF TypeOK, Places, AtBoard, getter
    <2>9. WorkerOff'
      BY <2>1 DEF WorkerOff, framework
    <2>10. ASSUME NEW b \in FEBIDs PROVE LengthsOf(b)'
      <3>1. LengthsOf(b)
        BY DEF Lengths
      <3>2. buffer'[b] = IF b = feb THEN q ELSE buffer[b]
        BY <2>2, <2>6 DEF TypeOK
      <3>3. Len(q) <= CAP
        BY <2>2, <2>5 DEF Smaller
      <3> QED
        BY <2>1, <2>5, <3>1, <3>2, <3>3 DEF LengthsOf
    <2> QED
      BY <2>8, <2>9, <2>10 DEF Lengths
  <1> QED
    BY <1>1, <1>2, <1>3, <1>4, <1>5 DEF InsertIntoFEBBuffer

LEMMA GetDataInv == Inv /\ (GetDataSetup \/ Skip \/ GetDataComplete) => Inv'
  <1> SUFFICES ASSUME Inv, GetDataSetup \/ Skip \/ GetDataComplete PROVE Inv'
    OBVIOUS
  <1>1. /\ pc \in {"setup", "board"} /\ pc' \in {"off", "setup", "board"}
        /\ feb' = 1 \/ feb' = feb \/ (feb <= NFebs /\ feb' = feb + 1)
        /\ UNCHANGED <<dtp, nevents, good_events, poll, buffers, getter, framework>>
    BY DEF GetDataSetup, Skip, GetDataComplete, reading
  <1>2. feb' \in 1 .. NFebs + 1
    BY <1>1, Constants DEF Inv, TypeOK
  <1>3. TypeOK'
    BY <1>1, <1>2 DEF Inv, TypeOK, Places, AtBoard, buffers, getter
  <1>4. WorkerOff'
    BY <1>1 DEF Inv, WorkerOff, framework
  <1>5. Lengths'
    BY <1>1, SameLengths DEF Inv
  <1> QED
    BY <1>3, <1>4, <1>5 DEF Inv

-----------------------------------------------------------------------------
(* The steps of the thread that makes fragments.                            *)

LEMMA FillFragmentInv == Inv /\ FillFragment => Inv'
  <1> SUFFICES ASSUME Inv, FillFragment PROVE Inv'
    OBVIOUS
  <1>1. CASE NoFragment \/ FindReference \/ AddFragment
    <2>1. UNCHANGED <<pc, reading, buffers, framework>>
      BY <1>1 DEF NoFragment, FindReference, AddFragment, vars
    <2>2. gfeb' \in FEBIDs
      <3>1. gfeb' = gfeb \/ gfeb' = (gfeb % NFebs) + 1
        BY <1>1 DEF NoFragment, FindReference, AddFragment, vars, getter
      <3>2. PICK g \in Nat, n \in Nat \ {0} : g = gfeb /\ n = NFebs
        BY Constants DEF Inv, TypeOK, FEBIDs
      <3>3. PICK m \in 0 .. n - 1 : m = g % n
        BY Remainder
      <3>4. m + 1 \in 1 .. n
        BY <3>2, <3>3
      <3>5. (gfeb % NFebs) + 1 = m + 1
        BY <3>2, <3>3, Zenon
      <3> QED
        BY <3>1, <3>2, <3>4, <3>5 DEF Inv, TypeOK, FEBIDs
    <2>3. i_gps' \in Nat
      BY <1>1 DEF NoFragment, FindReference, AddFragment, References, vars, getter, Inv, TypeOK
    <2>4. TypeOK'
      BY <2>1, <2>2, <2>3 DEF Inv, TypeOK, reading, buffers
    <2>5. WorkerOff'
      BY <2>1 DEF Inv, WorkerOff, framework
    <2>6. Lengths'
      BY <2>1, SameLengths DEF Inv, reading
    <2> QED
      BY <2>4, <2>5, <2>6 DEF Inv
  <1>2. CASE EraseFromFEBBuffer
    <2>1. /\ ~Locked(gfeb) /\ i_gps' = 0
          /\ buffer' = [buffer EXCEPT ![gfeb] = EraseBegin(@, i_gps)]
          /\ timebuffer' = [timebuffer EXCEPT ![gfeb] = EraseBegin(@, i_gps)]
          /\ droppedbuffer' = [droppedbuffer EXCEPT ![gfeb] = EraseBegin(@, i_gps)]
          /\ UNCHANGED <<pc, reading, gfeb, framework>>
      BY <1>2 DEF EraseFromFEBBuffer, TimesErased
    <2>2. /\ gfeb \in FEBIDs /\ i_gps \in Nat
          /\ \A b \in FEBIDs : /\ buffer[b] \in Seq(Events) /\ timebuffer[b] \in Seq(Nat)
                                /\ droppedbuffer[b] \in Seq(Nat)
      BY DEF Inv, TypeOK
    <2>3. PICK q \in Seq(Events) :
            /\ q = EraseBegin(buffer[gfeb], i_gps)
            /\ Len(q) = IF i_gps <= Len(buffer[gfeb]) THEN Len(buffer[gfeb]) - i_gps ELSE 0
      BY <2>2, EraseLength
    <2>4. PICK t \in Seq(Nat) :
            /\ t = EraseBegin(timebuffer[gfeb], i_gps)
            /\ Len(t) = IF i_gps <= Len(timebuffer[gfeb]) THEN Len(timebuffer[gfeb]) - i_gps ELSE 0
      BY <2>2, EraseLength
    <2>5. PICK d \in Seq(Nat) :
            /\ d = EraseBegin(droppedbuffer[gfeb], i_gps)
            /\ Len(d) = IF i_gps <= Len(droppedbuffer[gfeb])
                        THEN Len(droppedbuffer[gfeb]) - i_gps ELSE 0
      BY <2>2, EraseLength
    <2>6. /\ buffer' = [buffer EXCEPT ![gfeb] = q] /\ timebuffer' = [timebuffer EXCEPT ![gfeb] = t]
          /\ droppedbuffer' = [droppedbuffer EXCEPT ![gfeb] = d]
      BY <2>1, <2>3, <2>4, <2>5
    <2>7. TypeOK'
      BY <2>1, <2>6 DEF Inv, TypeOK, reading
    <2>8. WorkerOff'
      BY <2>1 DEF Inv, WorkerOff, framework
    <2>9. ASSUME NEW b \in FEBIDs PROVE LengthsOf(b)'
      <3>1. LengthsOf(b)
        BY DEF Inv, Lengths
      <3>2. /\ buffer'[b] = IF b = gfeb THEN q ELSE buffer[b]
            /\ timebuffer'[b] = IF b = gfeb THEN t ELSE timebuffer[b]
            /\ droppedbuffer'[b] = IF b = gfeb THEN d ELSE droppedbuffer[b]
        BY <2>2, <2>6 DEF Inv, TypeOK
      <3>3. CASE b = gfeb
        <4>1. /\ Len(buffer[b]) <= CAP /\ Len(timebuffer[b]) = Len(buffer[b])
              /\ Len(droppedbuffer[b]) >= Len(buffer[b]) /\ Len(droppedbuffer[b]) <= CAP
              /\ ~(feb = b /\ pc \in {"dropped", "events"})
          BY <2>1, <3>1, <3>3 DEF LengthsOf, Locked
        <4>2. PICK m \in Nat, n \in Nat, i \in Nat, c \in Nat :
                m = Len(buffer[b]) /\ n = Len(droppedbuffer[b]) /\ i = i_gps /\ c = CAP
          BY <2>2, Constants
        <4>3. m <= c /\ n >= m /\ n <= c
          BY <4>1, <4>2, Zenon
        <4>4. /\ Len(q) = IF i <= m THEN m - i ELSE 0
              /\ Len(t) = IF i <= m THEN m - i ELSE 0
              /\ Len(d) = IF i <= n THEN n - i ELSE 0
          BY <2>3, <2>4, <2>5, <3>3, <4>1, <4>2, Zenon
        <4>5. Len(q) <= c /\ Len(t) = Len(q) /\ Len(d) >= Len(q) /\ Len(d) <= c
          BY <4>3, <4>4
        <4>6. Len(q) <= CAP /\ Len(t) = Len(q) /\ Len(d) >= Len(q) /\ Len(d) <= CAP
          BY <4>2, <4>5, Zenon
        <4> QED
          BY <2>1, <3>2, <3>3, <4>1, <4>6 DEF LengthsOf, reading
      <3>4. CASE b # gfeb
        BY <2>1, <3>1, <3>2, <3>4 DEF LengthsOf, reading
      <3> QED
        BY <3>3, <3>4
    <2> QED
      BY <2>7, <2>8, <2>9 DEF Inv, Lengths
  <1> QED
    BY <1>1, <1>2 DEF FillFragment

-----------------------------------------------------------------------------
(* The steps of the framework.                                              *)

LEMMA CommandsInv == Inv /\ Commands => Inv'
  <1> SUFFICES ASSUME Inv, Commands PROVE Inv'
    OBVIOUS
  <1>1. CASE Construct \/ stop \/ ConfigureStop
    <2>1. UNCHANGED <<pc, reading, buffers, getter>>
      BY <1>1 DEF Construct, stop, ConfigureStop
    <2>2. TypeOK'
      BY <2>1 DEF Inv, TypeOK, reading, buffers, getter
    <2>3. WorkerOff'
      BY <1>1, <2>1 DEF Inv, WorkerOff, Construct, stop, ConfigureStop
    <2>4. Lengths'
      BY <2>1, SameLengths DEF Inv, reading
    <2> QED
      BY <2>2, <2>3, <2>4 DEF Inv
  <1>2. CASE start
    <2>1. /\ pc = "off" /\ pc' = "setup" /\ cpc' = "running" /\ gfeb' = 1
          /\ buffer' = [b \in FEBIDs |-> <<>>] /\ timebuffer' = [b \in FEBIDs |-> <<>>]
          /\ UNCHANGED <<reading, droppedbuffer, i_gps>>
      BY <1>2 DEF start, Inv, WorkerOff
    <2>2. TypeOK'
      <3>1. <<>> \in Seq(Events) /\ <<>> \in Seq(Nat)
        OBVIOUS
      <3>2. 1 \in FEBIDs
        BY Constants DEF FEBIDs
      <3> QED
        BY <2>1, <3>1, <3>2 DEF Inv, TypeOK, Places, AtBoard, reading
    <2>3. WorkerOff'
      BY <2>1 DEF WorkerOff
    <2>4. ASSUME NEW b \in FEBIDs PROVE LengthsOf(b)'
      <3>1. Len(droppedbuffer[b]) \in Nat /\ Len(droppedbuffer[b]) <= CAP
        BY DEF Inv, TypeOK, Lengths, LengthsOf
      <3>2. Len(buffer'[b]) = 0 /\ Len(timebuffer'[b]) = 0 /\ droppedbuffer' = droppedbuffer
        BY <2>1
      <3> QED
        BY <2>1, <3>1, <3>2, Constants DEF LengthsOf
    <2> QED
      BY <2>2, <2>3, <2>4 DEF Inv, Lengths
  <1> QED
    BY <1>1, <1>2 DEF Commands

LEMMA NextInv == Inv /\ [Next]_vars => Inv'
  <1> SUFFICES ASSUME Inv, [Next]_vars PROVE Inv'
    OBVIOUS
  <1>1. CASE GetData
    BY <1>1, GetDataInv, GetFEBDataInv, InsertInv DEF GetData
  <1>2. CASE FillFragment
    BY <1>2, FillFragmentInv
  <1>3. CASE Commands
    BY <1>3, CommandsInv
  <1>4. CASE UNCHANGED vars
    <2>1. UNCHANGED <<pc, reading, buffers, getter, framework>>
      BY <1>4 DEF vars
    <2>2. TypeOK' /\ WorkerOff'
      BY <2>1 DEF Inv, TypeOK, WorkerOff, reading, buffers, getter, framework
    <2>3. Lengths'
      BY <2>1, SameLengths DEF Inv, reading
    <2> QED
      BY <2>2, <2>3 DEF Inv
  <1> QED
    BY <1>1, <1>2, <1>3, <1>4 DEF Next

\* Whatever the worker is inserting and whatever runs were before, no event can be
\* seen without a time and a number of dropped events: times and drops are
\* inserted before the events, a full buffer overwrites as much of each, and all
\* three are erased under the mutex.
THEOREM EventsHaveTimes == Spec => []VisibleHaveTimes
  <1>1. Inv => VisibleHaveTimes
    <2> SUFFICES ASSUME Inv, NEW b \in FEBIDs
                 PROVE  /\ Len(buffer[b]) <= Len(timebuffer[b])
                        /\ Len(buffer[b]) <= Len(droppedbuffer[b])
      BY DEF VisibleHaveTimes
    <2>1. LengthsOf(b)
      BY DEF Inv, Lengths
    <2>2. Len(buffer[b]) \in Nat /\ Len(droppedbuffer[b]) \in Nat /\ good_events \in Nat
      BY DEF Inv, TypeOK
    <2>3. Len(buffer[b]) <= Smaller(CAP, Len(buffer[b]) + good_events)
      BY <2>1, <2>2, Constants DEF LengthsOf, Smaller
    <2> QED
      BY <2>1, <2>2, <2>3, Constants DEF LengthsOf, Smaller
  <1> QED
    BY <1>1, InitInv, NextInv, PTL DEF Spec

-----------------------------------------------------------------------------
(* What stands beside an event.                                             *)

\* q2 is q without its first o elements, which leaves l, and with new behind them.
Extends(q, o, l, new, q2) ==
  /\ o + l = Len(q) /\ Len(q2) = l + Len(new)
  /\ \A i \in 1 .. l : q2[i] = q[i + o]
  /\ \A k \in 1 .. Len(new) : q2[l + k] = new[k]

\* The events B of board b are stamped with the polls T that inserted them, all up
\* to the poll p; stored is what the driver has.
Stamped(b, B, T, p, stored) ==
  /\ Len(T) = Len(B)
  /\ \A n \in 1 .. Len(B) :
       /\ T[n] \in 1 .. p
       /\ B[n].no > 1 => /\ B[n].feb = b /\ B[n].poll = T[n] /\ B[n] \in stored
                         /\ (n > 1 /\ T[n - 1] = T[n]) => B[n - 1].no = B[n].no - 1

\* The drops D beside the last event of a poll make up for what the poll brought.
Counted(B, T, D, br) ==
  /\ Len(D) = Len(B)
  /\ \A n \in 1 .. Len(B) :
       IF n = Len(B) \/ T[n + 1] # T[n] THEN (B[n].no + D[n]) % WIDTH = br[T[n]]
       ELSE D[n] = 0

\* Times and drops of board b as they were before the insertion under way.
TimesBefore(b, t) ==
  timebuffer[b] = IF feb = b /\ pc \in {"dropped", "events"}
                  THEN Push(t, Copies(good_events, poll)) ELSE t
DropsBefore(b, d) ==
  droppedbuffer[b] = IF feb = b /\ pc = "events"
                     THEN Push(Push(d, Copies(good_events - 1, 0)),
                               <<(nevents - good_events) % WIDTH>>)
                     ELSE d

\* The last poll whose events may be in the buffers.
Polled == IF pc \in AtBoard THEN poll - 1 ELSE poll

Matched(b) ==
  \E t \in Seq(Nat), d \in Seq(Nat) :
    /\ TimesBefore(b, t) /\ DropsBefore(b, d)
    /\ Stamped(b, buffer[b], t, Polled, processed)
    /\ run < 2 => Counted(buffer[b], t, d, brought)

\* The array holds the events of the poll, behind at most one old one.
ArrayOK ==
  /\ \A i \in 1 .. DTP : dtp[i].no = i
  /\ pc \in AtBoard =>
       \A i \in 1 .. nevents : dtp[i].feb = feb /\ dtp[i].poll = poll /\ dtp[i] \in processed

BroughtOK ==
  /\ brought \in Seq(Nat) /\ Len(brought) = poll
  /\ pc \in AtBoard => poll > 0
  /\ pc \in AtBoard \ {"receive"} => brought[poll] = nevents
  /\ pc = "receive" => brought[poll] = 0

GoodOK == pc \in {"times", "dropped", "events"} =>
  good_events \in Good /\ Len(buffer[feb]) + nevents <= CAP

RunOK == /\ run \in Nat
         /\ run = 0 => /\ cpc \in {"constructing", "stopped"}
                       /\ \A b \in FEBIDs : droppedbuffer[b] = <<>>

HInv == ArrayOK /\ BroughtOK /\ GoodOK /\ RunOK /\ \A b \in FEBIDs : Matched(b)

-----------------------------------------------------------------------------
(* Sequences that lose elements at the front and get new ones behind.       *)

LEMMA PushExtends ==
  ASSUME NEW S, NEW q \in Seq(S), NEW new \in Seq(S), NEW o \in Nat, NEW l \in Nat,
         o + l = Len(q), l + Len(new) <= CAP, o = 0 \/ l + Len(new) = CAP
  PROVE  Extends(q, o, l, new, Push(q, new))
  <1>1. PICK m \in Nat, c \in Nat : m = Len(new) /\ c = CAP
    BY Constants
  <1>2. PICK all \in Seq(S) : all = q \o new /\ Len(all) = (o + l) + m
    <2>1. q \o new \in Seq(S) /\ Len(q \o new) = Len(q) + Len(new)
      OBVIOUS
    <2>2. Len(q \o new) = (o + l) + m
      BY <1>1, <2>1, Zenon
    <2> QED
      BY <2>1, <2>2, Zenon
  <1>3. ASSUME NEW i \in 1 .. l PROVE all[i + o] = q[i + o]
    <2>1. i + o \in 1 .. Len(q)
      OBVIOUS
    <2> QED
      BY <1>2, <2>1
  <1>4. ASSUME NEW k \in 1 .. m PROVE all[(o + l) + k] = new[k]
    <2>1. PICK n \in Nat : n = o + l
      OBVIOUS
    <2>2. n + k \in 1 .. n + m /\ ~(n + k <= n) /\ (n + k) - n = k
      BY <2>1
    <2>3. (q \o new)[n + k] = new[k]
      BY <1>1, <2>1, <2>2
    <2> QED
      BY <1>2, <2>1, <2>3, Zenon
  <1>5. CASE o = 0
    <2>1. (o + l) + m <= c
      BY <1>1, <1>5
    <2>2. Push(q, new) = all
      BY <1>1, <1>2, <2>1 DEF Push
    <2>3. ASSUME NEW i \in 1 .. l PROVE all[i] = q[i + o]
      <3>1. i + o = i
        BY <1>5
      <3> QED
        BY <1>3, <3>1
    <2>4. ASSUME NEW k \in 1 .. m PROVE all[l + k] = new[k]
      <3>1. (o + l) + k = l + k
        BY <1>5
      <3> QED
        BY <1>4, <3>1
    <2>5. Len(all) = l + m
      BY <1>2, <1>5
    <2> QED
      BY <1>1, <2>2, <2>3, <2>4, <2>5 DEF Extends
  <1>6. CASE o # 0
    <2>1. (o + l) + m > c /\ (o + l) + m - c + 1 = o + 1 /\ o + 1 <= (o + l) + m + 1
      BY <1>1, <1>6
    <2>2. Push(q, new) = SubSeq(all, o + 1, (o + l) + m)
      <3>1. /\ Len(all) > CAP /\ Len(all) - CAP + 1 = o + 1
            /\ Len(all) = (o + l) + m
        <4>1. PICK n \in Nat : n = (o + l) + m /\ n = Len(all)
          BY <1>2
        <4>2. n > c /\ n - c + 1 = o + 1
          BY <2>1, <4>1
        <4> QED
          BY <1>1, <4>1, <4>2
      <3>2. Push(q, new) = SubSeq(all, Len(all) - CAP + 1, Len(all))
        BY <1>2, <3>1, Zenon DEF Push
      <3> QED
        BY <3>1, <3>2, Zenon
    <2>3. PICK p : p = SubSeq(all, o + 1, (o + l) + m)
      OBVIOUS
    <2>4. Len(p) = l + m /\ \A i \in 1 .. l + m : p[i] = all[i + o]
      <3>1. PICK n \in Nat : n = (o + l) + m /\ n = Len(all) /\ o + 1 <= n + 1
        BY <1>2, <2>1
      <3>2. o + 1 \in 1 .. n + 1 /\ n - (o + 1) + 1 = l + m
        BY <3>1
      <3>3. p = SubSeq(all, o + 1, n)
        BY <2>3, <3>1, Zenon
      <3>4. Len(p) = l + m
        BY <3>1, <3>2, <3>3
      <3>5. ASSUME NEW i \in 1 .. l + m PROVE p[i] = all[i + o]
        <4>1. i \in 1 .. n - (o + 1) + 1 /\ i + (o + 1) - 1 = i + o
          BY <3>2
        <4>2. p[i] = all[i + (o + 1) - 1]
          <5>1. PICK a \in Nat : a = o + 1
            OBVIOUS
          <5>2. p = SubSeq(all, a, n) /\ i \in 1 .. n - a + 1 /\ n = Len(all)
            BY <3>1, <3>3, <4>1, <5>1, Zenon
          <5>3. p[i] = all[i + a - 1]
            BY <5>2
          <5> QED
            BY <5>1, <5>3, Zenon
        <4> QED
          BY <4>1, <4>2, Zenon
      <3> QED
        BY <3>4, <3>5
    <2>5. ASSUME NEW i \in 1 .. l PROVE p[i] = q[i + o]
      <3>1. i \in 1 .. l + m
        OBVIOUS
      <3> QED
        BY <1>3, <2>4, <3>1
    <2>6. ASSUME NEW k \in 1 .. m PROVE p[l + k] = new[k]
      <3>1. l + k \in 1 .. l + m /\ (l + k) + o = (o + l) + k
        OBVIOUS
      <3> QED
        BY <1>4, <2>4, <3>1
    <2> QED
      BY <1>1, <2>2, <2>3, <2>4, <2>5, <2>6 DEF Extends
  <1> QED
    BY <1>5, <1>6

LEMMA EraseExtends ==
  ASSUME NEW S, NEW q \in Seq(S), NEW n \in Nat, NEW o \in Nat, NEW l \in Nat,
         o + l = Len(q), o = Smaller(n, Len(q))
  PROVE  Extends(q, o, l, <<>>, EraseBegin(q, n))
  <1>1. PICK p : p = EraseBegin(q, n)
    OBVIOUS
  <1>2. p \in Seq(S) /\ Len(p) = IF n <= Len(q) THEN Len(q) - n ELSE 0
    BY <1>1, EraseLength
  <1>3. Len(p) = l
    BY <1>2 DEF Smaller
  <1>4. ASSUME NEW i \in 1 .. l PROVE p[i] = q[i + o]
    <2>1. n < Len(q) /\ o = n
      BY DEF Smaller
    <2> QED
      BY <1>1, <1>3, <2>1 DEF EraseBegin
  <1> QED
    BY <1>1, <1>3, <1>4 DEF Extends

\* Events of poll p with their stamps: numbered, and all but the first of this
\* board, of this poll and with the driver.
NewEvents(b, nb, nt, p, stored) ==
  /\ Len(nt) = Len(nb)
  /\ \A k \in 1 .. Len(nb) :
       /\ nt[k] = p /\ p > 0 /\ nb[k].no = k
       /\ k > 1 => nb[k].feb = b /\ nb[k].poll = p /\ nb[k] \in stored

\* Their drops: all zero but the last, which makes up for what the poll brought.
NewDrops(nb, nd, p, br) ==
  /\ Len(nd) = Len(nb)
  /\ \A k \in 1 .. Len(nb) :
       IF k = Len(nb) THEN (nb[k].no + nd[k]) % WIDTH = br[p] ELSE nd[k] = 0

LEMMA StampedTypes ==
  ASSUME NEW b, NEW B, NEW T, NEW p, NEW stored, Stamped(b, B, T, p, stored)
  PROVE  /\ Len(T) = Len(B)
         /\ \A n \in 1 .. Len(B) : T[n] \in 1 .. p
  BY Zenon DEF Stamped

LEMMA StampedTwo ==
  ASSUME NEW b, NEW B, NEW T, NEW p, NEW stored, Stamped(b, B, T, p, stored),
         NEW n \in 1 .. Len(B), B[n].no > 1
  PROVE  /\ B[n].feb = b /\ B[n].poll = T[n] /\ B[n] \in stored
         /\ (n > 1 /\ T[n - 1] = T[n]) => B[n - 1].no = B[n].no - 1
  BY Zenon DEF Stamped

LEMMA StampedExtends ==
  ASSUME NEW b, NEW stored, NEW o \in Nat, NEW l \in Nat, NEW p \in Nat, NEW p2 \in Nat, p <= p2,
         NEW B \in Seq(Events), NEW nb \in Seq(Events), NEW B2, Extends(B, o, l, nb, B2),
         NEW T \in Seq(Nat), NEW nt \in Seq(Nat), NEW T2, Extends(T, o, l, nt, T2),
         Stamped(b, B, T, p, stored), NewEvents(b, nb, nt, p2, stored)
  PROVE  Stamped(b, B2, T2, p2, stored)
  <1>g. PICK g \in Nat : g = Len(nb)
    OBVIOUS
  <1>b. /\ o + l = Len(B) /\ Len(B2) = l + Len(nb)
        /\ \A n \in 1 .. l : B2[n] = B[n + o]
        /\ \A k \in 1 .. Len(nb) : B2[l + k] = nb[k]
    BY Zenon DEF Extends
  <1>t. /\ Len(T2) = l + Len(nt)
        /\ \A n \in 1 .. l : T2[n] = T[n + o]
        /\ \A k \in 1 .. Len(nt) : T2[l + k] = nt[k]
    BY Zenon DEF Extends
  <1>1. Len(B2) = l + g /\ Len(T2) = l + g
    BY <1>b, <1>t, <1>g, Zenon DEF NewEvents
  <1>2. ASSUME NEW n \in 1 .. l
        PROVE  /\ n + o \in 1 .. Len(B) /\ B2[n] = B[n + o] /\ T2[n] = T[n + o]
    BY <1>b, <1>t
  <1>3. ASSUME NEW k \in 1 .. g
        PROVE  B2[l + k] = nb[k] /\ T2[l + k] = p2 /\ p2 > 0 /\ nb[k].no = k
    BY <1>b, <1>t, <1>g DEF NewEvents
  <1>4. ASSUME NEW n \in 1 .. l + g
        PROVE  /\ T2[n] \in 1 .. p2
               /\ B2[n].no > 1 =>
                    /\ B2[n].feb = b /\ B2[n].poll = T2[n] /\ B2[n] \in stored
                    /\ (n > 1 /\ T2[n - 1] = T2[n]) => B2[n - 1].no = B2[n].no - 1
    <2>1. CASE n \in 1 .. l
      <3>1. T[n + o] \in 1 .. p /\ T2[n] \in 1 .. p2
        <4>1. T[n + o] \in 1 .. p
          BY <1>2, <2>1, StampedTypes, Zenon
        <4> QED
          BY <1>2, <2>1, <4>1
      <3>2. ASSUME B2[n].no > 1
            PROVE  B2[n].feb = b /\ B2[n].poll = T2[n] /\ B2[n] \in stored
        <4>1. n + o \in 1 .. Len(B) /\ B[n + o].no > 1
          BY <1>2, <2>1, <3>2
        <4>2. B[n + o].feb = b /\ B[n + o].poll = T[n + o] /\ B[n + o] \in stored
          BY <4>1, StampedTwo
        <4> QED
          BY <1>2, <2>1, <4>2
      <3>3. ASSUME B2[n].no > 1, n > 1, T2[n - 1] = T2[n]
            PROVE  B2[n - 1].no = B2[n].no - 1
        <4>1. n - 1 \in 1 .. l /\ (n - 1) + o = (n + o) - 1 /\ n + o > 1
          <5>1. n \in Nat /\ n > 1 /\ n <= l
            BY <2>1, <3>3
          <5> QED
            BY <5>1
        <4>2. B2[n - 1] = B[(n + o) - 1] /\ T2[n - 1] = T[(n + o) - 1]
          BY <1>2, <4>1
        <4> QED
          <5>1. /\ n + o \in 1 .. Len(B) /\ B[n + o].no > 1
                /\ n + o > 1 /\ T[(n + o) - 1] = T[n + o]
            BY <1>2, <2>1, <3>3, <4>1, <4>2
          <5>2. B[(n + o) - 1].no = B[n + o].no - 1
            <6>1. PICK m : m = n + o
              OBVIOUS
            <6>2. m \in 1 .. Len(B) /\ B[m].no > 1 /\ m > 1 /\ T[m - 1] = T[m]
              BY <5>1, <6>1, Zenon
            <6>3. /\ B[m].feb = b /\ B[m].poll = T[m] /\ B[m] \in stored
                  /\ (m > 1 /\ T[m - 1] = T[m]) => B[m - 1].no = B[m].no - 1
              BY <6>2, Zenon DEF Stamped
            <6> QED
              BY <6>1, <6>2, <6>3, Zenon
          <5> QED
            BY <1>2, <2>1, <4>2, <5>2
      <3> QED
        BY <3>1, <3>2, <3>3
    <2>2. CASE n \notin 1 .. l
      <3>1. PICK k \in 1 .. g : n = l + k
        <4>1. n - l \in 1 .. g /\ n = l + (n - l)
          BY <1>4, <2>2
        <4> QED
          BY <4>1
      <3>2. B2[n] = nb[k] /\ T2[n] = p2 /\ nb[k].no = k
        BY <1>3, <3>1
      <3>3. p2 \in 1 .. p2
        BY <1>3, <3>1
      <3>4. CASE k = 1
        BY <3>2, <3>3, <3>4
      <3>5. CASE k > 1
        <4>1. k - 1 \in 1 .. g /\ n - 1 = l + (k - 1)
          BY <3>1, <3>5
        <4>2. B2[n - 1] = nb[k - 1] /\ nb[k - 1].no = k - 1
          BY <1>3, <4>1
        <4>3. nb[k].feb = b /\ nb[k].poll = p2 /\ nb[k] \in stored
          BY <1>g, <3>5, Zenon DEF NewEvents
        <4> QED
          BY <3>2, <3>3, <4>2, <4>3
      <3> QED
        BY <3>4, <3>5
    <2> QED
      BY <2>1, <2>2
  <1> QED
    BY <1>1, <1>4 DEF Stamped

\* So may drops, all zero but the last, which makes up for what the poll brought.
LEMMA CountedExtends ==
  ASSUME NEW o \in Nat, NEW l \in Nat, NEW p \in Nat, NEW p2 \in Nat, p < p2, NEW br,
         NEW B \in Seq(Events), NEW nb \in Seq(Events), NEW B2, Extends(B, o, l, nb, B2),
         NEW T \in Seq(Nat), NEW nt \in Seq(Nat), NEW T2, Extends(T, o, l, nt, T2),
         NEW D \in Seq(Nat), NEW nd \in Seq(Nat), NEW D2, Extends(D, o, l, nd, D2),
         NEW b, NEW stored, Stamped(b, B, T, p, stored), Counted(B, T, D, br),
         NewEvents(b, nb, nt, p2, stored), NewDrops(nb, nd, p2, br)
  PROVE  Counted(B2, T2, D2, br)
  <1>g. PICK g \in Nat : g = Len(nb)
    OBVIOUS
  <1>b. /\ o + l = Len(B) /\ Len(B2) = l + Len(nb)
        /\ \A n \in 1 .. l : B2[n] = B[n + o]
        /\ \A k \in 1 .. Len(nb) : B2[l + k] = nb[k]
    BY Zenon DEF Extends
  <1>t. /\ Len(T2) = l + Len(nt)
        /\ \A n \in 1 .. l : T2[n] = T[n + o]
        /\ \A k \in 1 .. Len(nt) : T2[l + k] = nt[k]
    BY Zenon DEF Extends
  <1>d. /\ Len(D2) = l + Len(nd)
        /\ \A n \in 1 .. l : D2[n] = D[n + o]
        /\ \A k \in 1 .. Len(nd) : D2[l + k] = nd[k]
    BY Zenon DEF Extends
  <1>1. Len(B2) = l + g /\ Len(T2) = l + g /\ Len(D2) = l + g
    BY <1>b, <1>t, <1>d, <1>g, Zenon DEF NewEvents, NewDrops
  <1>2. ASSUME NEW n \in 1 .. l
        PROVE  /\ n + o \in 1 .. Len(B)
               /\ B2[n] = B[n + o] /\ T2[n] = T[n + o] /\ D2[n] = D[n + o]
    <2>1. n + o \in 1 .. o + l
      OBVIOUS
    <2> QED
      BY <1>b, <1>t, <1>d, <2>1, Zenon
  <1>3. ASSUME NEW k \in 1 .. g
        PROVE  B2[l + k] = nb[k] /\ T2[l + k] = p2 /\ D2[l + k] = nd[k]
    <2>1. Len(nt) = g /\ Len(nd) = g /\ nt[k] = p2
      BY <1>g, Zenon DEF NewEvents, NewDrops
    <2> QED
      BY <1>b, <1>t, <1>d, <1>g, <2>1, Zenon
  <1>4. ASSUME NEW n \in 1 .. l + g
        PROVE  IF n = l + g \/ T2[n + 1] # T2[n]
               THEN (B2[n].no + D2[n]) % WIDTH = br[T2[n]] ELSE D2[n] = 0
    <2>1. CASE n \in 1 .. l
      <3>1. /\ n + o \in 1 .. Len(B)
            /\ B2[n] = B[n + o] /\ T2[n] = T[n + o] /\ D2[n] = D[n + o]
            /\ T[n + o] # p2
        <4>1. n + o \in 1 .. Len(T) /\ T[n + o] \in 1 .. p
          BY <1>2, <2>1, StampedTypes, Zenon
        <4>2. T[n + o] # p2
          BY <4>1
        <4> QED
          BY <1>2, <2>1, <4>1, <4>2, Zenon
      <3>2. (n = l + g \/ T2[n + 1] # T2[n]) <=> (n + o = Len(B) \/ T[(n + o) + 1] # T[n + o])
        <4>1. CASE n = l
          <5>1. n + o = Len(B)
            BY <1>b, <4>1
          <5>2. CASE g = 0
            BY <4>1, <5>1, <5>2
          <5>3. CASE g > 0
            <6>1. 1 \in 1 .. g
              BY <5>3
            <6>2. T2[n + 1] = p2
              BY <1>3, <4>1, <6>1
            <6> QED
              BY <3>1, <5>1, <6>2
          <5> QED
            BY <5>2, <5>3
        <4>2. CASE n # l
          <5>1. n + 1 \in 1 .. l /\ (n + 1) + o = (n + o) + 1 /\ n # l + g /\ n + o # Len(B)
            <6>1. n \in Nat /\ l \in Nat /\ o \in Nat /\ g \in Nat
              OBVIOUS
            <6>2. n + o # Len(B) /\ n + 1 \in 1 .. l /\ n # l + g
              <7>1. o + l = Len(B) /\ n \in 1 .. l /\ n # l
                BY <1>b, <2>1, <4>2
              <7>2. n + o # o + l /\ n + 1 \in 1 .. l /\ n # l + g
                BY <6>1, <7>1
              <7> QED
                BY <7>1, <7>2, Zenon
            <6>3. (n + 1) + o = (n + o) + 1
              BY <6>1
            <6> QED
              BY <6>2, <6>3
          <5>2. T2[n + 1] = T[(n + o) + 1]
            BY <1>2, <5>1
          <5> QED
            BY <3>1, <5>1, <5>2
        <4> QED
          BY <4>1, <4>2
      <3>3. IF n + o = Len(B) \/ T[(n + o) + 1] # T[n + o]
            THEN (B[n + o].no + D[n + o]) % WIDTH = br[T[n + o]] ELSE D[n + o] = 0
        BY <3>1 DEF Counted
      <3> QED
        BY <3>1, <3>2, <3>3, Zenon
    <2>2. CASE n \notin 1 .. l
      <3>1. PICK k \in 1 .. g : n = l + k
        <4>1. n - l \in 1 .. g /\ n = l + (n - l)
          BY <1>4, <2>2
        <4> QED
          BY <4>1
      <3>2. B2[n] = nb[k] /\ T2[n] = p2 /\ D2[n] = nd[k]
        BY <1>3, <3>1
      <3>3. CASE k = g
        <4>1. (nb[k].no + nd[k]) % WIDTH = br[p2]
          BY <1>g, <3>3, g \in 1 .. g, Zenon DEF NewDrops
        <4>2. n = l + g
          BY <3>1, <3>3
        <4> QED
          BY <3>2, <4>1, <4>2, Zenon
      <3>4. CASE k # g
        <4>1. k + 1 \in 1 .. g /\ n + 1 = l + (k + 1) /\ n # l + g
          BY <3>1, <3>4
        <4>2. T2[n + 1] = p2
          BY <1>3, <4>1
        <4>3. nd[k] = 0
          BY <1>g, <3>4, Zenon DEF NewDrops
        <4> QED
          BY <3>2, <4>1, <4>2, <4>3
      <3> QED
        BY <3>3, <3>4
    <2> QED
      BY <2>1, <2>2
  <1> QED
    BY <1>1, <1>4 DEF Counted

-----------------------------------------------------------------------------
(* What stands beside the events: the steps.                                *)

\* Whatever changes neither the buffers of a board nor an insertion into them,
\* and only adds polls and stored events.
LEMMA SameMatched ==
  ASSUME NEW b \in FEBIDs, Matched(b), run' = run,
         buffer'[b] = buffer[b], timebuffer'[b] = timebuffer[b],
         droppedbuffer'[b] = droppedbuffer[b],
         \/ UNCHANGED <<pc, feb, good_events, nevents, poll>>
         \/ /\ ~(feb = b /\ pc \in {"dropped", "events"})
            /\ ~(feb' = b /\ pc' \in {"dropped", "events"}),
         Polled \in Nat, Polled' \in Nat, Polled <= Polled', processed \subseteq processed',
         \A i \in 1 .. Polled : brought'[i] = brought[i]
  PROVE  Matched(b)'
  <1>1. PICK t \in Seq(Nat), d \in Seq(Nat) :
          /\ TimesBefore(b, t) /\ DropsBefore(b, d)
          /\ Stamped(b, buffer[b], t, Polled, processed)
          /\ run < 2 => Counted(buffer[b], t, d, brought)
    BY DEF Matched
  <1>2. TimesBefore(b, t)' /\ DropsBefore(b, d)'
    BY <1>1 DEF TimesBefore, DropsBefore
  <1>3. /\ Len(t) = Len(buffer[b])
        /\ \A n \in 1 .. Len(buffer[b]) : t[n] \in 1 .. Polled
    BY <1>1, StampedTypes
  <1>4. Stamped(b, buffer'[b], t, Polled', processed')
    <2>1. \A n \in 1 .. Len(buffer[b]) : t[n] \in 1 .. Polled'
      BY <1>3
    <2> QED
      BY <1>1, <2>1 DEF Stamped
  <1>5. run' < 2 => Counted(buffer'[b], t, d, brought')
    <2>1. \A n \in 1 .. Len(buffer[b]) : brought'[t[n]] = brought[t[n]]
      BY <1>3
    <2> QED
      BY <1>1, <2>1 DEF Counted
  <1> QED
    BY <1>2, <1>4, <1>5 DEF Matched

\* Steps that keep the array, or leave nothing of it to speak of.
LEMMA SameArray ==
  ASSUME ArrayOK, dtp' = dtp, processed \subseteq processed',
         \/ UNCHANGED <<feb, poll, nevents>> /\ (pc' \in AtBoard => pc \in AtBoard)
         \/ nevents' = 0
         \/ pc' \notin AtBoard
  PROVE  ArrayOK'
  BY DEF ArrayOK

LEMMA HInvInit == Init => HInv
  <1> SUFFICES ASSUME Init PROVE HInv
    OBVIOUS
  <1>1. ArrayOK
    <2>1. \A i \in 1 .. DTP : dtp[i].no = i
      BY DEF Init, Event
    <2> QED
      BY <2>1 DEF Init, ArrayOK, AtBoard
  <1>2. BroughtOK
    BY DEF Init, BroughtOK, AtBoard
  <1>3. GoodOK /\ RunOK
    BY DEF Init, GoodOK, RunOK
  <1>4. ASSUME NEW b \in FEBIDs PROVE Matched(b)
    <2>1. /\ buffer[b] = <<>> /\ timebuffer[b] = <<>> /\ droppedbuffer[b] = <<>>
          /\ pc = "off" /\ <<>> \in Seq(Nat) /\ Len(<<>>) = 0
      BY DEF Init
    <2>2. TimesBefore(b, <<>>) /\ DropsBefore(b, <<>>)
      BY <2>1 DEF TimesBefore, DropsBefore
    <2>3. /\ Stamped(b, buffer[b], <<>>, Polled, processed)
          /\ Counted(buffer[b], <<>>, <<>>, brought)
      BY <2>1 DEF Stamped, Counted
    <2> QED
      BY <2>1, <2>2, <2>3 DEF Matched
  <1> QED
    BY <1>1, <1>2, <1>3, <1>4 DEF HInv

\* The steps of GetFEBData.
LEMMA GetFEBDataHInv == Inv /\ HInv /\ GetFEBData => HInv'
  <1> SUFFICES ASSUME Inv, HInv, GetFEBData PROVE HInv'
    OBVIOUS
  <1>0. /\ poll \in Nat /\ nevents \in 0 .. DTP /\ DTP \in Nat /\ Len(brought) = poll
        /\ brought \in Seq(Nat) /\ (pc \in AtBoard => poll > 0)
    BY Constants DEF Inv, TypeOK, HInv, BroughtOK
  <1>1. /\ UNCHANGED <<buffers, framework, feb, good_events>>
        /\ pc \in {"board", "receive"} /\ pc' \in {"receive", "wait", "off"}
    BY DEF GetFEBData, pollfeb, ReceiveData, ReceiveEnd, ReceiveNothing, ReceiveBad, reading
  <1>2. GoodOK' /\ RunOK'
    BY <1>1 DEF HInv, GoodOK, RunOK, buffers, framework
  <1>3. CASE pollfeb
    <2>1. /\ pc = "board" /\ pc' = "receive" /\ poll' = poll + 1 /\ nevents' = 0
          /\ brought' = Append(brought, 0) /\ UNCHANGED <<dtp, processed>>
      BY <1>3 DEF pollfeb
    <2>2. ArrayOK'
      BY <2>1, SameArray DEF HInv
    <2>3. /\ brought' \in Seq(Nat) /\ Len(brought') = poll + 1 /\ brought'[poll + 1] = 0
          /\ \A i \in 1 .. poll : brought'[i] = brought[i]
      BY <1>0, <2>1
    <2>4. BroughtOK'
      BY <1>0, <2>1, <2>3 DEF BroughtOK, AtBoard
    <2>5. Polled = poll /\ Polled' = poll
      BY <1>0, <2>1 DEF Polled, AtBoard
    <2>6. ASSUME NEW b \in FEBIDs PROVE Matched(b)'
      BY <1>0, <1>1, <2>1, <2>3, <2>5, SameMatched DEF HInv, buffers, framework
    <2> QED
      BY <1>2, <2>2, <2>4, <2>6 DEF HInv
  <1>4. CASE ~pollfeb
    <2>1. /\ pc = "receive" /\ poll' = poll /\ poll \in Nat \ {0}
          /\ \/ brought' = brought
             \/ brought' = [brought EXCEPT ![poll] = nevents] /\ pc' = "wait" /\ nevents' = nevents
      BY <1>0, <1>4 DEF GetFEBData, ReceiveData, ReceiveEnd, ReceiveNothing, ReceiveBad,
                        AfterTimeout, reading, history, AtBoard
    <2>2. /\ brought' \in Seq(Nat) /\ Len(brought') = poll
          /\ \A i \in 1 .. poll - 1 : brought'[i] = brought[i]
      BY <1>0, <2>1
    <2>3. Polled = poll - 1 /\ Polled' \in Nat /\ Polled \in Nat /\ Polled <= Polled'
      BY <1>1, <2>1 DEF Polled, AtBoard
    <2>4. processed \subseteq processed'
      BY <1>4 DEF GetFEBData, ReceiveData, ReceiveEnd, ReceiveNothing, ReceiveBad, history
    <2>5. ASSUME NEW b \in FEBIDs PROVE Matched(b)'
      <3>1. pc \notin {"dropped", "events"} /\ pc' \notin {"dropped", "events"} /\ run' = run
        BY <1>1, <2>1 DEF framework
      <3>2. /\ buffer' = buffer /\ timebuffer' = timebuffer /\ droppedbuffer' = droppedbuffer
            /\ Matched(b)
        BY <1>1 DEF buffers, HInv
      <3> QED
        BY <2>2, <2>3, <2>4, <3>1, <3>2, SameMatched
    <2>6. BroughtOK'
      <3>1. CASE ReceiveData
        BY <1>0, <2>1, <2>2, <3>1 DEF ReceiveData, HInv, BroughtOK, AtBoard
      <3>2. CASE ReceiveEnd
        <4>1. brought'[poll] = nevents /\ nevents' = nevents /\ pc' = "wait"
          BY <1>0, <2>1, <3>2 DEF ReceiveEnd, reading
        <4> QED
          BY <2>1, <2>2, <4>1 DEF BroughtOK, AtBoard
      <3>3. CASE ReceiveNothing
        <4>1. brought' = brought /\ brought[poll] = 0 /\ nevents' = 0 /\ pc' = "wait"
          BY <2>1, <3>3 DEF ReceiveNothing, AfterTimeout, history, HInv, BroughtOK
        <4> QED
          BY <2>1, <2>2, <4>1 DEF BroughtOK, AtBoard
      <3>4. CASE ReceiveBad
        BY <2>1, <2>2, <3>4 DEF ReceiveBad, BroughtOK, AtBoard
      <3> QED
        BY <1>4, <3>1, <3>2, <3>3, <3>4 DEF GetFEBData
    <2>7. ArrayOK'
      <3>1. CASE ReceiveEnd \/ ReceiveNothing \/ ReceiveBad
        <4>1. /\ dtp' = dtp /\ (UNCHANGED <<feb, poll, nevents>> \/ nevents' = 0)
          BY <3>1 DEF ReceiveEnd, ReceiveNothing, ReceiveBad, AfterTimeout, reading
        <4> QED
          BY <2>1, <2>4, <4>1, SameArray DEF HInv, AtBoard
      <3>2. CASE ReceiveData
        <4> DEFINE Received(n, refs) ==
              /\ dtp' = [i \in 1 .. DTP |->
                           IF i - nevents \in 1 .. n THEN Packet(n, refs)[i - nevents]
                           ELSE dtp[i]]
              /\ IF nevents + n > DTP
                 THEN pc' = "off" /\ UNCHANGED <<nevents, processed>>
                 ELSE /\ nevents' = nevents + n
                      /\ processed' = processed \cup {dtp'[nevents + i] : i \in 1 .. n}
                      /\ UNCHANGED pc
        <4>a. PICK n \in 1 .. MaxPacket : \E refs \in SUBSET (1 .. n) : Received(n, refs)
          BY <3>2 DEF ReceiveData
        <4>b. PICK refs \in SUBSET (1 .. n) : Received(n, refs)
          BY <4>a
        <4>1. /\ dtp' = [i \in 1 .. DTP |->
                           IF i - nevents \in 1 .. n THEN Packet(n, refs)[i - nevents]
                           ELSE dtp[i]]
              /\ \/ pc' = "off"
                 \/ /\ nevents + n <= DTP /\ nevents' = nevents + n /\ pc' = pc
                    /\ processed' = processed \cup {dtp'[nevents + i] : i \in 1 .. n}
          BY <1>0, <4>b
        <4> HIDE DEF Received
        <4>2. ASSUME NEW i \in 1 .. DTP, i - nevents \in 1 .. n
              PROVE  dtp'[i].feb = feb /\ dtp'[i].poll = poll /\ dtp'[i].no = i
          <5>1. nevents + (i - nevents) = i
            BY <1>0
          <5>2. dtp'[i] = Event(feb, poll, nevents + (i - nevents), (i - nevents) \in refs)
            BY <4>1, <4>2 DEF Packet
          <5> QED
            BY <5>1, <5>2 DEF Event
        <4>3. ASSUME NEW i \in 1 .. DTP, i - nevents \notin 1 .. n PROVE dtp'[i] = dtp[i]
          BY <4>1, <4>3
        <4>4. \A i \in 1 .. DTP : dtp'[i].no = i
          BY <4>2, <4>3 DEF HInv, ArrayOK
        <4>5. ASSUME pc' \in AtBoard, NEW i \in 1 .. nevents'
              PROVE  dtp'[i].feb = feb' /\ dtp'[i].poll = poll' /\ dtp'[i] \in processed'
          <5>1. /\ nevents' = nevents + n /\ nevents + n <= DTP
                /\ processed' = processed \cup {dtp'[nevents + j] : j \in 1 .. n}
            BY <4>1, <4>5 DEF AtBoard
          <5>2. CASE i \in 1 .. nevents
            <6>1. i \in 1 .. DTP /\ i - nevents \notin 1 .. n
              BY <1>0, <5>2
            <6>2. dtp[i].feb = feb /\ dtp[i].poll = poll /\ dtp[i] \in processed
              BY <2>1, <5>2 DEF HInv, ArrayOK, AtBoard
            <6> QED
              BY <1>1, <2>1, <2>4, <4>3, <6>1, <6>2
          <5>3. CASE i \notin 1 .. nevents
            <6>1. /\ i \in 1 .. DTP /\ i - nevents \in 1 .. n /\ nevents + (i - nevents) = i
              BY <1>0, <5>1, <5>3
            <6>2. dtp'[i] \in processed'
              <7>1. PICK j \in 1 .. n : nevents + j = i
                BY <6>1
              <7> QED
                BY <5>1, <7>1
            <6> QED
              BY <1>1, <2>1, <4>2, <6>1, <6>2
          <5> QED
            BY <5>2, <5>3
        <4> QED
          BY <4>4, <4>5 DEF ArrayOK
      <3> QED
        BY <1>4, <3>1, <3>2 DEF GetFEBData
    <2> QED
      BY <1>2, <2>5, <2>6, <2>7 DEF HInv
  <1> QED
    BY <1>3, <1>4

\* Steps that change neither the buffers nor what is being read.
LEMMA QuietHInv ==
  ASSUME Inv, HInv, UNCHANGED <<dtp, nevents, good_events, poll, buffers, history, run>>,
         UNCHANGED <<pc, feb>> \/ (pc \notin AtBoard /\ pc' \notin AtBoard),
         run = 0 => cpc' \in {"constructing", "stopped"}
  PROVE  HInv'
  <1>1. ArrayOK'
    BY SameArray DEF HInv, history
  <1>2. BroughtOK' /\ GoodOK' /\ RunOK'
    BY DEF HInv, BroughtOK, GoodOK, Good, RunOK, AtBoard, history, buffers
  <1>3. ASSUME NEW b \in FEBIDs PROVE Matched(b)'
    <2>1. poll \in Nat /\ (pc \in AtBoard => poll > 0)
      BY DEF Inv, TypeOK, HInv, BroughtOK
    <2>2. Polled' = Polled /\ Polled \in Nat
      BY <2>1 DEF Polled
    <2>3. \/ UNCHANGED <<pc, feb, good_events, nevents, poll>>
          \/ /\ ~(feb = b /\ pc \in {"dropped", "events"})
             /\ ~(feb' = b /\ pc' \in {"dropped", "events"})
      BY DEF AtBoard
    <2>4. /\ buffer' = buffer /\ timebuffer' = timebuffer /\ droppedbuffer' = droppedbuffer
          /\ brought' = brought /\ processed' = processed /\ run' = run /\ Matched(b)
      BY DEF buffers, history, HInv
    <2> QED
      BY <2>2, <2>3, <2>4, SameMatched
  <1> QED
    BY <1>1, <1>2, <1>3 DEF HInv

LEMMA GetDataHInv == Inv /\ HInv /\ (GetDataSetup \/ Skip \/ GetDataComplete) => HInv'
  <1> SUFFICES ASSUME Inv, HInv, GetDataSetup \/ Skip \/ GetDataComplete PROVE HInv'
    OBVIOUS
  <1>1. /\ UNCHANGED <<dtp, nevents, good_events, poll, buffers, history, run, cpc>>
        /\ pc \notin AtBoard /\ pc' \notin AtBoard
    BY DEF GetDataSetup, Skip, GetDataComplete, reading, framework, AtBoard
  <1> QED
    BY <1>1, QuietHInv DEF HInv, RunOK

\* The boards whose buffers a step of an insertion leaves alone.
LEMMA OtherMatched ==
  ASSUME Inv, HInv, pc \in AtBoard, poll' = poll, run' = run, UNCHANGED history,
         \/ feb' = feb /\ pc' \in AtBoard
         \/ pc' = "board",
         NEW b \in FEBIDs, b # feb,
         buffer'[b] = buffer[b], timebuffer'[b] = timebuffer[b],
         droppedbuffer'[b] = droppedbuffer[b]
  PROVE  Matched(b)'
  <1>1. poll \in Nat /\ poll > 0 /\ Matched(b)
    BY DEF Inv, TypeOK, HInv, BroughtOK
  <1>2. Polled \in Nat /\ Polled' \in Nat /\ Polled <= Polled'
    BY <1>1 DEF Polled
  <1>3. /\ ~(feb = b /\ pc \in {"dropped", "events"})
        /\ ~(feb' = b /\ pc' \in {"dropped", "events"})
    OBVIOUS
  <1>4. brought' = brought /\ processed' = processed
    BY DEF history
  <1> QED
    BY <1>1, <1>2, <1>3, <1>4, SameMatched

\* The events an insertion adds, and their drops.
LEMMA InsertedNew ==
  ASSUME Inv, HInv, pc \in {"times", "dropped", "events"},
         NEW nb, nb = SubSeq(dtp, 1, good_events),
         NEW nt, nt = Copies(good_events, poll)
  PROVE  /\ nb \in Seq(Events) /\ Len(nb) = good_events
         /\ nt \in Seq(Nat) /\ Len(nt) = good_events
         /\ NewEvents(feb, nb, nt, poll, processed)
  <1>1. /\ good_events \in 1 .. DTP /\ poll \in Nat /\ nevents \in 0 .. DTP
        /\ dtp \in Seq(Events) /\ Len(dtp) = DTP /\ DTP \in Nat
    BY Constants DEF Inv, TypeOK
  <1>2. /\ nb \in Seq(Events) /\ Len(nb) = good_events
        /\ \A k \in 1 .. good_events : nb[k] = dtp[k]
    BY <1>1
  <1>3. /\ nt \in Seq(Nat) /\ Len(nt) = good_events
        /\ \A k \in 1 .. good_events : nt[k] = poll
    BY <1>1 DEF Copies
  <1>4. ASSUME NEW k \in 1 .. good_events PROVE nb[k].no = k
    BY <1>1, <1>2 DEF HInv, ArrayOK
  <1>5. ASSUME NEW k \in 1 .. good_events, k > 1
        PROVE  nb[k].feb = feb /\ nb[k].poll = poll /\ nb[k] \in processed
    <2>1. good_events \in Good
      BY DEF HInv, GoodOK
    <2>2. k \in 1 .. nevents
      BY <1>1, <1>5, <2>1 DEF Good
    <2> QED
      BY <1>2, <2>2 DEF HInv, ArrayOK, AtBoard
  <1>6. poll > 0
    BY DEF HInv, BroughtOK, AtBoard
  <1> QED
    BY <1>2, <1>3, <1>4, <1>5, <1>6 DEF NewEvents

\* Modulo 2^32, the number of good events and the drops make up what was read.
LEMMA DropsMakeUp ==
  ASSUME NEW w \in Nat \ {0}, NEW n \in Nat, n < w, NEW g \in Nat \ {0},
         g <= n \/ (n = 0 /\ g = 1)
  PROVE  (g + ((n - g) % w)) % w = n
  <1>1. CASE g <= n
    <2>1. n - g \in Nat /\ n - g < w
      BY <1>1
    <2>2. (n - g) % w = n - g
      BY <2>1, Z3
    <2>3. g + (n - g) = n
      OBVIOUS
    <2>4. n % w = n
      BY Z3
    <2> QED
      BY <2>2, <2>3, <2>4, Zenon
  <1>2. CASE n = 0 /\ g = 1
    <2>1. (-1) % w = w - 1
      BY Z3
    <2>2. 1 + (w - 1) = w /\ 0 - 1 = -1
      OBVIOUS
    <2>3. w % w = 0
      BY Z3
    <2> QED
      BY <1>2, <2>1, <2>2, <2>3, Zenon
  <1> QED
    BY <1>1, <1>2

LEMMA DroppedNew ==
  ASSUME Inv, HInv, pc \in {"times", "dropped", "events"},
         NEW nb, nb = SubSeq(dtp, 1, good_events), NEW nd, Len(nd) = good_events,
         \A k \in 1 .. good_events - 1 : nd[k] = 0,
         nd[good_events] = (nevents - good_events) % WIDTH
  PROVE  NewDrops(nb, nd, poll, brought)
  <1>1. /\ good_events \in 1 .. DTP /\ nevents \in 0 .. DTP /\ DTP \in Nat /\ DTP < WIDTH
        /\ WIDTH \in Nat \ {0} /\ brought[poll] = nevents /\ good_events \in Good
    BY Constants, WIDTHAssumption DEF Inv, TypeOK, HInv, BroughtOK, AtBoard, GoodOK
  <1>2. nb[good_events].no = good_events /\ Len(nb) = good_events
    BY <1>1, InsertedNew DEF NewEvents
  <1>3. (good_events + ((nevents - good_events) % WIDTH)) % WIDTH = nevents
    <2>1. /\ nevents \in Nat /\ nevents < WIDTH /\ good_events \in Nat \ {0}
          /\ good_events <= nevents \/ (nevents = 0 /\ good_events = 1)
      BY <1>1 DEF Good
    <2> QED
      BY <1>1, <2>1, DropsMakeUp, Zenon
  <1>4. (nb[good_events].no + nd[good_events]) % WIDTH = brought[poll]
    BY <1>1, <1>2, <1>3, Zenon
  <1>5. ASSUME NEW k \in 1 .. Len(nb), k # Len(nb) PROVE nd[k] = 0
    <2>1. k \in 1 .. good_events - 1
      BY <1>1, <1>2, <1>5
    <2> QED
      BY <2>1
  <1> QED
    BY <1>2, <1>4, <1>5, Zenon DEF NewDrops

\* The steps of an insertion that leave the events of its board alone.
LEMMA InsertingMatched ==
  ASSUME Inv, HInv, pc \in {"times", "dropped"}, pc' \in {"dropped", "events"},
         UNCHANGED <<reading, buffer, history, run>>,
         NEW b \in FEBIDs, b = feb,
         \A t \in Seq(Nat) : TimesBefore(b, t) => TimesBefore(b, t)',
         \A d \in Seq(Nat) : DropsBefore(b, d) => DropsBefore(b, d)'
  PROVE  Matched(b)'
  <1>1. Polled' = Polled /\ buffer' = buffer /\ run' = run
        /\ processed' = processed /\ brought' = brought
    BY DEF Polled, AtBoard, reading, history
  <1>2. PICK t \in Seq(Nat), d \in Seq(Nat) :
          /\ TimesBefore(b, t) /\ DropsBefore(b, d)
          /\ Stamped(b, buffer[b], t, Polled, processed)
          /\ run < 2 => Counted(buffer[b], t, d, brought)
    BY DEF HInv, Matched
  <1>3. TimesBefore(b, t)' /\ DropsBefore(b, d)'
    BY <1>2
  <1>4. /\ Stamped(b, buffer'[b], t, Polled', processed')
        /\ run' < 2 => Counted(buffer'[b], t, d, brought')
    BY <1>1, <1>2
  <1> QED
    BY <1>3, <1>4 DEF Matched

\* Of n elements, o leave and l stay when g come: they find room, unless one comes
\* into a full buffer.
Room(o, l, n, g) ==
  /\ o + l = n /\ l + g <= CAP
  /\ o = 0 \/ (g = 1 /\ l + g = CAP /\ n = CAP)

\* The two pushes of the drops add as many as events are added.
LEMMA DropsExtend ==
  ASSUME NEW d \in Seq(Nat), NEW x \in Nat, NEW g \in Nat \ {0},
         NEW o \in Nat, NEW l \in Nat, Room(o, l, Len(d), g),
         NEW nd \in Seq(Nat), Len(nd) = g, \A k \in 1 .. g - 1 : nd[k] = 0, nd[g] = x
  PROVE  Extends(d, o, l, nd, Push(Push(d, Copies(g - 1, 0)), <<x>>))
  <1>1. PICK zeros \in Seq(Nat) : /\ zeros = Copies(g - 1, 0) /\ Len(zeros) = g - 1
                                  /\ \A k \in 1 .. g - 1 : zeros[k] = 0
    <2>1. g - 1 \in Nat
      OBVIOUS
    <2>2. Copies(g - 1, 0) \in Seq(Nat) /\ Len(Copies(g - 1, 0)) = g - 1
      BY <2>1, CopiesLength
    <2>3. \A k \in 1 .. g - 1 : Copies(g - 1, 0)[k] = 0
      BY DEF Copies
    <2> QED
      BY <2>2, <2>3
  <1>2. PICK n \in Nat, c \in Nat :
          /\ n = Len(d) /\ c = CAP /\ o + l = n /\ l + g <= c
          /\ o = 0 \/ (g = 1 /\ l + g = c /\ n = c)
    <2>1. Len(d) \in Nat /\ CAP \in Nat
      BY Constants
    <2> QED
      BY <2>1, Zenon DEF Room
  <1>3. PICK d1 : d1 = Push(d, zeros)
    OBVIOUS
  <1>4. d1 \in Seq(Nat)
    BY <1>1, <1>3, PushLength
  <1>5. Extends(d, 0, n, zeros, d1)
    <2>1. 0 + n = Len(d) /\ n + Len(zeros) <= CAP
      BY <1>1, <1>2
    <2>2. 0 \in Nat /\ (0 = 0 \/ n + Len(zeros) = CAP)
      OBVIOUS
    <2>3. Extends(d, 0, n, zeros, Push(d, zeros))
      BY <1>1, <1>2, <2>1, <2>2, PushExtends
    <2> QED
      BY <1>3, <2>3
  <1>r. o + l = n /\ l + g <= c /\ (o = 0 \/ (g = 1 /\ l + g = c))
    BY <1>2, Zenon
  <1>6. PICK l2 \in Nat : l2 = l + (g - 1)
    OBVIOUS
  <1>7. PICK one \in Seq(Nat) : one = <<x>> /\ Len(one) = 1 /\ one[1] = x
    <2>1. <<x>> \in Seq(Nat) /\ Len(<<x>>) = 1 /\ <<x>>[1] = x
      OBVIOUS
    <2> QED
      BY <2>1, Zenon
  <1>8. PICK d2 : d2 = Push(d1, one)
    OBVIOUS
  <1>9. Extends(d1, o, l2, one, d2)
    <2>1. Len(d1) = n + (g - 1)
      BY <1>1, <1>5 DEF Extends
    <2>2. o + l2 = Len(d1) /\ l2 + Len(one) <= CAP /\ (o = 0 \/ l2 + Len(one) = CAP)
      <3>1. o + l2 = n + (g - 1) /\ l2 + 1 <= c /\ (o = 0 \/ l2 + 1 = c)
        BY <1>r, <1>6
      <3> QED
        BY <1>2, <1>7, <2>1, <3>1, Zenon
    <2>3. Extends(d1, o, l2, one, Push(d1, one))
      BY <1>4, <1>7, <2>2, PushExtends
    <2> QED
      BY <1>8, <2>3
  <1>10. Len(d2) = l + Len(nd)
    BY <1>6, <1>7, <1>9 DEF Extends
  <1>11. ASSUME NEW i \in 1 .. l2 PROVE d2[i] = d1[i + o]
    BY <1>9 DEF Extends
  <1>12. ASSUME NEW i \in 1 .. l PROVE d2[i] = d[i + o]
    <2>1. i \in 1 .. l2 /\ i + o \in 1 .. n /\ (i + o) + 0 = i + o
      BY <1>2, <1>6
    <2>2. d1[i + o] = d[(i + o) + 0]
      BY <1>5, <2>1, Zenon DEF Extends
    <2> QED
      BY <1>11, <2>1, <2>2
  <1>13. ASSUME NEW k \in 1 .. g PROVE d2[l + k] = nd[k]
    <2>1. CASE k = g
      <3>1. l + k = l2 + 1 /\ 1 \in 1 .. Len(one)
        BY <1>6, <1>7, <2>1
      <3>2. d2[l2 + 1] = one[1]
        BY <1>9, <3>1, Zenon DEF Extends
      <3> QED
        BY <1>7, <2>1, <3>1, <3>2
    <2>2. CASE k # g
      <3>1. k \in 1 .. g - 1 /\ l + k \in 1 .. l2 /\ (l + k) + o = n + k
        BY <1>r, <1>6, <2>2
      <3>2. d1[n + k] = zeros[k]
        BY <1>1, <1>5, <3>1 DEF Extends
      <3> QED
        BY <1>1, <1>11, <3>1, <3>2
    <2> QED
      BY <2>1, <2>2
  <1>14. Extends(d, o, l, nd, d2)
    <2>1. o + l = Len(d)
      BY DEF Room
    <2> QED
      BY <1>10, <1>12, <1>13, <2>1 DEF Extends
  <1> QED
    BY <1>1, <1>3, <1>7, <1>8, <1>14, Zenon

LEMMA InsertEventsMatched ==
  ASSUME Inv, HInv, InsertEvents, NEW b \in FEBIDs, b = feb
  PROVE  Matched(b)'
  <1>1. /\ pc = "events" /\ pc' = "board"
        /\ buffer' = [buffer EXCEPT ![feb] = Push(@, SubSeq(dtp, 1, good_events))]
        /\ UNCHANGED <<poll, timebuffer, droppedbuffer, framework, history>>
    BY DEF InsertEvents
  <1>2. /\ poll \in Nat /\ poll > 0 /\ good_events \in Nat \ {0} /\ nevents \in Nat
        /\ buffer[b] \in Seq(Events) /\ droppedbuffer[b] \in Seq(Nat)
    BY <1>1, Constants DEF Inv, TypeOK, HInv, BroughtOK, AtBoard
  <1>3. PICK p \in Nat, p2 \in Nat \ {0} : p = poll - 1 /\ p2 = poll /\ p < p2 /\ p <= p2
    BY <1>2
  <1>4. Polled = p /\ Polled' = p2
    BY <1>1, <1>3 DEF Polled, AtBoard
  <1>5. PICK t \in Seq(Nat), d \in Seq(Nat) :
          /\ TimesBefore(b, t) /\ DropsBefore(b, d)
          /\ Stamped(b, buffer[b], t, Polled, processed)
          /\ run < 2 => Counted(buffer[b], t, d, brought)
    BY DEF HInv, Matched
  <1>6. PICK B \in Seq(Events), g \in Nat \ {0} : B = buffer[b] /\ g = good_events
    BY <1>2
  <1>7. PICK nb, nt : nb = SubSeq(dtp, 1, good_events) /\ nt = Copies(good_events, poll)
    OBVIOUS
  <1>8. /\ nb \in Seq(Events) /\ Len(nb) = good_events
        /\ nt \in Seq(Nat) /\ Len(nt) = good_events
        /\ NewEvents(feb, nb, nt, poll, processed)
    BY <1>1, <1>7, InsertedNew
  <1>9. PICK o \in Nat, l \in Nat :
          /\ Room(o, l, Len(B), g)
          /\ o + l = Len(B) /\ l + g <= CAP /\ (o = 0 \/ l + g = CAP)
    <2>1. good_events \in Good /\ Len(B) + nevents <= CAP
      BY <1>1, <1>6 DEF HInv, GoodOK
    <2>2. g <= nevents \/ (nevents = 0 /\ g = 1)
      BY <1>2, <1>6, <2>1 DEF Good
    <2>3. PICK n \in Nat, c \in Nat \ {0} : n = Len(B) /\ c = CAP
      BY Constants
    <2>4. n + g <= c \/ (g = 1 /\ n = c)
      BY <1>2, <2>1, <2>2, <2>3
    <2>5. CASE n + g <= c
      <3>1. 0 + n = n
        OBVIOUS
      <3> QED
        BY <2>3, <2>5, <3>1 DEF Room
    <2>6. CASE g = 1 /\ n = c
      <3>1. c - 1 \in Nat /\ 1 + (c - 1) = c /\ (c - 1) + g = c
        BY <2>6
      <3>2. /\ Room(1, c - 1, Len(B), g) /\ 1 + (c - 1) = Len(B)
            /\ (c - 1) + g <= CAP /\ (c - 1) + g = CAP
        <4>1. (c - 1) + g <= c
          BY <3>1
        <4> QED
          BY <2>3, <2>6, <3>1, <4>1, Zenon DEF Room
      <3> QED
        BY <3>1, <3>2, Zenon
    <2> QED
      BY <2>4, <2>5, <2>6
  <1>10. Len(t) = Len(B) /\ Stamped(b, B, t, p, processed)
    BY <1>4, <1>5, <1>6, StampedTypes
  <1>11. Extends(B, o, l, nb, Push(B, nb))
    BY <1>6, <1>8, <1>9, PushExtends
  <1>12. Extends(t, o, l, nt, Push(t, nt))
    BY <1>6, <1>8, <1>9, <1>10, PushExtends
  <1>13. /\ buffer'[b] = Push(B, nb) /\ timebuffer'[b] = Push(t, nt)
         /\ droppedbuffer'[b] = droppedbuffer[b]
    <2>1. timebuffer[b] = Push(t, nt)
      BY <1>1, <1>5, <1>7 DEF TimesBefore
    <2>2. buffer'[b] = Push(B, nb)
      BY <1>1, <1>6, <1>7 DEF Inv, TypeOK
    <2> QED
      BY <1>1, <2>1, <2>2
  <1>14. Stamped(b, Push(B, nb), Push(t, nt), p2, processed)
    <2>1. NewEvents(b, nb, nt, p2, processed)
      BY <1>3, <1>8
    <2> QED
      BY <1>3, <1>8, <1>10, <1>11, <1>12, <2>1, StampedExtends
  <1>15. run < 2 => Counted(Push(B, nb), Push(t, nt), droppedbuffer[b], brought)
    <2> SUFFICES ASSUME run < 2
                 PROVE  Counted(Push(B, nb), Push(t, nt), droppedbuffer[b], brought)
      OBVIOUS
    <2>1. Counted(B, t, d, brought) /\ Len(d) = Len(B)
      BY <1>5, <1>6 DEF Counted
    <2>2. PICK x \in Nat : x = (nevents - good_events) % WIDTH
      <3>1. nevents - good_events \in Int /\ WIDTH \in Nat \ {0}
        BY <1>2, Constants
      <3>2. ((nevents - good_events) % WIDTH) \in 0 .. WIDTH - 1
        BY <3>1, Remainder
      <3>3. 0 .. WIDTH - 1 \subseteq Nat
        OBVIOUS
      <3> QED
        BY <3>2, <3>3, Zenon
    <2>3. PICK nd \in Seq(Nat) : /\ Len(nd) = g /\ nd[g] = x
                                 /\ \A k \in 1 .. g - 1 : nd[k] = 0
      <3> DEFINE drops == [k \in 1 .. g |-> IF k = g THEN x ELSE 0]
      <3>1. drops \in Seq(Nat) /\ Len(drops) = g /\ drops[g] = x
        OBVIOUS
      <3>2. \A k \in 1 .. g - 1 : drops[k] = 0
        OBVIOUS
      <3> QED
        BY <3>1, <3>2
    <2>4. Extends(d, o, l, nd, Push(Push(d, Copies(g - 1, 0)), <<x>>))
      BY <1>9, <2>1, <2>3, DropsExtend
    <2>5. droppedbuffer[b] = Push(Push(d, Copies(g - 1, 0)), <<x>>)
      BY <1>1, <1>5, <1>6, <2>2, Zenon DEF DropsBefore
    <2>6. Extends(d, o, l, nd, droppedbuffer[b])
      BY <2>4, <2>5, Zenon
    <2>7. NewDrops(nb, nd, p2, brought)
      <3>1. NewDrops(nb, nd, poll, brought)
        BY <1>1, <1>6, <1>7, <2>2, <2>3, DroppedNew
      <3> QED
        BY <1>3, <3>1
    <2>8. NewEvents(b, nb, nt, p2, processed)
      BY <1>3, <1>8
    <2> QED
      BY <1>3, <1>8, <1>10, <1>11, <1>12, <2>1, <2>6, <2>7, <2>8, CountedExtends
  <1>17. Push(t, nt) \in Seq(Nat) /\ droppedbuffer[b] \in Seq(Nat)
    BY <1>2, <1>8, PushLength
  <1>18. PICK t2 \in Seq(Nat), d2 \in Seq(Nat) : t2 = Push(t, nt) /\ d2 = droppedbuffer[b]
    BY <1>17
  <1>19. TimesBefore(b, t2)' /\ DropsBefore(b, d2)'
    <2>1. timebuffer'[b] = t2 /\ droppedbuffer'[b] = d2
      BY <1>13, <1>18
    <2> QED
      BY <1>1, <2>1 DEF TimesBefore, DropsBefore
  <1>20. /\ Stamped(b, buffer'[b], t2, Polled', processed')
         /\ run' < 2 => Counted(buffer'[b], t2, d2, brought')
    BY <1>1, <1>4, <1>13, <1>14, <1>15, <1>18 DEF history, framework
  <1> QED
    BY <1>19, <1>20 DEF Matched

LEMMA InsertEventsHInv ==
  ASSUME Inv, HInv, InsertEvents
  PROVE  HInv'
  <1>1. /\ pc = "events" /\ pc' = "board" /\ nevents' = 0 /\ good_events' = 0
        /\ buffer' = [buffer EXCEPT ![feb] = Push(@, SubSeq(dtp, 1, good_events))]
        /\ UNCHANGED <<dtp, poll, timebuffer, droppedbuffer, framework, history>>
    BY DEF InsertEvents
  <1>2. ArrayOK'
    BY <1>1, SameArray DEF HInv, history
  <1>3. BroughtOK' /\ GoodOK' /\ RunOK'
    BY <1>1 DEF HInv, BroughtOK, GoodOK, RunOK, AtBoard, history, framework
  <1>4. ASSUME NEW b \in FEBIDs, b # feb PROVE Matched(b)'
    <2>1. /\ buffer'[b] = buffer[b] /\ timebuffer'[b] = timebuffer[b]
          /\ droppedbuffer'[b] = droppedbuffer[b]
      BY <1>1, <1>4 DEF Inv, TypeOK
    <2> QED
      BY <1>1, <1>4, <2>1, OtherMatched DEF AtBoard, framework
  <1> QED
    BY <1>2, <1>3, <1>4, InsertEventsMatched DEF HInv

LEMMA InsertHInv == Inv /\ HInv /\ InsertIntoFEBBuffer => HInv'
  <1> SUFFICES ASSUME Inv, HInv, InsertIntoFEBBuffer PROVE HInv'
    OBVIOUS
  <1>1. CASE WaitForCapacity
    <2>1. UNCHANGED <<dtp, nevents, good_events, poll, buffers, history, run, pc, feb, cpc>>
      BY <1>1 DEF WaitForCapacity, vars, reading, framework
    <2> QED
      BY <2>1, QuietHInv DEF HInv, RunOK
  <1>2. CASE StartInsert
    <2>1. /\ pc = "wait" /\ pc' = "times" /\ HasCapacity /\ good_events' \in Good
          /\ UNCHANGED <<feb, dtp, nevents, poll, buffers, framework, history>>
      BY <1>2 DEF StartInsert
    <2>2. ArrayOK'
      BY <2>1, SameArray DEF HInv, AtBoard, history
    <2>3. BroughtOK' /\ RunOK'
      BY <2>1 DEF HInv, BroughtOK, RunOK, AtBoard, history, buffers, framework
    <2>4. GoodOK'
      <3>1. Len(buffer[feb]) \in Nat /\ nevents \in Nat /\ CAP \in Nat
        BY <2>1, Constants DEF Inv, TypeOK, AtBoard
      <3>2. Len(buffer[feb]) + nevents <= CAP
        BY <2>1, <3>1 DEF HasCapacity
      <3> QED
        BY <2>1, <3>2 DEF GoodOK, Good, buffers
    <2>5. ASSUME NEW b \in FEBIDs PROVE Matched(b)'
      <3>1. poll \in Nat /\ poll > 0
        BY <2>1 DEF Inv, TypeOK, HInv, BroughtOK, AtBoard
      <3>2. Polled' = Polled /\ Polled \in Nat
        BY <2>1, <3>1 DEF Polled, AtBoard
      <3>3. /\ buffer' = buffer /\ timebuffer' = timebuffer /\ droppedbuffer' = droppedbuffer
            /\ brought' = brought /\ processed' = processed /\ run' = run /\ Matched(b)
        BY <2>1 DEF buffers, history, framework, HInv
      <3> QED
        BY <2>1, <3>2, <3>3, SameMatched
    <2> QED
      BY <2>2, <2>3, <2>4, <2>5 DEF HInv
  <1>3. CASE InsertTimes
    <2>1. /\ pc = "times" /\ pc' = "dropped"
          /\ timebuffer' = [timebuffer EXCEPT ![feb] = Push(@, Copies(good_events, poll))]
          /\ UNCHANGED <<reading, buffer, droppedbuffer, framework, history>>
      BY <1>3 DEF InsertTimes, TimesInserted
    <2>2. ArrayOK'
      BY <2>1, SameArray DEF HInv, AtBoard, history, reading
    <2>3. BroughtOK' /\ GoodOK' /\ RunOK'
      BY <2>1 DEF HInv, BroughtOK, GoodOK, Good, RunOK, AtBoard, history, reading, framework
    <2>4. ASSUME NEW b \in FEBIDs PROVE Matched(b)'
      <3>1. timebuffer'[b] = IF b = feb THEN Push(timebuffer[b], Copies(good_events, poll))
                             ELSE timebuffer[b]
        BY <2>1 DEF Inv, TypeOK
      <3>2. CASE b = feb
        <4>1. ASSUME NEW t \in Seq(Nat), TimesBefore(b, t) PROVE TimesBefore(b, t)'
          BY <2>1, <3>1, <3>2, <4>1 DEF TimesBefore, reading
        <4>2. ASSUME NEW d \in Seq(Nat), DropsBefore(b, d) PROVE DropsBefore(b, d)'
          BY <2>1, <4>2 DEF DropsBefore
        <4> QED
          BY <2>1, <3>2, <4>1, <4>2, InsertingMatched DEF framework
      <3>3. CASE b # feb
        BY <2>1, <3>1, <3>3, OtherMatched DEF AtBoard, reading, framework
      <3> QED
        BY <3>2, <3>3
    <2> QED
      BY <2>2, <2>3, <2>4 DEF HInv
  <1>4. CASE InsertDropped
    <2>1. /\ pc = "dropped" /\ pc' = "events"
          /\ droppedbuffer' =
               [droppedbuffer EXCEPT
                  ![feb] = Push(Push(@, Copies(good_events - 1, 0)),
                                <<(nevents - good_events) % WIDTH>>)]
          /\ UNCHANGED <<reading, buffer, timebuffer, framework, history>>
      BY <1>4 DEF InsertDropped
    <2>2. ArrayOK'
      BY <2>1, SameArray DEF HInv, AtBoard, history, reading
    <2>3. BroughtOK' /\ GoodOK'
      BY <2>1 DEF HInv, BroughtOK, GoodOK, Good, AtBoard, history, reading
    <2>r. RunOK'
      BY <2>1 DEF HInv, Inv, RunOK, WorkerOff, framework
    <2>4. ASSUME NEW b \in FEBIDs PROVE Matched(b)'
      <3>1. droppedbuffer'[b] =
              IF b = feb THEN Push(Push(droppedbuffer[b], Copies(good_events - 1, 0)),
                                   <<(nevents - good_events) % WIDTH>>)
              ELSE droppedbuffer[b]
        BY <2>1, Zenon DEF Inv, TypeOK
      <3>2. CASE b = feb
        <4>1. ASSUME NEW t \in Seq(Nat), TimesBefore(b, t) PROVE TimesBefore(b, t)'
          BY <2>1, <4>1 DEF TimesBefore, reading
        <4>2. ASSUME NEW d \in Seq(Nat), DropsBefore(b, d) PROVE DropsBefore(b, d)'
          <5>1. droppedbuffer[b] = d
            BY <2>1, <4>2 DEF DropsBefore
          <5> QED
            BY <2>1, <3>1, <3>2, <5>1, Zenon DEF DropsBefore, reading
        <4> QED
          BY <2>1, <3>2, <4>1, <4>2, InsertingMatched DEF framework
      <3>3. CASE b # feb
        BY <2>1, <3>1, <3>3, OtherMatched DEF AtBoard, reading, framework
      <3> QED
        BY <3>2, <3>3
    <2> QED
      BY <2>2, <2>3, <2>r, <2>4 DEF HInv
  <1>5. CASE InsertEvents
    BY <1>5, InsertEventsHInv
  <1> QED
    BY <1>1, <1>2, <1>3, <1>4, <1>5 DEF InsertIntoFEBBuffer

-----------------------------------------------------------------------------
(* What stands beside the events: erasing, and the framework.               *)

LEMMA Nothing == <<>> \in Seq(Events) /\ <<>> \in Seq(Nat) /\ Len(<<>>) = 0
  OBVIOUS

LEMMA EraseMatched ==
  ASSUME Inv, HInv, EraseFromFEBBuffer, NEW b \in FEBIDs, b = gfeb
  PROVE  Matched(b)'
  <1>1. /\ ~Locked(b)
        /\ buffer' = [buffer EXCEPT ![b] = EraseBegin(@, i_gps)]
        /\ timebuffer' = [timebuffer EXCEPT ![b] = EraseBegin(@, i_gps)]
        /\ droppedbuffer' = [droppedbuffer EXCEPT ![b] = EraseBegin(@, i_gps)]
        /\ UNCHANGED <<pc, reading, framework, history>>
    BY DEF EraseFromFEBBuffer, TimesErased
  <1>2. /\ buffer'[b] = EraseBegin(buffer[b], i_gps)
        /\ timebuffer'[b] = EraseBegin(timebuffer[b], i_gps)
        /\ droppedbuffer'[b] = EraseBegin(droppedbuffer[b], i_gps)
    BY <1>1 DEF Inv, TypeOK
  <1>3. PICK t \in Seq(Nat), d \in Seq(Nat) :
          /\ TimesBefore(b, t) /\ DropsBefore(b, d)
          /\ Stamped(b, buffer[b], t, Polled, processed)
          /\ run < 2 => Counted(buffer[b], t, d, brought)
    BY DEF HInv, Matched
  <1>4. timebuffer[b] = t /\ droppedbuffer[b] = d
    BY <1>1, <1>3 DEF TimesBefore, DropsBefore, Locked
  <1>5. PICK B \in Seq(Events), n \in Nat, p \in Nat : B = buffer[b] /\ n = i_gps /\ p = Polled
    <2>1. buffer[b] \in Seq(Events) /\ i_gps \in Nat
      BY DEF Inv, TypeOK
    <2>2. Polled \in Nat
      BY DEF Polled, Inv, TypeOK, HInv, BroughtOK
    <2> QED
      BY <2>1, <2>2
  <1>6. Stamped(b, B, t, p, processed) /\ Len(t) = Len(B)
    BY <1>3, <1>5, StampedTypes
  <1>7. PICK o \in Nat, l \in Nat : o + l = Len(B) /\ o = Smaller(n, Len(B))
    <2>1. PICK m \in Nat : m = Len(B)
      OBVIOUS
    <2>2. Smaller(n, m) \in Nat /\ m - Smaller(n, m) \in Nat
      BY DEF Smaller
    <2>3. Smaller(n, m) + (m - Smaller(n, m)) = m
      BY <2>2
    <2> QED
      BY <2>1, <2>2, <2>3, Zenon
  <1>8. Extends(B, o, l, <<>>, EraseBegin(B, n))
    BY <1>7, EraseExtends
  <1>9. Extends(t, o, l, <<>>, EraseBegin(t, n))
    BY <1>6, <1>7, EraseExtends
  <1>10. PICK e \in Seq(Events), z \in Seq(Nat) : e = <<>> /\ z = <<>> /\ Len(e) = 0 /\ Len(z) = 0
    BY Nothing, Zenon
  <1>11. \A q \in Nat : NewEvents(b, e, z, q, processed) /\ NewDrops(e, z, q, brought)
    BY <1>10 DEF NewEvents, NewDrops
  <1>12. Stamped(b, EraseBegin(B, n), EraseBegin(t, n), p, processed)
    <2>1. Extends(B, o, l, e, EraseBegin(B, n)) /\ Extends(t, o, l, z, EraseBegin(t, n))
      BY <1>8, <1>9, <1>10, Zenon
    <2>2. p <= p
      OBVIOUS
    <2> QED
      BY <1>6, <1>11, <2>1, <2>2, StampedExtends
  <1>13. run < 2 => Counted(EraseBegin(B, n), EraseBegin(t, n), EraseBegin(d, n), brought)
    <2> SUFFICES ASSUME run < 2
                 PROVE  Counted(EraseBegin(B, n), EraseBegin(t, n), EraseBegin(d, n), brought)
      OBVIOUS
    <2>1. Counted(B, t, d, brought) /\ Len(d) = Len(B)
      BY <1>3, <1>5 DEF Counted
    <2>2. Extends(d, o, l, <<>>, EraseBegin(d, n))
      BY <1>7, <2>1, EraseExtends
    <2>3. /\ Extends(B, o, l, e, EraseBegin(B, n)) /\ Extends(t, o, l, z, EraseBegin(t, n))
          /\ Extends(d, o, l, z, EraseBegin(d, n))
      BY <1>8, <1>9, <1>10, <2>2, Zenon
    <2>4. PICK p2 \in Nat : p < p2
      <3>1. p + 1 \in Nat /\ p < p + 1
        OBVIOUS
      <3> QED
        BY <3>1
    <2>5. NewEvents(b, e, z, p2, processed) /\ NewDrops(e, z, p2, brought)
      BY <1>11
    <2> QED
      BY <1>6, <2>1, <2>3, <2>4, <2>5, CountedExtends
  <1>14. PICK t2 \in Seq(Nat), d2 \in Seq(Nat) : t2 = EraseBegin(t, n) /\ d2 = EraseBegin(d, n)
    BY EraseLength
  <1>15. TimesBefore(b, t2)' /\ DropsBefore(b, d2)'
    <2>1. timebuffer'[b] = t2 /\ droppedbuffer'[b] = d2
      BY <1>2, <1>4, <1>5, <1>14
    <2>2. ~(feb' = b /\ pc' \in {"dropped", "events"})
      BY <1>1 DEF Locked, reading
    <2> QED
      BY <2>1, <2>2 DEF TimesBefore, DropsBefore
  <1>16. /\ Stamped(b, buffer'[b], t2, Polled', processed')
         /\ run' < 2 => Counted(buffer'[b], t2, d2, brought')
    <2>1. /\ Polled' = p /\ processed' = processed /\ brought' = brought /\ run' = run
          /\ buffer'[b] = EraseBegin(B, n)
      BY <1>1, <1>2, <1>5 DEF Polled, reading, history, framework
    <2> QED
      BY <1>12, <1>13, <1>14, <2>1
  <1> QED
    BY <1>15, <1>16 DEF Matched

LEMMA FillFragmentHInv == Inv /\ HInv /\ FillFragment => HInv'
  <1> SUFFICES ASSUME Inv, HInv, FillFragment PROVE HInv'
    OBVIOUS
  <1>1. CASE NoFragment \/ FindReference \/ AddFragment
    <2>1. UNCHANGED <<dtp, nevents, good_events, poll, buffers, history, run, pc, feb, cpc>>
      BY <1>1 DEF NoFragment, FindReference, AddFragment, vars, reading, framework
    <2> QED
      BY <2>1, QuietHInv DEF HInv, RunOK
  <1>2. CASE EraseFromFEBBuffer
    <2>1. /\ ~Locked(gfeb) /\ gfeb \in FEBIDs /\ i_gps \in Nat
          /\ buffer' = [buffer EXCEPT ![gfeb] = EraseBegin(@, i_gps)]
          /\ timebuffer' = [timebuffer EXCEPT ![gfeb] = EraseBegin(@, i_gps)]
          /\ droppedbuffer' = [droppedbuffer EXCEPT ![gfeb] = EraseBegin(@, i_gps)]
          /\ UNCHANGED <<pc, reading, framework, history>>
      BY <1>2 DEF EraseFromFEBBuffer, TimesErased, Inv, TypeOK
    <2>2. ArrayOK'
      BY <2>1, SameArray DEF HInv, history, reading
    <2>3. BroughtOK'
      BY <2>1 DEF HInv, BroughtOK, AtBoard, history, reading
    <2>4. GoodOK'
      <3> SUFFICES ASSUME pc \in {"times", "dropped", "events"} PROVE GoodOK'
        BY <2>1 DEF GoodOK
      <3>1. feb # gfeb /\ feb \in FEBIDs
        BY <2>1 DEF Locked, Inv, TypeOK, AtBoard
      <3>2. buffer'[feb] = buffer[feb]
        BY <2>1, <3>1 DEF Inv, TypeOK
      <3> QED
        BY <2>1, <3>2 DEF HInv, GoodOK, Good, reading
    <2>5. RunOK'
      <3>1. ASSUME run = 0, NEW b \in FEBIDs PROVE droppedbuffer'[b] = <<>>
        <4>1. EraseBegin(<<>>, i_gps) = <<>>
          <5>1. PICK e \in Seq(Nat), n \in Nat : e = <<>> /\ Len(e) = 0 /\ n = i_gps
            BY <2>1, Nothing, Zenon
          <5>2. EraseBegin(e, n) \in Seq(Nat) /\ Len(EraseBegin(e, n)) = 0
            <6>1. /\ EraseBegin(e, n) \in Seq(Nat)
                  /\ Len(EraseBegin(e, n)) = IF n <= Len(e) THEN Len(e) - n ELSE 0
              BY EraseLength
            <6> QED
              BY <5>1, <6>1
          <5>3. EraseBegin(e, n) = <<>>
            BY <5>2
          <5> QED
            BY <5>1, <5>3, Zenon
        <4>2. droppedbuffer[b] = <<>> /\ droppedbuffer[gfeb] = <<>>
          BY <2>1, <3>1 DEF HInv, RunOK
        <4> QED
          BY <2>1, <4>1, <4>2 DEF Inv, TypeOK
      <3> QED
        BY <2>1, <3>1 DEF HInv, RunOK, framework
    <2>6. ASSUME NEW b \in FEBIDs, b # gfeb PROVE Matched(b)'
      <3>1. /\ buffer'[b] = buffer[b] /\ timebuffer'[b] = timebuffer[b]
            /\ droppedbuffer'[b] = droppedbuffer[b]
        BY <2>1, <2>6 DEF Inv, TypeOK
      <3>2. Polled \in Nat /\ Polled' = Polled
        BY <2>1 DEF Polled, Inv, TypeOK, HInv, BroughtOK, reading
      <3>3. /\ Matched(b) /\ run' = run /\ brought' = brought /\ processed' = processed
            /\ UNCHANGED <<pc, feb, good_events, nevents, poll>>
        BY <2>1 DEF HInv, framework, history, reading
      <3> QED
        BY <3>1, <3>2, <3>3, SameMatched
    <2> QED
      BY <1>2, <2>2, <2>3, <2>4, <2>5, <2>6, EraseMatched DEF HInv
  <1> QED
    BY <1>1, <1>2 DEF FillFragment

LEMMA CommandsHInv == Inv /\ HInv /\ Commands => HInv'
  <1> SUFFICES ASSUME Inv, HInv, Commands PROVE HInv'
    OBVIOUS
  <1>1. CASE Construct \/ stop \/ ConfigureStop
    <2>1. UNCHANGED <<dtp, nevents, good_events, poll, buffers, history, run, pc, feb>>
      BY <1>1 DEF Construct, stop, ConfigureStop, reading
    <2>2. run = 0 => cpc' \in {"constructing", "stopped"}
      BY <1>1 DEF Construct, stop, ConfigureStop, HInv, RunOK
    <2> QED
      BY <2>1, <2>2, QuietHInv
  <1>2. CASE start
    <2>1. /\ pc = "off" /\ pc' = "setup" /\ run' = run + 1
          /\ buffer' = [b \in FEBIDs |-> <<>>] /\ timebuffer' = [b \in FEBIDs |-> <<>>]
          /\ UNCHANGED <<reading, droppedbuffer, history>>
      BY <1>2 DEF start, Inv, WorkerOff
    <2>2. ArrayOK'
      BY <2>1, SameArray DEF HInv, AtBoard, history, reading
    <2>3. BroughtOK' /\ GoodOK'
      BY <2>1 DEF HInv, BroughtOK, GoodOK, AtBoard, history, reading
    <2>4. RunOK'
      BY <2>1 DEF HInv, RunOK
    <2>5. ASSUME NEW b \in FEBIDs PROVE Matched(b)'
      <3>1. PICK e \in Seq(Nat) : e = <<>> /\ Len(e) = 0
        BY Nothing, Zenon
      <3>2. buffer'[b] = e /\ timebuffer'[b] = e /\ droppedbuffer'[b] \in Seq(Nat)
        BY <2>1, <3>1 DEF Inv, TypeOK
      <3>3. PICK d \in Seq(Nat) : d = droppedbuffer'[b]
        BY <3>2
      <3>4. TimesBefore(b, e)' /\ DropsBefore(b, d)'
        BY <2>1, <3>2, <3>3 DEF TimesBefore, DropsBefore
      <3>5. Stamped(b, buffer'[b], e, Polled', processed')
        BY <3>1, <3>2 DEF Stamped
      <3>6. run' < 2 => Counted(buffer'[b], e, d, brought')
        <4>1. run' < 2 => d = e
          BY <2>1, <3>1, <3>3 DEF HInv, RunOK
        <4> QED
          BY <3>1, <3>2, <4>1 DEF Counted
      <3> QED
        BY <3>4, <3>5, <3>6 DEF Matched
    <2> QED
      BY <2>2, <2>3, <2>4, <2>5 DEF HInv
  <1> QED
    BY <1>1, <1>2 DEF Commands

LEMMA HInvNext == Inv /\ HInv /\ [Next]_vars => HInv'
  <1> SUFFICES ASSUME Inv, HInv, [Next]_vars PROVE HInv'
    OBVIOUS
  <1>1. CASE GetData
    BY <1>1, GetDataHInv, GetFEBDataHInv, InsertHInv DEF GetData
  <1>2. CASE FillFragment
    BY <1>2, FillFragmentHInv
  <1>3. CASE Commands
    BY <1>3, CommandsHInv
  <1>4. CASE UNCHANGED vars
    <2>1. UNCHANGED <<dtp, nevents, good_events, poll, buffers, history, run, pc, feb, cpc>>
      BY <1>4 DEF vars, reading, framework
    <2> QED
      BY <2>1, QuietHInv DEF HInv, RunOK
  <1> QED
    BY <1>1, <1>2, <1>3, <1>4 DEF Next

LEMMA HInvHolds == Spec => [](Inv /\ HInv)
  BY InitInv, NextInv, HInvInit, HInvNext, PTL DEF Spec

\* While nothing is overwritten, an insertion under way only adds: the times and
\* the drops beside the events that are there stay as they were.
LEMMA BesideEvents ==
  ASSUME Inv, HInv, NEW b \in FEBIDs, ~Overwriting(b),
         NEW t \in Seq(Nat), TimesBefore(b, t), Len(t) = Len(buffer[b])
  PROVE  \A n \in 1 .. Len(buffer[b]) : timebuffer[b][n] = t[n]
  <1>1. CASE ~(feb = b /\ pc \in {"dropped", "events"})
    BY <1>1 DEF TimesBefore
  <1>2. CASE feb = b /\ pc \in {"dropped", "events"}
    <2>1. PICK g \in Nat \ {0}, l \in Nat, q \in Nat :
            g = good_events /\ l = Len(buffer[b]) /\ q = poll
      <3>1. buffer[b] \in Seq(Events) /\ good_events \in Nat \ {0} /\ poll \in Nat
        BY <1>2, Constants DEF Inv, TypeOK
      <3>2. Len(buffer[b]) \in Nat
        BY <3>1
      <3> QED
        BY <3>1, <3>2, Zenon
    <2>2. l + g <= CAP
      <3>1. /\ good_events \in Good /\ l + nevents <= CAP /\ l <= CAP /\ nevents \in Nat
            /\ ~(nevents = 0 /\ l = CAP)
        BY <1>2, <2>1 DEF HInv, GoodOK, Overwriting, Locked, Inv, TypeOK, Lengths, LengthsOf
      <3>2. g <= nevents \/ (nevents = 0 /\ g = 1)
        BY <2>1, <3>1 DEF Good
      <3> QED
        BY <3>1, <3>2, Constants
    <2>3. Copies(g, q) \in Seq(Nat) /\ Len(Copies(g, q)) = g
      BY CopiesLength
    <2>4. Extends(t, 0, l, Copies(g, q), Push(t, Copies(g, q)))
      <3>1. 0 + l = Len(t) /\ 0 \in Nat /\ l + Len(Copies(g, q)) <= CAP
        BY <2>1, <2>2, <2>3
      <3> QED
        BY <2>3, <3>1, PushExtends
    <2>5. timebuffer[b] = Push(t, Copies(g, q))
      BY <1>2, <2>1 DEF TimesBefore
    <2>6. ASSUME NEW n \in 1 .. l PROVE timebuffer[b][n] = t[n]
      <3>1. n + 0 = n
        OBVIOUS
      <3> QED
        BY <2>4, <2>5, <3>1, Zenon DEF Extends
    <2> QED
      BY <2>1, <2>6
  <1> QED
    BY <1>1, <1>2

\* Whatever the boards send, and whenever a reference is looked for and erased, only
\* the first event of a poll may be an old one of the array: the others are the
\* poll's own, of this board, one after the other, and the driver has them.
THEOREM OthersAreTheirPolls == Spec => []OnlyFirstIsStale
  <1>1. Inv /\ HInv => OnlyFirstIsStale
    <2> SUFFICES ASSUME Inv, HInv, NEW b \in FEBIDs, ~Overwriting(b),
                        NEW n \in DOMAIN buffer[b], buffer[b][n].no > 1
                 PROVE  /\ buffer[b][n].feb = b /\ buffer[b][n].poll = timebuffer[b][n]
                        /\ buffer[b][n] \in processed
                        /\ (n > 1 /\ timebuffer[b][n - 1] = timebuffer[b][n])
                             => buffer[b][n - 1].no = buffer[b][n].no - 1
      BY DEF OnlyFirstIsStale
    <2>1. PICK t \in Seq(Nat) : /\ TimesBefore(b, t)
                                /\ Stamped(b, buffer[b], t, Polled, processed)
      BY DEF HInv, Matched
    <2>2. Len(t) = Len(buffer[b])
      BY <2>1, StampedTypes
    <2>3. \A i \in 1 .. Len(buffer[b]) : timebuffer[b][i] = t[i]
      BY <2>1, <2>2, BesideEvents
    <2>4. n \in 1 .. Len(buffer[b]) /\ (n > 1 => n - 1 \in 1 .. Len(buffer[b]))
      BY DEF Inv, TypeOK
    <2>5. /\ buffer[b][n].feb = b /\ buffer[b][n].poll = t[n] /\ buffer[b][n] \in processed
          /\ (n > 1 /\ t[n - 1] = t[n]) => buffer[b][n - 1].no = buffer[b][n].no - 1
      BY <2>1, <2>4, StampedTwo
    <2> QED
      BY <2>3, <2>4, <2>5
  <1> QED
    BY <1>1, HInvHolds, PTL

\* The same of the drops.
LEMMA BesideEventsDrops ==
  ASSUME Inv, HInv, NEW b \in FEBIDs, ~Overwriting(b),
         NEW d \in Seq(Nat), DropsBefore(b, d), Len(d) = Len(buffer[b])
  PROVE  \A n \in 1 .. Len(buffer[b]) : droppedbuffer[b][n] = d[n]
  <1>1. CASE ~(feb = b /\ pc = "events")
    BY <1>1 DEF DropsBefore
  <1>2. CASE feb = b /\ pc = "events"
    <2>1. PICK g \in Nat \ {0}, l \in Nat : g = good_events /\ l = Len(buffer[b])
      <3>1. buffer[b] \in Seq(Events) /\ good_events \in Nat \ {0}
        BY <1>2, Constants DEF Inv, TypeOK
      <3>2. Len(buffer[b]) \in Nat
        BY <3>1
      <3> QED
        BY <3>1, <3>2, Zenon
    <2>2. l + g <= CAP
      <3>1. /\ good_events \in Good /\ l + nevents <= CAP /\ l <= CAP /\ nevents \in Nat
            /\ ~(nevents = 0 /\ l = CAP)
        BY <1>2, <2>1 DEF HInv, GoodOK, Overwriting, Locked, Inv, TypeOK, Lengths, LengthsOf
      <3>2. g <= nevents \/ (nevents = 0 /\ g = 1)
        BY <2>1, <3>1 DEF Good
      <3> QED
        BY <3>1, <3>2, Constants
    <2>3. PICK x \in Nat : x = (nevents - good_events) % WIDTH
      <3>1. nevents - good_events \in Int /\ WIDTH \in Nat \ {0}
        BY Constants DEF Inv, TypeOK
      <3>2. ((nevents - good_events) % WIDTH) \in 0 .. WIDTH - 1
        BY <3>1, Remainder
      <3>3. 0 .. WIDTH - 1 \subseteq Nat
        OBVIOUS
      <3> QED
        BY <3>2, <3>3, Zenon
    <2>4. PICK nd \in Seq(Nat) : /\ Len(nd) = g /\ nd[g] = x
                                 /\ \A k \in 1 .. g - 1 : nd[k] = 0
      <3> DEFINE drops == [k \in 1 .. g |-> IF k = g THEN x ELSE 0]
      <3>1. drops \in Seq(Nat) /\ Len(drops) = g /\ drops[g] = x
        OBVIOUS
      <3>2. \A k \in 1 .. g - 1 : drops[k] = 0
        OBVIOUS
      <3> QED
        BY <3>1, <3>2
    <2>5. Extends(d, 0, l, nd, Push(Push(d, Copies(g - 1, 0)), <<x>>))
      <3>1. Room(0, l, Len(d), g) /\ 0 \in Nat
        BY <2>1, <2>2 DEF Room
      <3> QED
        BY <2>4, <3>1, DropsExtend
    <2>6. droppedbuffer[b] = Push(Push(d, Copies(g - 1, 0)), <<x>>)
      BY <1>2, <2>1, <2>3, Zenon DEF DropsBefore
    <2>7. ASSUME NEW n \in 1 .. l PROVE droppedbuffer[b][n] = d[n]
      <3>1. n + 0 = n
        OBVIOUS
      <3> QED
        BY <2>5, <2>6, <3>1, Zenon DEF Extends
    <2> QED
      BY <2>1, <2>7
  <1> QED
    BY <1>1, <1>2

\* In the first run no event is lost without being counted: what a poll inserted
\* and the drops beside its last event add up to what it brought, for any board,
\* any capacity and any order of the two threads' steps.
THEOREM DropsMakeUpForEvents == Spec => []DropsAddUp
  <1>1. Inv /\ HInv => DropsAddUp
    <2> SUFFICES ASSUME Inv, HInv, run = 1, NEW b \in FEBIDs, ~Overwriting(b),
                        NEW n \in DOMAIN buffer[b]
                 PROVE  IF n = Len(buffer[b]) \/ timebuffer[b][n + 1] # timebuffer[b][n]
                        THEN (buffer[b][n].no + droppedbuffer[b][n]) % WIDTH
                               = brought[timebuffer[b][n]]
                        ELSE droppedbuffer[b][n] = 0
      BY Zenon DEF DropsAddUp
    <2>1. PICK t \in Seq(Nat), d \in Seq(Nat) :
            /\ TimesBefore(b, t) /\ DropsBefore(b, d)
            /\ Stamped(b, buffer[b], t, Polled, processed)
            /\ Counted(buffer[b], t, d, brought)
      BY DEF HInv, Matched
    <2>2. Len(t) = Len(buffer[b]) /\ Len(d) = Len(buffer[b])
      BY <2>1, StampedTypes DEF Counted
    <2>3. \A i \in 1 .. Len(buffer[b]) : timebuffer[b][i] = t[i]
      BY <2>1, <2>2, BesideEvents
    <2>4. \A i \in 1 .. Len(buffer[b]) : droppedbuffer[b][i] = d[i]
      BY <2>1, <2>2, BesideEventsDrops
    <2>5. n \in 1 .. Len(buffer[b]) /\ (n # Len(buffer[b]) => n + 1 \in 1 .. Len(buffer[b]))
      <3>1. n \in 1 .. Len(buffer[b]) /\ Len(buffer[b]) \in Nat
        BY DEF Inv, TypeOK
      <3> QED
        BY <3>1
    <2>6. IF n = Len(buffer[b]) \/ t[n + 1] # t[n]
          THEN (buffer[b][n].no + d[n]) % WIDTH = brought[t[n]]
          ELSE d[n] = 0
      BY <2>1, <2>5, Zenon DEF Counted
    <2> QED
      BY <2>3, <2>4, <2>5, <2>6, Zenon
  <1> QED
    BY <1>1, HInvHolds, PTL

=============================================================================
