---------------------------- MODULE FEBBuffersProofs ----------------------------
(***************************************************************************)
(* Proofs about FEBBuffers, for every number of boards, every capacity and *)
(* every bound.                                                            *)
(***************************************************************************)
EXTENDS FEBBuffers, SequenceTheorems, TLAPS

-----------------------------------------------------------------------------
(* The circular buffers.                                                    *)

\* Whatever is inserted, a buffer stays within its capacity.
LEMMA PushType ==
  ASSUME NEW S, NEW q \in Seq(S), NEW new \in Seq(S)
  PROVE  Push(q, new) \in Seq(S) /\ Len(Push(q, new)) <= CAP
<1> DEFINE all == q \o new
<1>1. all \in Seq(S) /\ Len(all) \in Nat
  BY ConcatProperties
<1>2. CAP \in Nat
  BY CAPAssumption
<1>3. CASE Len(all) > CAP
  <2>1. /\ SubSeq(all, Len(all) - CAP + 1, Len(all)) \in Seq(S)
        /\ Len(SubSeq(all, Len(all) - CAP + 1, Len(all))) = CAP
    BY <1>1, <1>2, <1>3, SubSeqProperties
  <2>2. QED
    BY <1>2, <1>3, <2>1 DEF Push
<1>4. CASE ~(Len(all) > CAP)
  BY <1>1, <1>2, <1>4 DEF Push
<1>5. QED
  BY <1>3, <1>4

\* When there is room, an insertion keeps everything and adds the new elements
\* at the end.
LEMMA PushFits ==
  ASSUME NEW S, NEW q \in Seq(S), NEW new \in Seq(S), Len(q) + Len(new) <= CAP
  PROVE  /\ Push(q, new) \in Seq(S)
         /\ Len(Push(q, new)) = Len(q) + Len(new)
         /\ \A i \in 1 .. Len(q) : Push(q, new)[i] = q[i]
         /\ \A i \in 1 .. Len(new) : Push(q, new)[Len(q) + i] = new[i]
<1>1. Push(q, new) = q \o new
  BY CAPAssumption, ConcatProperties DEF Push
<1>2. QED
  BY <1>1, ConcatProperties

\* What erasing from the front leaves.
LEMMA EraseFacts ==
  ASSUME NEW S, NEW q \in Seq(S), NEW n \in Nat
  PROVE  /\ EraseBegin(q, n) \in Seq(S)
         /\ Len(EraseBegin(q, n)) <= Len(q)
         /\ n <= Len(q) =>
              /\ Len(EraseBegin(q, n)) = Len(q) - n
              /\ \A i \in 1 .. Len(q) - n : EraseBegin(q, n)[i] = q[i + n]
<1>1. CASE n < Len(q)
  BY <1>1, SubSeqProperties DEF EraseBegin
<1>2. CASE n >= Len(q)
  <2>1. EraseBegin(q, n) = <<>>
    BY <1>2, SubSeqProperties, SubSeqEmpty DEF EraseBegin
  <2>2. QED
    BY <1>2, <2>1
<1>3. QED
  BY <1>1, <1>2

\* n copies of an element.
LEMMA CopiesFacts ==
  ASSUME NEW S, NEW x \in S, NEW n \in Nat
  PROVE  /\ Copies(n, x) \in Seq(S)
         /\ Len(Copies(n, x)) = n
         /\ \A i \in 1 .. n : Copies(n, x)[i] = x
<1>1. Copies(n, x) \in Seq(S)
  BY IsASeq DEF Copies
<1>2. QED
  BY <1>1, LenProperties DEF Copies

-----------------------------------------------------------------------------
(* The inductive invariant.                                                 *)

Storing == wpc \in {"times", "dropped", "events"}

\* Entries of timebuffer whose events are not in the buffer yet.
Pending(f) == IF wpc \in {"dropped", "events"} /\ wfeb = f THEN good_events ELSE 0

Lengths ==
  /\ \A f \in Febs : Len(timebuffer[f]) = Len(buffer[f]) + Pending(f)
  /\ Storing => /\ good_events \in 1 .. Len(groups[wfeb])
                /\ Len(buffer[wfeb]) + good_events <= CAP

\* What is left to store came with the last message, after every poll stored
\* before for the same board.
Polls ==
  /\ \A f \in Febs : \A i \in 1 .. Len(groups[f]) : groups[f][i].m = msg
  /\ \A f \in Febs : last_timenow[f] <= PollFinished(msg)
  /\ \A f \in Febs : Len(groups[f]) > 0 => last_timenow[f] <= PollStarted(msg)
  /\ wpc = "get" => \A f \in Febs : Len(groups[f]) = 0

\* An entry of timebuffer is an interval that covers the poll of message m.
Covers(t, m) == t.first <= PollStarted(m) /\ t.second = PollFinished(m)

TimesMatch ==
  /\ \A f \in Febs : \A n \in 1 .. Len(buffer[f]) :
       Covers(timebuffer[f][n], buffer[f][n].m)
  /\ \A f \in Febs : \A k \in 1 .. Pending(f) :
       Covers(timebuffer[f][Len(buffer[f]) + k], msg)

BInv == TypeOK /\ Lengths /\ Polls /\ TimesMatch /\ ReferenceStays

\* The sets a message is chosen from hold sequences of events of that message.
LEMMA GroupsType ==
  ASSUME NEW m \in Nat, NEW g \in GroupsOf(m)
  PROVE  /\ g \in Seq(Events)
         /\ \A i \in 1 .. Len(g) : g[i].m = m
<1>a. PICK n \in 0 .. MaxGroup : g \in {Group(m, n, r) : r \in SUBSET (1 .. n)}
  BY DEF GroupsOf
<1>b. PICK refs \in SUBSET (1 .. n) : g = Group(m, n, refs)
  BY <1>a
<1>1. g = [i \in 1 .. n |-> [m |-> m, i |-> i, ref |-> i \in refs]]
  BY <1>b DEF Group
<1>2. \A i \in 1 .. n : [m |-> m, i |-> i, ref |-> i \in refs] \in Events
  <2> SUFFICES ASSUME NEW i \in 1 .. n
               PROVE  [m |-> m, i |-> i, ref |-> i \in refs] \in Events
    OBVIOUS
  <2>1. (i \in refs) \in BOOLEAN /\ i \in Nat
    OBVIOUS
  <2>2. QED
    BY <2>1, Zenon DEF Events
<1>3. n \in Nat
  BY <1>a, BoundsAssumption
<1>4. g \in Seq(Events)
  BY <1>1, <1>2, <1>3, IsASeq
<1>5. Len(g) = n
  BY <1>1, <1>3, <1>4, LenProperties
<1>6. QED
  BY <1>1, <1>4, <1>5

LEMMA BInvInit == Init => BInv
<1> SUFFICES ASSUME Init PROVE BInv
  OBVIOUS
<1>1. 1 \in Febs
  BY NFebsAssumption DEF Febs
<1>2. \A S : <<>> \in Seq(S) /\ Len(<<>>) = 0
  OBVIOUS
<1>3. TypeOK
  BY <1>1, <1>2, CAPAssumption DEF Init, TypeOK
<1>4. Lengths /\ Polls /\ TimesMatch /\ ReferenceStays
  BY <1>1, <1>2 DEF Init, Lengths, Polls, TimesMatch, Storing, Pending,
                    PollFinished, PollStarted, ReferenceStays
<1>5. QED
  BY <1>3, <1>4 DEF BInv

LEMMA BInvNext == BInv /\ [Next]_vars => BInv'
<1> SUFFICES ASSUME BInv, [Next]_vars PROVE BInv'
  OBVIOUS
<1>c. CAP \in Nat
  BY CAPAssumption
<1>t. TypeOK /\ Lengths /\ Polls /\ TimesMatch /\ ReferenceStays
  BY DEF BInv
<1>s. /\ \A f \in Febs : /\ buffer[f] \in Seq(Events) /\ Len(buffer[f]) \in Nat
                         /\ timebuffer[f] \in Seq(Times) /\ Len(timebuffer[f]) \in Nat
                         /\ droppedbuffer[f] \in Seq(Drops)
                         /\ groups[f] \in Seq(Events) /\ Len(groups[f]) \in Nat
                         /\ last_timenow[f] \in Nat
      /\ msg \in Nat /\ good_events \in Nat /\ wfeb \in Febs /\ gfeb \in Febs
  BY <1>t DEF TypeOK
<1>1. CASE GetZMQData
  <2>1. /\ msg' = msg + 1 /\ wpc = "get" /\ wpc' = "wait"
        /\ groups' \in [Febs -> GroupsOf(msg')]
        /\ UNCHANGED <<buffer, timebuffer, droppedbuffer, last_timenow, wfeb,
                       good_events, getter, run>>
    BY <1>1 DEF GetZMQData
  <2>2. \A f \in Febs : /\ groups'[f] \in Seq(Events)
                       /\ \A i \in 1 .. Len(groups'[f]) : groups'[f][i].m = msg'
    <3>1. msg' \in Nat /\ \A f \in Febs : groups'[f] \in GroupsOf(msg')
      BY <2>1, <1>s
    <3>2. QED
      BY <3>1, GroupsType
  <2>3. groups' \in [Febs -> Seq(Events)]
    <3>1. groups' = [f \in Febs |-> groups'[f]]
      BY <2>1
    <3>2. QED
      BY <3>1, <2>2
  <2>4. TypeOK'
    BY <2>1, <2>3, <1>t DEF TypeOK, getter
  <2>5. \A f \in Febs : Pending(f) = 0 /\ Pending(f)' = 0
    BY <2>1 DEF Pending
  <2>6. Lengths'
    BY <2>1, <2>5, <1>t DEF Lengths, Storing
  <2>7. Polls'
    BY <2>1, <2>2, <1>s, <1>t DEF Polls, PollFinished, PollStarted
  <2>8. TimesMatch' /\ ReferenceStays'
    BY <2>1, <2>5, <1>t DEF TimesMatch, ReferenceStays, References, getter
  <2>9. QED
    BY <2>4, <2>6, <2>7, <2>8 DEF BInv
<1>2. CASE LoseMessage
  <2>1. /\ msg' = msg + 1 /\ wpc = "get" /\ wpc' = "get"
        /\ UNCHANGED <<buffer, timebuffer, droppedbuffer, last_timenow, groups, wfeb,
                       good_events, getter, run>>
    BY <1>2 DEF LoseMessage
  <2>2. TypeOK'
    BY <2>1, <1>t DEF TypeOK, getter
  <2>3. \A f \in Febs : Pending(f) = 0 /\ Pending(f)' = 0
    BY <2>1 DEF Pending
  <2>4. Lengths'
    BY <2>1, <2>3, <1>t DEF Lengths, Storing
  <2>5. Polls'
    BY <2>1, <1>s, <1>t DEF Polls, PollFinished, PollStarted
  <2>6. TimesMatch' /\ ReferenceStays'
    BY <2>1, <2>3, <1>t DEF TimesMatch, ReferenceStays, References, getter
  <2>7. QED
    BY <2>2, <2>4, <2>5, <2>6 DEF BInv
<1>3. CASE StartInsert
  <2>1. /\ wpc = "wait" /\ wpc' = "times"
        /\ wfeb' \in Febs
        /\ CAP - Len(buffer[wfeb']) >= Len(groups[wfeb'])
        /\ good_events' \in 1 .. Len(groups[wfeb'])
        /\ UNCHANGED <<buffer, timebuffer, droppedbuffer, last_timenow, groups, msg,
                       getter, run>>
    BY <1>3 DEF StartInsert, HasCapacity
  <2>2. TypeOK'
    <3>1. good_events' \in Nat
      BY <2>1, <1>s
    <3> QED
      BY <2>1, <3>1, <1>t DEF TypeOK, getter
  <2>3. \A f \in Febs : Pending(f) = 0 /\ Pending(f)' = 0
    BY <2>1 DEF Pending
  <2>4. Lengths'
    <3>1. Len(buffer[wfeb']) + good_events' <= CAP
      <4>1. Len(buffer[wfeb']) \in Nat /\ Len(groups[wfeb']) \in Nat
        BY <2>1, <1>s
      <4>2. /\ CAP - Len(buffer[wfeb']) >= Len(groups[wfeb'])
            /\ good_events' \in Nat /\ good_events' <= Len(groups[wfeb'])
        BY <2>1, <4>1
      <4>3. ASSUME NEW a \in Nat, NEW b \in Nat, NEW c \in Nat, CAP - a >= b, c <= b
            PROVE  a + c <= CAP
        BY <4>3, <1>c
      <4>4. QED
        BY <4>1, <4>2, <4>3
    <3>2. \A f \in Febs : Len(timebuffer[f]) = Len(buffer[f]) + Pending(f)'
      BY <2>3, <1>t DEF Lengths
    <3>3. QED
      BY <2>1, <3>1, <3>2 DEF Lengths
  <2>5. Polls'
    BY <2>1, <1>t DEF Polls
  <2>6. TimesMatch' /\ ReferenceStays'
    BY <2>1, <2>3, <1>t DEF TimesMatch, ReferenceStays, References, getter
  <2>7. QED
    BY <2>2, <2>4, <2>5, <2>6 DEF BInv
<1>4. CASE InsertTimes
  <2>a. PICK first : first = IF last_timenow[wfeb] = 0 THEN PollStarted(msg)
                             ELSE last_timenow[wfeb]
    OBVIOUS
  <2>b. PICK times : times = [first |-> first, second |-> PollFinished(msg)]
    OBVIOUS
  <2>c. PICK new : new = Copies(good_events, times)
    OBVIOUS
  <2>1. /\ wpc = "times" /\ wpc' = "dropped"
        /\ timebuffer' = [timebuffer EXCEPT ![wfeb] = Push(timebuffer[wfeb], new)]
        /\ UNCHANGED <<buffer, droppedbuffer, last_timenow, groups, wfeb,
                       good_events, msg, getter, run>>
    BY <1>4, <2>a, <2>b, <2>c DEF InsertTimes, TimesInserted
  <2>2. /\ Len(timebuffer[wfeb]) = Len(buffer[wfeb])
        /\ Len(buffer[wfeb]) + good_events <= CAP
        /\ good_events >= 1 /\ Len(groups[wfeb]) > 0
    BY <2>1, <1>s, <1>t DEF Lengths, Storing, Pending
  <2>3. times \in Times /\ Covers(times, msg)
    <3>1. last_timenow[wfeb] <= PollStarted(msg) /\ last_timenow[wfeb] \in Nat
      BY <2>2, <1>s, <1>t DEF Polls
    <3>2. /\ PollStarted(msg) \in Nat /\ PollFinished(msg) \in Nat
          /\ first \in Nat /\ first <= PollStarted(msg)
      BY <3>1, <2>a, <1>s DEF PollStarted, PollFinished
    <3>3. QED
      BY <3>2, <2>b DEF Times, Covers
  <2>4. /\ new \in Seq(Times) /\ Len(new) = good_events
        /\ \A k \in 1 .. good_events : new[k] = times
    <3>1. times \in Times /\ good_events \in Nat
      BY <2>3, <1>s
    <3>2. /\ Copies(good_events, times) \in Seq(Times)
          /\ Len(Copies(good_events, times)) = good_events
          /\ \A k \in 1 .. good_events : Copies(good_events, times)[k] = times
      BY <3>1, CopiesFacts
    <3>3. QED
      BY <3>2, <2>c
  <2>5. /\ timebuffer'[wfeb] \in Seq(Times)
        /\ Len(timebuffer'[wfeb]) = Len(buffer[wfeb]) + good_events
        /\ \A i \in 1 .. Len(buffer[wfeb]) : timebuffer'[wfeb][i] = timebuffer[wfeb][i]
        /\ \A k \in 1 .. good_events : timebuffer'[wfeb][Len(buffer[wfeb]) + k] = times
    <3>1. /\ timebuffer[wfeb] \in Seq(Times)
          /\ Len(timebuffer[wfeb]) + Len(new) <= CAP
      BY <2>2, <2>4, <1>s
    <3>2. /\ Push(timebuffer[wfeb], new) \in Seq(Times)
          /\ Len(Push(timebuffer[wfeb], new)) = Len(timebuffer[wfeb]) + Len(new)
          /\ \A i \in 1 .. Len(timebuffer[wfeb]) :
                Push(timebuffer[wfeb], new)[i] = timebuffer[wfeb][i]
          /\ \A i \in 1 .. Len(new) :
                Push(timebuffer[wfeb], new)[Len(timebuffer[wfeb]) + i] = new[i]
      <4>1. new \in Seq(Times)
        BY <2>4
      <4>2. QED
        BY <3>1, <4>1, PushFits
    <3>3. timebuffer'[wfeb] = Push(timebuffer[wfeb], new)
      BY <2>1, <1>s, <1>t DEF TypeOK
    <3>4. QED
      BY <3>2, <3>3, <2>2, <2>4
  <2>6. \A f \in Febs : f # wfeb => timebuffer'[f] = timebuffer[f]
    BY <2>1, <1>t DEF TypeOK
  <2>7. /\ \A f \in Febs : Pending(f) = 0
        /\ \A f \in Febs : Pending(f)' = IF f = wfeb THEN good_events ELSE 0
    BY <2>1 DEF Pending
  <2>8. TypeOK'
    <3>1. /\ timebuffer' \in [Febs -> Seq(Times)]
          /\ \A f \in Febs : Len(timebuffer'[f]) <= CAP
      BY <2>1, <2>2, <2>5, <2>6, <1>s, <1>t DEF TypeOK
    <3>2. QED
      BY <2>1, <3>1, <1>t DEF TypeOK, getter
  <2>9. Lengths'
    BY <2>1, <2>2, <2>5, <2>6, <2>7, <1>s, <1>t DEF Lengths, Storing
  <2>10. Polls'
    BY <2>1, <1>t DEF Polls
  <2>11. TimesMatch'
    <3>1. \A f \in Febs : \A n \in 1 .. Len(buffer[f]) : timebuffer'[f][n] = timebuffer[f][n]
      BY <2>5, <2>6
    <3>2. \A f \in Febs : \A n \in 1 .. Len(buffer[f]) :
            Covers(timebuffer'[f][n], buffer[f][n].m)
      BY <3>1, <1>t DEF TimesMatch
    <3>3. \A f \in Febs : \A k \in 1 .. Pending(f)' :
            Covers(timebuffer'[f][Len(buffer[f]) + k], msg)
      <4> SUFFICES ASSUME NEW f \in Febs, NEW k \in 1 .. Pending(f)'
                   PROVE  Covers(timebuffer'[f][Len(buffer[f]) + k], msg)
        OBVIOUS
      <4>1. f = wfeb /\ k \in 1 .. good_events
        BY <2>7
      <4>2. QED
        BY <4>1, <2>3, <2>5
    <3>4. QED
      BY <2>1, <3>2, <3>3 DEF TimesMatch
  <2>12. ReferenceStays'
    BY <2>1, <1>t DEF ReferenceStays, References, getter
  <2>13. QED
    BY <2>8, <2>9, <2>10, <2>11, <2>12 DEF BInv
<1>5. CASE InsertDropped
  <2> DEFINE zero == [m |-> msg, n |-> 0]
             zeros == Copies(good_events - 1, zero)
             last == [m |-> msg, n |-> Len(groups[wfeb]) - good_events]
             old == droppedbuffer[wfeb]
  <2>1. /\ wpc = "dropped" /\ wpc' = "events"
        /\ droppedbuffer' = [droppedbuffer EXCEPT ![wfeb] = Push(Push(old, zeros), <<last>>)]
        /\ UNCHANGED <<buffer, timebuffer, last_timenow, groups, wfeb,
                       good_events, msg, getter, run>>
    BY <1>5 DEF InsertDropped, ZerosInserted
  <2>2. good_events \in 1 .. Len(groups[wfeb])
    BY <2>1, <1>t DEF Lengths, Storing
  <2>3. zero \in Drops /\ last \in Drops /\ good_events - 1 \in Nat
    BY <2>2, <1>s DEF Drops
  <2>4. zeros \in Seq(Drops) /\ <<last>> \in Seq(Drops)
    BY <2>3, CopiesFacts
  <2>5. Push(old, zeros) \in Seq(Drops)
    BY <2>4, <1>s, PushType
  <2>6. /\ Push(Push(old, zeros), <<last>>) \in Seq(Drops)
        /\ Len(Push(Push(old, zeros), <<last>>)) <= CAP
    BY <2>4, <2>5, PushType
  <2>7. TypeOK'
    <3>1. /\ droppedbuffer' \in [Febs -> Seq(Drops)]
          /\ \A f \in Febs : Len(droppedbuffer'[f]) <= CAP
      BY <2>1, <2>6, <1>t DEF TypeOK
    <3>2. QED
      BY <2>1, <3>1, <1>t DEF TypeOK, getter
  <2>8. \A f \in Febs : Pending(f)' = Pending(f)
    BY <2>1 DEF Pending
  <2>9. Lengths' /\ Polls' /\ TimesMatch' /\ ReferenceStays'
    BY <2>1, <2>8, <1>t DEF Lengths, Polls, TimesMatch, Storing, ReferenceStays,
                            References, getter
  <2>10. QED
    BY <2>7, <2>9 DEF BInv
<1>6. CASE InsertEvents
  <2>a. PICK new : new = SubSeq(groups[wfeb], 1, good_events)
    OBVIOUS
  <2>1. /\ wpc = "events"
        /\ wpc' = IF \E f \in Febs : groups'[f] # <<>> THEN "wait" ELSE "get"
        /\ buffer' = [buffer EXCEPT ![wfeb] = Push(buffer[wfeb], new)]
        /\ last_timenow' = [last_timenow EXCEPT ![wfeb] = PollFinished(msg)]
        /\ groups' = [groups EXCEPT ![wfeb] = <<>>]
        /\ UNCHANGED <<timebuffer, droppedbuffer, wfeb, good_events, msg, getter, run>>
    BY <1>6, <2>a DEF InsertEvents
  <2>2. /\ good_events \in 1 .. Len(groups[wfeb])
        /\ Len(buffer[wfeb]) + good_events <= CAP
        /\ Len(timebuffer[wfeb]) = Len(buffer[wfeb]) + good_events
    BY <2>1, <1>s, <1>t DEF Lengths, Storing, Pending
  <2>3. /\ new \in Seq(Events) /\ Len(new) = good_events
        /\ \A k \in 1 .. good_events : new[k].m = msg
    <3>1. \A i \in 1 .. good_events : groups[wfeb][i] \in Events
      BY <2>2, <1>s, ElementOfSeq
    <3>2. /\ new \in Seq(Events) /\ Len(new) = good_events
          /\ \A k \in 1 .. good_events : new[k] = groups[wfeb][k]
      BY <3>1, <2>a, <2>2, <1>s, SubSeqProperties
    <3>3. \A k \in 1 .. good_events : groups[wfeb][k].m = msg
      BY <2>2, <1>s, <1>t DEF Polls
    <3>4. QED
      BY <3>2, <3>3
  <2>4. /\ buffer'[wfeb] \in Seq(Events)
        /\ Len(buffer'[wfeb]) = Len(buffer[wfeb]) + good_events
        /\ \A i \in 1 .. Len(buffer[wfeb]) : buffer'[wfeb][i] = buffer[wfeb][i]
        /\ \A k \in 1 .. good_events : buffer'[wfeb][Len(buffer[wfeb]) + k].m = msg
    <3>1. buffer'[wfeb] = Push(buffer[wfeb], new)
      BY <2>1, <1>s, <1>t DEF TypeOK
    <3>2. buffer[wfeb] \in Seq(Events) /\ Len(buffer[wfeb]) + Len(new) <= CAP
      BY <2>2, <2>3, <1>s
    <3>3. /\ Push(buffer[wfeb], new) \in Seq(Events)
          /\ Len(Push(buffer[wfeb], new)) = Len(buffer[wfeb]) + Len(new)
          /\ \A i \in 1 .. Len(buffer[wfeb]) :
                Push(buffer[wfeb], new)[i] = buffer[wfeb][i]
          /\ \A i \in 1 .. Len(new) :
                Push(buffer[wfeb], new)[Len(buffer[wfeb]) + i] = new[i]
      <4>1. new \in Seq(Events)
        BY <2>3
      <4>2. QED
        BY <3>2, <4>1, PushFits
    <3>4. QED
      BY <3>1, <3>3, <2>3
  <2>5. \A f \in Febs : f # wfeb => /\ buffer'[f] = buffer[f]
                                   /\ groups'[f] = groups[f]
                                   /\ last_timenow'[f] = last_timenow[f]
    BY <2>1, <1>t DEF TypeOK
  <2>6. groups'[wfeb] = <<>> /\ last_timenow'[wfeb] = PollFinished(msg)
    BY <2>1, <1>s, <1>t DEF TypeOK
  <2>7. /\ \A f \in Febs : Pending(f) = IF f = wfeb THEN good_events ELSE 0
        /\ \A f \in Febs : Pending(f)' = 0
        /\ wpc' \in {"wait", "get"}
    BY <2>1 DEF Pending
  <2>8. TypeOK'
    <3>1. /\ buffer' \in [Febs -> Seq(Events)]
          /\ \A f \in Febs : Len(buffer'[f]) <= CAP
      BY <2>1, <2>2, <2>4, <2>5, <1>s, <1>t DEF TypeOK
    <3>2. /\ groups' \in [Febs -> Seq(Events)]
          /\ last_timenow' \in [Febs -> Nat]
      BY <2>1, <1>s, <1>t DEF TypeOK, PollFinished
    <3>3. QED
      BY <2>1, <2>7, <3>1, <3>2, <1>t DEF TypeOK, getter
  <2>9. Lengths'
    BY <2>1, <2>2, <2>4, <2>5, <2>7, <1>s, <1>t DEF Lengths, Storing
  <2>10. Polls'
    <3>1. \A f \in Febs : Len(groups'[f]) \in Nat /\ groups'[f] \in Seq(Events)
      BY <2>8 DEF TypeOK
    <3>2. Len(<<>>) = 0
      OBVIOUS
    <3>3. wpc' = "get" => \A f \in Febs : Len(groups'[f]) = 0
      BY <2>1, <3>2
    <3>4. QED
      BY <2>1, <2>5, <2>6, <3>1, <3>2, <3>3, <1>s, <1>t
         DEF Polls, PollFinished, PollStarted
  <2>11. TimesMatch'
    <3>1. \A n \in 1 .. Len(buffer'[wfeb]) :
            Covers(timebuffer[wfeb][n], buffer'[wfeb][n].m)
      <4> SUFFICES ASSUME NEW n \in 1 .. Len(buffer[wfeb]) + good_events
                   PROVE  Covers(timebuffer[wfeb][n], buffer'[wfeb][n].m)
        BY <2>4
      <4>1. CASE n <= Len(buffer[wfeb])
        BY <4>1, <2>4, <1>s, <1>t DEF TimesMatch
      <4>2. CASE n > Len(buffer[wfeb])
        <5>1. PICK k : k = n - Len(buffer[wfeb])
          OBVIOUS
        <5>2. Len(buffer[wfeb]) \in Nat
          BY <1>s
        <5>3. k \in 1 .. good_events /\ n = Len(buffer[wfeb]) + k
          BY <4>2, <5>1, <5>2, <1>s
        <5>4. Covers(timebuffer[wfeb][Len(buffer[wfeb]) + k], msg)
          BY <5>3, <2>7, <1>s, <1>t DEF TimesMatch
        <5>5. QED
          BY <5>3, <5>4, <2>4
      <4>3. QED
        BY <4>1, <4>2, <1>s
    <3>2. QED
      BY <2>1, <2>5, <2>7, <3>1, <1>s, <1>t DEF TimesMatch
  <2>12. ReferenceStays'
    <3> SUFFICES ASSUME gpc = "build", gfeb = wfeb
                 PROVE  i_gps \in References(gfeb)'
      BY <2>1, <2>5, <1>s, <1>t DEF ReferenceStays, References, getter
    <3>1. /\ i_gps \in 1 .. Len(buffer[wfeb])
          /\ buffer[wfeb][i_gps].ref
          /\ \A i \in 1 .. i_gps - 1 : ~buffer[wfeb][i].ref
      BY <1>s, <1>t DEF ReferenceStays, References
    <3>2. \A i \in 1 .. i_gps : buffer'[wfeb][i] = buffer[wfeb][i]
      BY <3>1, <2>4, <1>s
    <3>3. i_gps \in 1 .. Len(buffer'[wfeb])
      BY <3>1, <2>2, <2>4, <1>s
    <3>4. /\ buffer'[wfeb][i_gps].ref
          /\ \A i \in 1 .. i_gps - 1 : ~buffer'[wfeb][i].ref
      BY <3>1, <3>2, <1>s
    <3>5. DOMAIN buffer'[wfeb] = 1 .. Len(buffer'[wfeb])
      BY <2>4
    <3>6. QED
      BY <2>1, <3>3, <3>4, <3>5 DEF References, getter
  <2>13. QED
    BY <2>8, <2>9, <2>10, <2>11, <2>12 DEF BInv
<1>7. CASE NoFragment
  <2>1. /\ gpc = "scan" /\ gfeb' = (gfeb % NFebs) + 1
        /\ UNCHANGED <<buffer, timebuffer, droppedbuffer, last_timenow, worker,
                       gpc, i_gps, run>>
    BY <1>7 DEF NoFragment, NextFeb
  <2>2. gfeb' \in Febs
    BY <2>1, <1>s, NFebsAssumption DEF Febs
  <2>3. TypeOK'
    BY <2>1, <2>2, <1>t DEF TypeOK, worker
  <2>4. \A f \in Febs : Pending(f)' = Pending(f)
    BY <2>1 DEF Pending, worker
  <2>5. Lengths' /\ Polls' /\ TimesMatch' /\ ReferenceStays'
    BY <2>1, <2>4, <1>t DEF Lengths, Polls, TimesMatch, Storing, worker,
                            ReferenceStays, References
  <2>6. QED
    BY <2>3, <2>5 DEF BInv
<1>8. CASE FindReference
  <2>1. /\ i_gps' \in References(gfeb) /\ gpc' = "build"
        /\ UNCHANGED <<buffer, timebuffer, droppedbuffer, last_timenow, worker,
                       gfeb, run>>
    BY <1>8 DEF FindReference
  <2>2. i_gps' \in Nat
    BY <2>1, <1>s DEF References
  <2>3. TypeOK'
    BY <2>1, <2>2, <1>t DEF TypeOK, worker
  <2>4. \A f \in Febs : Pending(f)' = Pending(f)
    BY <2>1 DEF Pending, worker
  <2>5. Lengths' /\ Polls' /\ TimesMatch' /\ ReferenceStays'
    BY <2>1, <2>4, <1>t DEF Lengths, Polls, TimesMatch, Storing, worker,
                            ReferenceStays, References
  <2>6. QED
    BY <2>3, <2>5 DEF BInv
<1>9. CASE EraseFromFEBBuffer
  <2>1. /\ gpc = "build" /\ gpc' = "scan" /\ ~Locked(gfeb)
        /\ buffer' = [buffer EXCEPT ![gfeb] = EraseBegin(buffer[gfeb], i_gps)]
        /\ timebuffer' = [timebuffer EXCEPT ![gfeb] = EraseBegin(timebuffer[gfeb], i_gps)]
        /\ droppedbuffer' = [droppedbuffer EXCEPT
                               ![gfeb] = EraseBegin(droppedbuffer[gfeb], i_gps)]
        /\ UNCHANGED <<last_timenow, worker, gfeb, i_gps, run>>
    BY <1>9 DEF EraseFromFEBBuffer, Used
  <2>2. i_gps \in 1 .. Len(buffer[gfeb]) /\ i_gps \in Nat
    BY <2>1, <1>s, <1>t DEF ReferenceStays, References
  <2>3. /\ \A f \in Febs : Pending(f)' = Pending(f)
        /\ Pending(gfeb) = 0
        /\ Storing => wfeb # gfeb
    BY <2>1 DEF Pending, worker, Locked, Storing
  <2>4. Len(timebuffer[gfeb]) = Len(buffer[gfeb])
    BY <2>3, <1>s, <1>t DEF Lengths
  <2>5. \A f \in Febs : f # gfeb => /\ buffer'[f] = buffer[f]
                                   /\ timebuffer'[f] = timebuffer[f]
                                   /\ droppedbuffer'[f] = droppedbuffer[f]
    BY <2>1, <1>t DEF TypeOK
  <2>6. /\ buffer'[gfeb] \in Seq(Events)
        /\ Len(buffer'[gfeb]) = Len(buffer[gfeb]) - i_gps
        /\ \A i \in 1 .. Len(buffer[gfeb]) - i_gps :
             buffer'[gfeb][i] = buffer[gfeb][i + i_gps]
    <3>1. buffer'[gfeb] = EraseBegin(buffer[gfeb], i_gps)
      BY <2>1, <1>s, <1>t DEF TypeOK
    <3>2. buffer[gfeb] \in Seq(Events) /\ i_gps \in Nat /\ i_gps <= Len(buffer[gfeb])
      BY <2>2, <1>s
    <3>3. /\ EraseBegin(buffer[gfeb], i_gps) \in Seq(Events)
          /\ Len(EraseBegin(buffer[gfeb], i_gps)) = Len(buffer[gfeb]) - i_gps
          /\ \A i \in 1 .. Len(buffer[gfeb]) - i_gps :
               EraseBegin(buffer[gfeb], i_gps)[i] = buffer[gfeb][i + i_gps]
      BY <3>2, EraseFacts
    <3>4. QED
      BY <3>1, <3>3
  <2>7. /\ timebuffer'[gfeb] \in Seq(Times)
        /\ Len(timebuffer'[gfeb]) = Len(buffer[gfeb]) - i_gps
        /\ \A i \in 1 .. Len(buffer[gfeb]) - i_gps :
             timebuffer'[gfeb][i] = timebuffer[gfeb][i + i_gps]
    <3>1. timebuffer'[gfeb] = EraseBegin(timebuffer[gfeb], i_gps)
      BY <2>1, <1>s, <1>t DEF TypeOK
    <3>2. timebuffer[gfeb] \in Seq(Times) /\ i_gps \in Nat /\ i_gps <= Len(timebuffer[gfeb])
      BY <2>2, <2>4, <1>s
    <3>3. /\ EraseBegin(timebuffer[gfeb], i_gps) \in Seq(Times)
          /\ Len(EraseBegin(timebuffer[gfeb], i_gps)) = Len(timebuffer[gfeb]) - i_gps
          /\ \A i \in 1 .. Len(timebuffer[gfeb]) - i_gps :
               EraseBegin(timebuffer[gfeb], i_gps)[i] = timebuffer[gfeb][i + i_gps]
      BY <3>2, EraseFacts
    <3>4. QED
      BY <3>1, <3>3, <2>4
  <2>8. droppedbuffer'[gfeb] \in Seq(Drops) /\ Len(droppedbuffer'[gfeb]) <= CAP
    <3>1. droppedbuffer'[gfeb] = EraseBegin(droppedbuffer[gfeb], i_gps)
      BY <2>1, <1>s, <1>t DEF TypeOK
    <3>2. /\ EraseBegin(droppedbuffer[gfeb], i_gps) \in Seq(Drops)
          /\ Len(EraseBegin(droppedbuffer[gfeb], i_gps)) <= Len(droppedbuffer[gfeb])
      BY <2>2, <1>s, EraseFacts
    <3>3. Len(droppedbuffer[gfeb]) <= CAP /\ Len(droppedbuffer[gfeb]) \in Nat
      BY <1>s, <1>t DEF TypeOK
    <3>4. Len(EraseBegin(droppedbuffer[gfeb], i_gps)) \in Nat
      BY <3>2
    <3>5. QED
      BY <3>1, <3>2, <3>3, <3>4, <1>c
  <2>9. TypeOK'
    <3>1. /\ buffer' \in [Febs -> Seq(Events)]
          /\ timebuffer' \in [Febs -> Seq(Times)]
          /\ droppedbuffer' \in [Febs -> Seq(Drops)]
      <4>1. /\ EraseBegin(buffer[gfeb], i_gps) \in Seq(Events)
            /\ EraseBegin(timebuffer[gfeb], i_gps) \in Seq(Times)
            /\ EraseBegin(droppedbuffer[gfeb], i_gps) \in Seq(Drops)
        BY <2>2, <1>s, EraseFacts
      <4>2. QED
        BY <4>1, <2>1, <1>t DEF TypeOK
    <3>2. \A f \in Febs : /\ Len(buffer'[f]) <= CAP
                          /\ Len(timebuffer'[f]) <= CAP
                          /\ Len(droppedbuffer'[f]) <= CAP
      <4> SUFFICES ASSUME NEW f \in Febs
                   PROVE  /\ Len(buffer'[f]) <= CAP
                          /\ Len(timebuffer'[f]) <= CAP
                          /\ Len(droppedbuffer'[f]) <= CAP
        OBVIOUS
      <4>1. CASE f # gfeb
        BY <4>1, <2>5, <1>t DEF TypeOK
      <4>2. CASE f = gfeb
        <5>1. Len(buffer[gfeb]) <= CAP
          BY <1>s, <1>t DEF TypeOK
        <5>2. QED
          BY <4>2, <5>1, <2>2, <2>6, <2>7, <2>8, <1>c, <1>s
      <4>3. QED
        BY <4>1, <4>2
    <3>3. QED
      BY <2>1, <3>1, <3>2, <1>t DEF TypeOK, worker
  <2>10. Lengths'
    BY <2>1, <2>2, <2>3, <2>4, <2>5, <2>6, <2>7, <1>s, <1>t
       DEF Lengths, Storing, worker
  <2>11. Polls' /\ ReferenceStays'
    BY <2>1, <1>t DEF Polls, ReferenceStays, worker
  <2>12. TimesMatch'
    <3>1. \A n \in 1 .. Len(buffer'[gfeb]) :
            Covers(timebuffer'[gfeb][n], buffer'[gfeb][n].m)
      <4> SUFFICES ASSUME NEW n \in 1 .. Len(buffer[gfeb]) - i_gps
                   PROVE  Covers(timebuffer'[gfeb][n], buffer'[gfeb][n].m)
        BY <2>6
      <4>1. n + i_gps \in 1 .. Len(buffer[gfeb])
        BY <2>2, <1>s
      <4>2. Covers(timebuffer[gfeb][n + i_gps], buffer[gfeb][n + i_gps].m)
        BY <4>1, <1>s, <1>t DEF TimesMatch
      <4>3. QED
        BY <4>2, <2>6, <2>7
    <3>2. \A f \in Febs : \A k \in 1 .. Pending(f)' :
            Covers(timebuffer'[f][Len(buffer'[f]) + k], msg')
      <4> SUFFICES ASSUME NEW f \in Febs, NEW k \in 1 .. Pending(f), f # gfeb
                   PROVE  Covers(timebuffer'[f][Len(buffer'[f]) + k], msg')
        BY <2>3, <1>s
      <4>1. QED
        BY <2>1, <2>5, <1>t DEF TimesMatch, worker
    <3>3. \A f \in Febs : \A n \in 1 .. Len(buffer'[f]) :
            Covers(timebuffer'[f][n], buffer'[f][n].m)
      BY <3>1, <2>5, <1>t DEF TimesMatch
    <3>4. QED
      BY <3>2, <3>3 DEF TimesMatch
  <2>13. QED
    BY <2>9, <2>10, <2>11, <2>12 DEF BInv
<1>10. CASE Restart
  <2>1. /\ wpc = "get" /\ gpc = "scan"
        /\ buffer' = [f \in Febs |-> <<>>]
        /\ timebuffer' = [f \in Febs |-> <<>>]
        /\ last_timenow' = [f \in Febs |-> 0]
        /\ run' = run + 1
        /\ UNCHANGED <<droppedbuffer, worker, getter>>
    BY <1>10 DEF Restart
  <2>2. \A S : <<>> \in Seq(S) /\ Len(<<>>) = 0
    OBVIOUS
  <2>3. TypeOK'
    BY <2>1, <2>2, <1>t, <1>c DEF TypeOK, worker, getter
  <2>4. \A f \in Febs : Pending(f)' = 0
    BY <2>1 DEF Pending, worker
  <2>5. Lengths' /\ Polls' /\ TimesMatch' /\ ReferenceStays'
    BY <2>1, <2>2, <2>4, <1>s, <1>t
       DEF Lengths, Polls, TimesMatch, Storing, worker, getter, ReferenceStays,
           PollStarted, PollFinished
  <2>6. QED
    BY <2>3, <2>5 DEF BInv
<1>11. CASE UNCHANGED vars
  <2>1. TypeOK'
    BY <1>11, <1>t DEF TypeOK, vars, worker, getter
  <2>2. \A f \in Febs : Pending(f)' = Pending(f)
    BY <1>11 DEF Pending, vars, worker
  <2>3. Lengths' /\ Polls' /\ TimesMatch' /\ ReferenceStays'
    BY <1>11, <2>2, <1>t DEF Lengths, Polls, TimesMatch, Storing, ReferenceStays,
                             References, vars, worker, getter
  <2>4. QED
    BY <2>1, <2>3 DEF BInv
<1>12. QED
  BY <1>1, <1>2, <1>3, <1>4, <1>5, <1>6, <1>7, <1>8, <1>9, <1>10, <1>11
     DEF Next, GetData, InsertIntoFEBBuffer, FillFragment

LEMMA BInvHolds == Spec => []BInv
  BY BInvInit, BInvNext, PTL DEF Spec

-----------------------------------------------------------------------------
(* The theorems.                                                            *)

\* Every variable has its type, and no buffer of a board ever exceeds
\* FEBBufferCapacity, whatever the driver sends.
THEOREM TypeCorrect == Spec => []TypeOK
<1>1. BInv => TypeOK
  BY DEF BInv
<1>2. QED
  BY <1>1, BInvHolds, PTL

\* The times read without the mutex belong to the events beside them: a poll
\* interval that covers the poll of the event's message.
THEOREM TimesBesideEvents == Spec => []TimesOfEvents
<1>1. BInv => TimesOfEvents
  <2> SUFFICES ASSUME BInv, NEW f \in Febs, NEW n \in DOMAIN buffer[f]
               PROVE  /\ n \in DOMAIN timebuffer[f]
                      /\ timebuffer[f][n].first <= PollStarted(buffer[f][n].m)
                      /\ timebuffer[f][n].second = PollFinished(buffer[f][n].m)
    BY DEF TimesOfEvents
  <2>1. /\ buffer[f] \in Seq(Events) /\ timebuffer[f] \in Seq(Times)
        /\ good_events \in Nat
    BY DEF BInv, TypeOK
  <2>2. n \in 1 .. Len(buffer[f])
    BY <2>1
  <2>3. Len(timebuffer[f]) = Len(buffer[f]) + Pending(f) /\ Pending(f) \in Nat
    BY <2>1 DEF BInv, Lengths, Pending
  <2>4. n \in DOMAIN timebuffer[f]
    BY <2>1, <2>2, <2>3
  <2>5. Covers(timebuffer[f][n], buffer[f][n].m)
    BY <2>2 DEF BInv, TimesMatch
  <2>6. QED
    BY <2>4, <2>5 DEF Covers
<1>2. QED
  BY <1>1, BInvHolds, PTL

\* The reference the framework thread found without the mutex is still the
\* first one of its board when the buffers are erased up to it.
THEOREM ReferenceIsStable == Spec => []ReferenceStays
<1>1. BInv => ReferenceStays
  BY DEF BInv
<1>2. QED
  BY <1>1, BInvHolds, PTL

-----------------------------------------------------------------------------
(* The numbers of events dropped.                                           *)

\* Entries of droppedbuffer whose events are not in the buffer yet.
PendingDrops(f) == IF wpc = "events" /\ wfeb = f THEN good_events ELSE 0

\* In the first run droppedbuffer has an entry beside every event, about the
\* message of the event, and one for every event about to be inserted.
DropsMatchOf(f) ==
  /\ Len(droppedbuffer[f]) = Len(buffer[f]) + PendingDrops(f)
  /\ \A n \in 1 .. Len(buffer[f]) : droppedbuffer[f][n].m = buffer[f][n].m
  /\ \A k \in 1 .. PendingDrops(f) : droppedbuffer[f][Len(buffer[f]) + k].m = msg
DropsMatch == \A f \in Febs : DropsMatchOf(f)

DInv == run # 0 /\ (run = 1 => DropsMatch)

LEMMA DInvInit == Init => DInv
<1> SUFFICES ASSUME Init PROVE DInv
  OBVIOUS
<1>1. \A f \in Febs : /\ buffer[f] = <<>> /\ droppedbuffer[f] = <<>>
                      /\ PendingDrops(f) = 0
  BY DEF Init, PendingDrops
<1>2. QED
  BY <1>1 DEF Init, DInv, DropsMatch, DropsMatchOf

\* What InsertDropped adds: as many entries as there are good events, all of
\* them about the last message.
LEMMA InsertDroppedFacts ==
  ASSUME BInv, InsertDropped, Len(droppedbuffer[wfeb]) = Len(buffer[wfeb])
  PROVE  /\ Len(droppedbuffer'[wfeb]) = Len(buffer[wfeb]) + good_events
         /\ \A n \in 1 .. Len(buffer[wfeb]) :
              droppedbuffer'[wfeb][n] = droppedbuffer[wfeb][n]
         /\ \A k \in 1 .. good_events :
              droppedbuffer'[wfeb][Len(buffer[wfeb]) + k].m = msg
<1>1. PICK zero, last : /\ zero = [m |-> msg, n |-> 0]
                        /\ last = [m |-> msg, n |-> Len(groups[wfeb]) - good_events]
  OBVIOUS
<1>2. PICK zeros : zeros = Copies(good_events - 1, zero)
  OBVIOUS
<1>3. PICK old : old = droppedbuffer[wfeb]
  OBVIOUS
<1>4. PICK mid : mid = Push(old, zeros)
  OBVIOUS
<1>5. /\ wpc = "dropped" /\ wfeb \in Febs /\ msg \in Nat
      /\ old \in Seq(Drops) /\ Len(old) \in Nat
      /\ groups[wfeb] \in Seq(Events) /\ Len(groups[wfeb]) \in Nat
      /\ buffer[wfeb] \in Seq(Events)
  BY <1>3 DEF InsertDropped, BInv, TypeOK
<1>6. droppedbuffer'[wfeb] = Push(mid, <<last>>)
  BY <1>1, <1>2, <1>3, <1>4, <1>5
     DEF InsertDropped, ZerosInserted, BInv, TypeOK
<1>7. /\ good_events \in 1 .. Len(groups[wfeb])
      /\ Len(buffer[wfeb]) + good_events <= CAP
  BY <1>5 DEF BInv, Lengths, Storing
<1>8. zero \in Drops /\ last \in Drops /\ good_events - 1 \in Nat
  BY <1>1, <1>5, <1>7 DEF Drops
<1>9. /\ zeros \in Seq(Drops) /\ Len(zeros) = good_events - 1
      /\ \A i \in 1 .. good_events - 1 : zeros[i] = zero
  BY <1>2, <1>8, CopiesFacts
<1>10. PICK one \in Seq(Drops) : one = <<last>> /\ Len(one) = 1 /\ one[1] = last
  <2>1. <<last>> \in Seq(Drops) /\ Len(<<last>>) = 1 /\ <<last>>[1] = last
    BY <1>8
  <2> QED
    BY <2>1, Zenon
<1>11. Len(old) + Len(zeros) <= CAP
  BY <1>3, <1>5, <1>7, <1>9, CAPAssumption
<1>12. /\ mid \in Seq(Drops) /\ Len(mid) = Len(old) + (good_events - 1)
       /\ \A i \in 1 .. Len(old) : mid[i] = old[i]
       /\ \A i \in 1 .. good_events - 1 : mid[Len(old) + i] = zero
  <2>1. old \in Seq(Drops) /\ zeros \in Seq(Drops) /\ Len(old) + Len(zeros) <= CAP
    BY <1>5, <1>9, <1>11
  <2>2. /\ Push(old, zeros) \in Seq(Drops)
        /\ Len(Push(old, zeros)) = Len(old) + Len(zeros)
        /\ \A i \in 1 .. Len(old) : Push(old, zeros)[i] = old[i]
        /\ \A i \in 1 .. Len(zeros) : Push(old, zeros)[Len(old) + i] = zeros[i]
    BY <2>1, PushFits
  <2> QED
    BY <1>4, <1>9, <2>2
<1>13. Len(mid) + Len(one) <= CAP
  BY <1>3, <1>5, <1>7, <1>10, <1>12, CAPAssumption
<1>14. PICK new : new = Push(mid, one)
  OBVIOUS
<1>15. /\ Len(new) = Len(mid) + 1
       /\ \A i \in 1 .. Len(mid) : new[i] = mid[i]
       /\ new[Len(mid) + 1] = last
  <2>1. mid \in Seq(Drops) /\ one \in Seq(Drops) /\ Len(mid) + Len(one) <= CAP
    BY <1>10, <1>12, <1>13
  <2>2. /\ Len(Push(mid, one)) = Len(mid) + Len(one)
        /\ \A i \in 1 .. Len(mid) : Push(mid, one)[i] = mid[i]
        /\ \A i \in 1 .. Len(one) : Push(mid, one)[Len(mid) + i] = one[i]
    BY <2>1, PushFits
  <2> QED
    BY <1>10, <1>14, <2>2
<1>16. Len(new) = Len(old) + good_events
  BY <1>5, <1>7, <1>12, <1>15
<1>17. ASSUME NEW n \in 1 .. Len(old) PROVE new[n] = old[n]
  BY <1>5, <1>7, <1>12, <1>15
<1>18. ASSUME NEW k \in 1 .. good_events PROVE new[Len(old) + k].m = msg
  <2>1. CASE k \in 1 .. good_events - 1
    <3>1. Len(old) + k \in 1 .. Len(mid)
      BY <2>1, <1>5, <1>7, <1>12
    <3>2. new[Len(old) + k] = zero
      BY <2>1, <3>1, <1>12, <1>15
    <3> QED
      BY <3>2, <1>1
  <2>2. CASE k = good_events
    <3>1. Len(old) + k = Len(mid) + 1
      BY <2>2, <1>5, <1>7, <1>12
    <3>2. new[Len(old) + k] = last
      BY <3>1, <1>15
    <3> QED
      BY <3>2, <1>1
  <2> QED
    BY <2>1, <2>2, <1>7
<1>19. QED
  BY <1>3, <1>6, <1>10, <1>14, <1>16, <1>17, <1>18

\* What InsertEvents adds: the good events, all of the last message.
LEMMA InsertEventsFacts ==
  ASSUME BInv, InsertEvents
  PROVE  /\ Len(buffer'[wfeb]) = Len(buffer[wfeb]) + good_events
         /\ \A n \in 1 .. Len(buffer[wfeb]) : buffer'[wfeb][n] = buffer[wfeb][n]
         /\ \A k \in 1 .. good_events : buffer'[wfeb][Len(buffer[wfeb]) + k].m = msg
<1>1. PICK new : new = SubSeq(groups[wfeb], 1, good_events)
  OBVIOUS
<1>2. /\ wpc = "events" /\ wfeb \in Febs
      /\ groups[wfeb] \in Seq(Events) /\ Len(groups[wfeb]) \in Nat
      /\ buffer[wfeb] \in Seq(Events)
  BY DEF InsertEvents, BInv, TypeOK
<1>3. /\ good_events \in 1 .. Len(groups[wfeb])
      /\ Len(buffer[wfeb]) + good_events <= CAP
  BY <1>2 DEF BInv, Lengths, Storing
<1>4. \A i \in 1 .. good_events : groups[wfeb][i] \in Events /\ groups[wfeb][i].m = msg
  BY <1>2, <1>3, ElementOfSeq DEF BInv, Polls
<1>5. /\ new \in Seq(Events) /\ Len(new) = good_events
      /\ \A k \in 1 .. good_events : new[k] = groups[wfeb][k]
  BY <1>1, <1>2, <1>3, <1>4, SubSeqProperties
<1>6. buffer'[wfeb] = Push(buffer[wfeb], new)
  BY <1>1, <1>2 DEF InsertEvents, BInv, TypeOK
<1>7. /\ buffer[wfeb] \in Seq(Events) /\ new \in Seq(Events)
      /\ Len(buffer[wfeb]) + Len(new) <= CAP
  BY <1>2, <1>3, <1>5
<1>8. /\ Len(Push(buffer[wfeb], new)) = Len(buffer[wfeb]) + Len(new)
      /\ \A i \in 1 .. Len(buffer[wfeb]) : Push(buffer[wfeb], new)[i] = buffer[wfeb][i]
      /\ \A i \in 1 .. Len(new) :
           Push(buffer[wfeb], new)[Len(buffer[wfeb]) + i] = new[i]
  BY <1>7, PushFits
<1>9. QED
  BY <1>4, <1>5, <1>6, <1>8

LEMMA DInvNext == BInv /\ DInv /\ [Next]_vars => DInv'
<1> SUFFICES ASSUME BInv, DInv, [Next]_vars PROVE DInv'
  OBVIOUS
<1>1. CASE Restart
  BY <1>1 DEF Restart, DInv, BInv, TypeOK
<1>2. ASSUME ~Restart PROVE run' = run
  <2>1. CASE GetData
    BY <2>1 DEF GetData, InsertIntoFEBBuffer, GetZMQData, LoseMessage, StartInsert,
                InsertTimes, InsertDropped, InsertEvents
  <2>2. CASE FillFragment
    BY <2>2 DEF FillFragment, NoFragment, FindReference, EraseFromFEBBuffer
  <2> QED
    BY <1>2, <2>1, <2>2 DEF Next, vars
<1>3. ASSUME ~Restart, run = 1, DropsMatch PROVE DropsMatch'
  <2>t. /\ wfeb \in Febs /\ gfeb \in Febs /\ good_events \in Nat /\ msg \in Nat
        /\ \A f \in Febs : /\ buffer[f] \in Seq(Events) /\ Len(buffer[f]) \in Nat
                          /\ droppedbuffer[f] \in Seq(Drops) /\ Len(droppedbuffer[f]) \in Nat
    BY DEF BInv, TypeOK
  <2>1. CASE UNCHANGED <<buffer, droppedbuffer>> /\ wpc # "events" /\ wpc' # "events"
    <3>1. \A f \in Febs : PendingDrops(f) = 0 /\ PendingDrops(f)' = 0
      BY <2>1 DEF PendingDrops
    <3>2. QED
      BY <2>1, <3>1, <1>3 DEF DropsMatch, DropsMatchOf
  <2>2. CASE UNCHANGED <<buffer, droppedbuffer, worker>>
    <3>1. \A f \in Febs : PendingDrops(f)' = PendingDrops(f)
      BY <2>2 DEF PendingDrops, worker
    <3>2. QED
      BY <2>2, <3>1, <1>3 DEF DropsMatch, DropsMatchOf, worker
  <2>3. CASE InsertDropped
    <3>1. /\ wpc = "dropped" /\ wpc' = "events"
          /\ \A f \in Febs \ {wfeb} : droppedbuffer'[f] = droppedbuffer[f]
          /\ UNCHANGED <<buffer, wfeb, good_events, msg>>
      BY <2>3 DEF InsertDropped, BInv, TypeOK
    <3>2. \A f \in Febs : /\ PendingDrops(f) = 0
                          /\ PendingDrops(f)' = IF f = wfeb THEN good_events ELSE 0
      BY <3>1 DEF PendingDrops
    <3>3. Len(droppedbuffer[wfeb]) = Len(buffer[wfeb])
      BY <2>t, <3>2, <1>3 DEF DropsMatch, DropsMatchOf
    <3>4. /\ Len(droppedbuffer'[wfeb]) = Len(buffer[wfeb]) + good_events
          /\ \A n \in 1 .. Len(buffer[wfeb]) :
               droppedbuffer'[wfeb][n] = droppedbuffer[wfeb][n]
          /\ \A k \in 1 .. good_events :
               droppedbuffer'[wfeb][Len(buffer[wfeb]) + k].m = msg
      BY <2>3, <3>3, InsertDroppedFacts
    <3>5. DropsMatchOf(wfeb)'
      BY <2>t, <3>1, <3>2, <3>4, <1>3 DEF DropsMatch, DropsMatchOf
    <3>6. ASSUME NEW f \in Febs, f # wfeb PROVE DropsMatchOf(f)'
      BY <3>1, <3>2, <3>6, <1>3 DEF DropsMatch, DropsMatchOf
    <3>7. ASSUME NEW f \in Febs PROVE DropsMatchOf(f)'
      BY <3>1, <3>5, <3>6
    <3>8. QED
      BY <3>7 DEF DropsMatch
  <2>4. CASE InsertEvents
    <3>1. /\ wpc = "events" /\ wpc' \in {"wait", "get"}
          /\ \A f \in Febs \ {wfeb} : buffer'[f] = buffer[f]
          /\ UNCHANGED <<droppedbuffer, wfeb, good_events, msg>>
      BY <2>4 DEF InsertEvents, BInv, TypeOK
    <3>2. \A f \in Febs : /\ PendingDrops(f)' = 0
                          /\ PendingDrops(f) = IF f = wfeb THEN good_events ELSE 0
      BY <3>1 DEF PendingDrops
    <3>3. /\ Len(buffer'[wfeb]) = Len(buffer[wfeb]) + good_events
          /\ \A n \in 1 .. Len(buffer[wfeb]) : buffer'[wfeb][n] = buffer[wfeb][n]
          /\ \A k \in 1 .. good_events : buffer'[wfeb][Len(buffer[wfeb]) + k].m = msg
      BY <2>4, InsertEventsFacts
    <3>4. ASSUME NEW n \in 1 .. Len(buffer'[wfeb])
          PROVE  droppedbuffer[wfeb][n].m = buffer'[wfeb][n].m
      <4>1. CASE n \in 1 .. Len(buffer[wfeb])
        BY <4>1, <2>t, <3>3, <1>3 DEF DropsMatch, DropsMatchOf
      <4>2. CASE n \notin 1 .. Len(buffer[wfeb])
        <5>1. PICK k \in 1 .. good_events : n = Len(buffer[wfeb]) + k
          <6>1. n - Len(buffer[wfeb]) \in 1 .. good_events
            BY <3>3, <3>4, <4>2, <2>t
          <6>2. n = Len(buffer[wfeb]) + (n - Len(buffer[wfeb]))
            BY <2>t
          <6> QED
            BY <6>1, <6>2
        <5>2. QED
          BY <5>1, <2>t, <3>2, <3>3, <1>3 DEF DropsMatch, DropsMatchOf
      <4>3. QED
        BY <4>1, <4>2
    <3>5. DropsMatchOf(wfeb)'
      BY <2>t, <3>1, <3>2, <3>3, <3>4, <1>3 DEF DropsMatch, DropsMatchOf
    <3>6. ASSUME NEW f \in Febs, f # wfeb PROVE DropsMatchOf(f)'
      BY <3>1, <3>2, <3>6, <1>3 DEF DropsMatch, DropsMatchOf
    <3>7. ASSUME NEW f \in Febs PROVE DropsMatchOf(f)'
      BY <3>1, <3>5, <3>6
    <3>8. QED
      BY <3>7 DEF DropsMatch
  <2>5. CASE EraseFromFEBBuffer
    <3>1. /\ gpc = "build" /\ ~Locked(gfeb)
          /\ buffer'[gfeb] = EraseBegin(buffer[gfeb], i_gps)
          /\ droppedbuffer'[gfeb] = EraseBegin(droppedbuffer[gfeb], i_gps)
          /\ \A f \in Febs \ {gfeb} : /\ buffer'[f] = buffer[f]
                                      /\ droppedbuffer'[f] = droppedbuffer[f]
          /\ UNCHANGED <<worker, gfeb>>
      BY <2>5, <2>t DEF EraseFromFEBBuffer, Used, BInv, TypeOK
    <3>2. /\ \A f \in Febs : PendingDrops(f)' = PendingDrops(f)
          /\ PendingDrops(gfeb) = 0 /\ msg' = msg
      BY <3>1 DEF PendingDrops, Locked, worker
    <3>3. i_gps \in 1 .. Len(buffer[gfeb]) /\ i_gps \in Nat
      BY <3>1, <2>t DEF BInv, ReferenceStays, References
    <3>4. Len(droppedbuffer[gfeb]) = Len(buffer[gfeb]) /\ i_gps <= Len(buffer[gfeb])
      BY <2>t, <3>2, <3>3, <1>3 DEF DropsMatch, DropsMatchOf
    <3>5. /\ Len(buffer'[gfeb]) = Len(buffer[gfeb]) - i_gps
          /\ \A i \in 1 .. Len(buffer[gfeb]) - i_gps :
               buffer'[gfeb][i] = buffer[gfeb][i + i_gps]
      <4>1. buffer[gfeb] \in Seq(Events) /\ i_gps \in Nat /\ i_gps <= Len(buffer[gfeb])
        BY <2>t, <3>3, <3>4
      <4>2. /\ Len(EraseBegin(buffer[gfeb], i_gps)) = Len(buffer[gfeb]) - i_gps
            /\ \A i \in 1 .. Len(buffer[gfeb]) - i_gps :
                 EraseBegin(buffer[gfeb], i_gps)[i] = buffer[gfeb][i + i_gps]
        BY <4>1, EraseFacts
      <4>3. QED
        BY <3>1, <4>2
    <3>6. /\ Len(droppedbuffer'[gfeb]) = Len(buffer[gfeb]) - i_gps
          /\ \A i \in 1 .. Len(buffer[gfeb]) - i_gps :
               droppedbuffer'[gfeb][i] = droppedbuffer[gfeb][i + i_gps]
      <4>1. /\ droppedbuffer[gfeb] \in Seq(Drops)
            /\ i_gps \in Nat /\ i_gps <= Len(droppedbuffer[gfeb])
        BY <2>t, <3>3, <3>4
      <4>2. /\ Len(EraseBegin(droppedbuffer[gfeb], i_gps)) = Len(droppedbuffer[gfeb]) - i_gps
            /\ \A i \in 1 .. Len(droppedbuffer[gfeb]) - i_gps :
                 EraseBegin(droppedbuffer[gfeb], i_gps)[i] = droppedbuffer[gfeb][i + i_gps]
        BY <4>1, EraseFacts
      <4>3. QED
        BY <3>1, <3>4, <4>2
    <3>7. ASSUME NEW n \in 1 .. Len(buffer[gfeb]) - i_gps
          PROVE  droppedbuffer'[gfeb][n].m = buffer'[gfeb][n].m
      <4>1. n + i_gps \in 1 .. Len(buffer[gfeb])
        BY <2>t, <3>3
      <4>2. QED
        BY <2>t, <3>5, <3>6, <4>1, <1>3 DEF DropsMatch, DropsMatchOf
    <3>8. DropsMatchOf(gfeb)'
      BY <2>t, <3>1, <3>2, <3>5, <3>6, <3>7 DEF DropsMatchOf, worker
    <3>9. ASSUME NEW f \in Febs, f # gfeb PROVE DropsMatchOf(f)'
      <4>1. /\ buffer'[f] = buffer[f] /\ droppedbuffer'[f] = droppedbuffer[f]
            /\ PendingDrops(f)' = PendingDrops(f) /\ msg' = msg
        BY <3>1, <3>2, <3>9
      <4>2. DropsMatchOf(f)
        BY <1>3 DEF DropsMatch
      <4>3. QED
        BY <4>1, <4>2 DEF DropsMatchOf
    <3>10. ASSUME NEW f \in Febs PROVE DropsMatchOf(f)'
      BY <3>1, <3>8, <3>9
    <3>11. QED
      BY <3>10 DEF DropsMatch
  <2>6. QED
    BY <1>3, <2>1, <2>2, <2>3, <2>4, <2>5
       DEF Next, GetData, InsertIntoFEBBuffer, FillFragment, GetZMQData, LoseMessage,
           StartInsert, InsertTimes, NoFragment, FindReference, vars, worker
<1>4. QED
  BY <1>1, <1>2, <1>3 DEF DInv

LEMMA DInvHolds == Spec => []DInv
  BY DInvInit, DInvNext, BInvHolds, PTL DEF Spec

\* Until the first restart, the number of dropped events that the framework
\* thread reads beside an event is about the message the event came in.
THEOREM DropsBesideEvents == Spec => []DroppedOfEvents
<1>1. BInv /\ DInv => DroppedOfEvents
  <2> SUFFICES ASSUME BInv, DInv, run = 1, NEW f \in Febs, NEW n \in DOMAIN buffer[f]
               PROVE  n \in DOMAIN droppedbuffer[f] /\ droppedbuffer[f][n].m = buffer[f][n].m
    BY DEF DroppedOfEvents
  <2>1. /\ buffer[f] \in Seq(Events) /\ droppedbuffer[f] \in Seq(Drops)
        /\ good_events \in Nat
    BY DEF BInv, TypeOK
  <2>2. n \in 1 .. Len(buffer[f])
    BY <2>1
  <2>3. Len(droppedbuffer[f]) = Len(buffer[f]) + PendingDrops(f) /\ PendingDrops(f) \in Nat
    BY <2>1 DEF DInv, DropsMatch, DropsMatchOf, PendingDrops
  <2>4. QED
    BY <2>1, <2>2, <2>3 DEF DInv, DropsMatch, DropsMatchOf
<1>2. QED
  BY <1>1, BInvHolds, DInvHolds, PTL

-----------------------------------------------------------------------------
(* The buffers implement the queues of EventQueues.                         *)

\* An insertion that fits leaves the old sequence as a prefix of the new one.
LEMMA PushPrefix ==
  ASSUME NEW S, NEW q \in Seq(S), NEW new \in Seq(S), Len(q) + Len(new) <= CAP
  PROVE  SubSeq(Push(q, new), 1, Len(q)) = q
<1>1. PICK p : p = Push(q, new)
  OBVIOUS
<1>2. /\ p \in Seq(S) /\ Len(p) = Len(q) + Len(new)
      /\ \A i \in 1 .. Len(q) : p[i] = q[i]
  BY <1>1, PushFits
<1>3. Len(q) \in Nat /\ Len(new) \in Nat
  OBVIOUS
<1>4. \A i \in 1 .. Len(q) : p[i] \in S
  BY <1>2, ElementOfSeq
<1>5. /\ SubSeq(p, 1, Len(q)) \in Seq(S)
      /\ Len(SubSeq(p, 1, Len(q))) = Len(q)
      /\ \A i \in 1 .. Len(q) : SubSeq(p, 1, Len(q))[i] = p[i]
  BY <1>2, <1>3, <1>4, SubSeqProperties
<1>6. SubSeq(p, 1, Len(q)) = q
  BY <1>2, <1>5, SeqEqual
<1>7. QED
  BY <1>1, <1>6

LEMMA QueuesInit == Init => Queues!Init
  BY DEF Init, Queues!Init

LEMMA QueuesNext == BInv /\ [Next]_vars => [Queues!Next]_buffer
<1> SUFFICES ASSUME BInv, [Next]_vars, buffer' # buffer
             PROVE  Queues!Next
  OBVIOUS
<1>t. /\ TypeOK /\ wfeb \in Febs /\ gfeb \in Febs
      /\ \A f \in Febs : /\ buffer[f] \in Seq(Events) /\ Len(buffer[f]) \in Nat
                        /\ groups[f] \in Seq(Events)
  BY DEF BInv, TypeOK
<1>1. CASE InsertEvents
  <2>1. PICK new : new = SubSeq(groups[wfeb], 1, good_events)
    OBVIOUS
  <2>2. /\ good_events \in 1 .. Len(groups[wfeb])
        /\ Len(buffer[wfeb]) + good_events <= CAP
    BY <1>1 DEF BInv, Lengths, Storing, InsertEvents
  <2>3. \A i \in 1 .. good_events : groups[wfeb][i] \in Events
    BY <2>2, <1>t, ElementOfSeq
  <2>4. new \in Seq(Events) /\ Len(new) = good_events
    BY <2>1, <2>2, <2>3, <1>t, SubSeqProperties
  <2>5. /\ buffer[wfeb] \in Seq(Events) /\ new \in Seq(Events)
        /\ Len(buffer[wfeb]) + Len(new) <= CAP
    BY <2>2, <2>4, <1>t
  <2>6. buffer' = [buffer EXCEPT ![wfeb] = Push(buffer[wfeb], new)]
    BY <1>1, <2>1 DEF InsertEvents
  <2>7. /\ buffer'[wfeb] = Push(buffer[wfeb], new)
        /\ \A g \in Febs \ {wfeb} : buffer'[g] = buffer[g]
    BY <2>6, <1>t DEF TypeOK
  <2>8. Len(Push(buffer[wfeb], new)) = Len(buffer[wfeb]) + Len(new)
    BY <2>5, PushFits
  <2>9. SubSeq(Push(buffer[wfeb], new), 1, Len(buffer[wfeb])) = buffer[wfeb]
    BY <2>5, PushPrefix
  <2>10. Len(buffer'[wfeb]) > Len(buffer[wfeb])
    BY <2>7, <2>8, <2>4, <2>2, <1>t
  <2>11. Queues!Store(wfeb)
    BY <2>7, <2>9, <2>10 DEF Queues!Store, Queues!Others
  <2>12. QED
    BY <2>11, <1>t DEF Queues!Next
<1>2. CASE EraseFromFEBBuffer
  <2>1. /\ i_gps \in DOMAIN buffer[gfeb]
        /\ buffer[gfeb][i_gps].ref
        /\ \A i \in 1 .. i_gps - 1 : ~buffer[gfeb][i].ref
    BY <1>2 DEF BInv, ReferenceStays, References, EraseFromFEBBuffer
  <2>2. /\ buffer'[gfeb] = SubSeq(buffer[gfeb], i_gps + 1, Len(buffer[gfeb]))
        /\ \A g \in Febs \ {gfeb} : buffer'[g] = buffer[g]
    BY <1>2, <1>t DEF EraseFromFEBBuffer, EraseBegin, Used, TypeOK
  <2>3. Queues!Take(gfeb)
    BY <2>1, <2>2 DEF Queues!Take, Queues!Others
  <2>4. QED
    BY <2>3, <1>t DEF Queues!Next
<1>3. CASE Restart
  BY <1>3 DEF Restart, Queues!Next, Queues!NewRun
<1>4. QED
  BY <1>1, <1>2, <1>3
     DEF Next, GetData, InsertIntoFEBBuffer, FillFragment, GetZMQData, LoseMessage,
         StartInsert, InsertTimes, InsertDropped, NoFragment, FindReference, vars

\* The circular buffers, written by one thread and read by another without
\* their mutex, are queues: no event is overwritten, and events leave a buffer
\* only in batches that end with their only GPS reference.
THEOREM BuffersAreQueues == Spec => QueuesSpec
<1>1. BInv /\ [Next]_vars => [Queues!Next]_buffer
  BY QueuesNext
<1>2. Init => Queues!Init
  BY QueuesInit
<1>3. QED
  BY <1>1, <1>2, BInvHolds, PTL DEF Spec, QueuesSpec, Queues!Spec
=============================================================================
