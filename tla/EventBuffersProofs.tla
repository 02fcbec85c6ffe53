--------------------------- MODULE EventBuffersProofs ---------------------------
(***************************************************************************)
(* Proofs about EventBuffers, for every number of buffers, every size and  *)
(* every bound.                                                            *)
(***************************************************************************)
EXTENDS EventBuffers, SequenceTheorems, TLAPS

\* How far evnum and the chosen slot can be: the callback only lowers evnum, so
\* between the read of the index and the increment it is at most the index.
Counts ==
  /\ \A b \in Bufs : /\ evbufstat[b] = Filling => evnum[b] < FULL
                     /\ evbufstat[b] = IsFull => evnum[b] <= FULL
  /\ pc = "append" => cur.idx < FULL /\ evnum[cur.buf] <= cur.idx
  /\ pc = "publish" => /\ cur.idx <= FULL /\ evnum[cur.buf] <= cur.idx
                       /\ evbufstat[cur.buf] \notin {Filling, IsFull}

\* No second buffer is begun while one is being filled.
OneFilling ==
  /\ AtMostOneFilling
  /\ pc = "begin" => \A b \in Bufs : evbufstat[b] # Filling
  /\ pc = "append" => \A b \in Bufs : evbufstat[b] = Filling => b = cur.buf

CInv == TypeOK /\ Counts /\ OneFilling

-----------------------------------------------------------------------------
(* Facts about the operators of the model.                                  *)

\* The trailing slots of a published prefix are blank, so it has the type of
\* the slots of a buffer.
LEMMA PrefixType ==
  ASSUME NEW slots \in [Indices -> Slots], NEW len \in Nat
  PROVE  Prefix(slots, len) \in [Indices -> Slots]
BY DEF Prefix, Slots, Zeroes

\* The slots the model writes are slots.
LEMMA SlotTypes ==
  ASSUME NEW n \in Nat
  PROVE  /\ Event(n) \in Slots
         /\ Trailer(n) \in Slots
         /\ Zeroes \in Slots
         /\ Blank \in [Indices -> Slots]
BY DEF Event, Trailer, Zeroes, Slots, Blank

\* What Append does to the elements of a queue.
LEMMA AppendFacts ==
  ASSUME NEW S, NEW q \in Seq(S), NEW m \in S
  PROVE  /\ Append(q, m) \in Seq(S)
         /\ Len(Append(q, m)) = Len(q) + 1
         /\ \A i \in 1 .. Len(q) : Append(q, m)[i] = q[i]
         /\ Append(q, m)[Len(q) + 1] = m
OBVIOUS

\* What Tail does to them.
LEMMA TailFacts ==
  ASSUME NEW S, NEW q \in Seq(S), q # <<>>
  PROVE  /\ Tail(q) \in Seq(S)
         /\ Len(Tail(q)) = Len(q) - 1
         /\ \A i \in 1 .. Len(q) - 1 : Tail(q)[i] = q[i + 1]
         /\ Head(q) = q[1]
         /\ Head(q) \in S
         /\ Len(q) >= 1
<1>1. Len(q) >= 1
  BY EmptySeq
<1>2. QED
  BY <1>1

-----------------------------------------------------------------------------
(* The control invariant.                                                   *)

LEMMA CInvInit == Init => CInv
<1> SUFFICES ASSUME Init PROVE CInv
  OBVIOUS
<1>1. 0 \in Bufs
  BY NBUFSAssumption DEF Bufs
<1>2. TypeOK
  BY <1>1, SlotTypes, FULLAssumption DEF Init, TypeOK, Statuses, Empty, Indices
<1>3. Counts /\ OneFilling
  BY DEF Init, Counts, OneFilling, AtMostOneFilling, Filling, IsFull, Empty
<1>4. QED
  BY <1>2, <1>3 DEF CInv

LEMMA CInvMain == CInv /\ MainThread => CInv'
<1> SUFFICES ASSUME CInv, MainThread PROVE CInv'
  OBVIOUS
<1> USE DEF CInv, Statuses, Empty, Filling, IsFull, BeingSent
<1>f. FULL \in Nat /\ FULL > 1 /\ (\A x \in 0 .. FULL : x \in Indices)
  BY FULLAssumption DEF Indices
<1>1. CASE startDAQ
  <2>1. /\ evbufstat' = [b \in Bufs |-> Empty]
        /\ evnum' = [b \in Bufs |-> 0]
        /\ evbuf' = [b \in Bufs |-> Blank]
        /\ good' = [b \in Bufs |-> {}]
        /\ pc = "top" /\ pc' = "top" /\ starts' = starts + 1
        /\ UNCHANGED <<cur, outq, pending, published, next>>
    BY <1>1 DEF startDAQ
  <2>2. daqon' \in BOOLEAN /\ quiet' \in BOOLEAN
    BY <1>1, Zenon DEF startDAQ, TypeOK
  <2>3. Blank \in [Indices -> Slots]
    BY SlotTypes, 0 \in Nat
  <2>4. TypeOK'
    BY <2>1, <2>2, <2>3, <1>f DEF TypeOK
  <2>5. Counts' /\ OneFilling'
    BY <2>1 DEF Counts, OneFilling, AtMostOneFilling
  <2>6. QED
    BY <2>4, <2>5
<1>2. CASE stopDAQ
  BY <1>2 DEF stopDAQ, TypeOK, Counts, OneFilling, AtMostOneFilling
<1>3. CASE polldata
  BY <1>3 DEF polldata, TypeOK, Counts, OneFilling, AtMostOneFilling
<1>4. CASE getFilling
  <2>1. PICK b \in Bufs : evbufstat[b] = Filling /\ cur' = [buf |-> b, idx |-> evnum[b]]
    BY <1>4 DEF getFilling, FirstOf, With
  <2>2. evnum[b] \in Nat /\ evnum[b] < FULL
    BY <2>1, <1>f DEF TypeOK, Counts
  <2>3. TypeOK'
    BY <1>4, <2>1, <2>2, <1>f DEF getFilling, TypeOK
  <2>4. Counts'
    BY <1>4, <2>1, <2>2 DEF getFilling, Counts
  <2>5. OneFilling'
    BY <1>4, <2>1 DEF getFilling, OneFilling, AtMostOneFilling
  <2>6. QED
    BY <2>3, <2>4, <2>5
<1>5. CASE putFilling
  <2> DEFINE b == cur.buf
  <2>1. PICK n \in {cur.idx + 1, evnum[b] + 1} :
          /\ evnum' = [evnum EXCEPT ![b] = n]
          /\ evbufstat' = [evbufstat EXCEPT ![b] = IF CountIsFull(n) THEN IsFull ELSE @]
          /\ evbuf' = [evbuf EXCEPT ![b][cur.idx] = Event(next)]
          /\ good' = [good EXCEPT ![b] = @ \cup {next}]
    BY <1>5 DEF putFilling
  <2>2. b \in Bufs /\ cur.idx \in Indices /\ cur.idx < FULL /\ evnum[b] <= cur.idx
        /\ evnum[b] \in Nat /\ cur.idx \in Nat
    BY <1>5, <1>f DEF putFilling, TypeOK, Counts, Indices
  <2>3. n \in Nat /\ n <= FULL /\ n \in 0 .. FULL + 1
    BY <2>1, <2>2, <1>f
  <2>4. /\ evbufstat' \in [Bufs -> Statuses]
        /\ evnum' \in [Bufs -> 0 .. FULL + 1]
        /\ good' \in [Bufs -> SUBSET Nat]
    BY <2>1, <2>2, <2>3 DEF TypeOK
  <2>5. evbuf' \in [Bufs -> [Indices -> Slots]]
    BY <2>1, <2>2, SlotTypes DEF TypeOK
  <2>6. TypeOK'
    BY <1>5, <2>4, <2>5 DEF putFilling, TypeOK
  <2>7. Counts'
    BY <1>5, <2>1, <2>2, <2>3, <1>f DEF putFilling, Counts, TypeOK, CountIsFull
  <2>8. OneFilling'
    BY <1>5, <2>1, <2>2 DEF putFilling, OneFilling, AtMostOneFilling, TypeOK
  <2>9. QED
    BY <2>6, <2>7, <2>8
<1>6. CASE getEmpty
  <2>1. PICK b \in Bufs : cur' = [buf |-> b, idx |-> 0]
    BY <1>6 DEF getEmpty, FirstOf, With, ToBegin
  <2>2. \A c \in Bufs : evbufstat[c] # Filling
    BY <1>6 DEF getEmpty, FirstOf, With, ToBegin
  <2>3. TypeOK'
    BY <1>6, <2>1, <1>f DEF getEmpty, TypeOK
  <2>4. Counts' /\ OneFilling'
    BY <1>6, <2>2 DEF getEmpty, Counts, OneFilling, AtMostOneFilling
  <2>5. QED
    BY <2>3, <2>4
<1>7. CASE putEmpty
  <2> DEFINE b == cur.buf
  <2>1. b \in Bufs
    BY DEF TypeOK
  <2>2. /\ evbufstat' = [evbufstat EXCEPT ![b] = Filling]
        /\ evnum' = [evnum EXCEPT ![b] = 1]
        /\ evbuf' = [evbuf EXCEPT ![b][0] = Event(next)]
        /\ good' = [good EXCEPT ![b] = {next}]
        /\ pc = "begin" /\ pc' = "poll"
    BY <1>7 DEF putEmpty, BegunCount
  <2>3. evbuf' \in [Bufs -> [Indices -> Slots]]
    BY <2>1, <2>2, <1>f, SlotTypes DEF TypeOK
  <2>4. TypeOK'
    BY <1>7, <2>1, <2>2, <2>3, <1>f DEF putEmpty, TypeOK
  <2>5. Counts'
    BY <2>1, <2>2, <1>f DEF Counts, TypeOK
  <2>6. OneFilling'
    BY <2>1, <2>2 DEF OneFilling, AtMostOneFilling, TypeOK
  <2>7. QED
    BY <2>4, <2>5, <2>6
<1>8. CASE Overrun
  BY <1>8 DEF Overrun, TypeOK, Counts, OneFilling, AtMostOneFilling
<1>9. CASE PollDone
  BY <1>9 DEF PollDone, TypeOK, Counts, OneFilling, AtMostOneFilling
<1>10. CASE senddata
  <2>1. CASE evbufstat' = evbufstat /\ evbuf' = evbuf /\ cur' = cur /\ pc' = "top"
    BY <1>10, <2>1 DEF senddata, TypeOK, Counts, OneFilling, AtMostOneFilling
  <2>2. CASE \E b \in LastOf(With({Filling, IsFull})) :
               /\ pc' = "publish"
               /\ cur' = [buf |-> b, idx |-> evnum[b]]
               /\ evbufstat' = [evbufstat EXCEPT ![b] = BeingSent]
               /\ evbuf' = [evbuf EXCEPT ![b][evnum[b]] = Trailer(evnum[b])]
    <3>1. PICK b \in Bufs :
               /\ evbufstat[b] \in {Filling, IsFull}
               /\ pc' = "publish"
               /\ cur' = [buf |-> b, idx |-> evnum[b]]
               /\ evbufstat' = [evbufstat EXCEPT ![b] = BeingSent]
               /\ evbuf' = [evbuf EXCEPT ![b][evnum[b]] = Trailer(evnum[b])]
      BY <2>2 DEF LastOf, With
    <3>2. evnum[b] \in Nat /\ evnum[b] <= FULL /\ evnum[b] \in Indices
      BY <3>1, <1>f DEF TypeOK, Counts
    <3>3. evbuf' \in [Bufs -> [Indices -> Slots]]
      BY <3>1, <3>2, SlotTypes DEF TypeOK
    <3>4. TypeOK'
      BY <1>10, <3>1, <3>2, <3>3 DEF senddata, TypeOK
    <3>5. Counts'
      BY <1>10, <3>1, <3>2 DEF senddata, TypeOK, Counts
    <3>6. OneFilling'
      BY <1>10, <3>1 DEF senddata, TypeOK, OneFilling, AtMostOneFilling
    <3>7. QED
      BY <3>4, <3>5, <3>6
  <2>3. QED
    BY <1>10, <2>1, <2>2 DEF senddata
<1>11. CASE Publish
  <2> DEFINE b == cur.buf
  <2>1. PICK n \in {cur.idx + 1, evnum[b] + 1} :
         \/ /\ outq' = Append(outq, [buf |-> b, len |-> n,
                                     data |-> Prefix(evbuf[b], n)])
            /\ evnum' = [evnum EXCEPT ![b] = n]
            /\ UNCHANGED evbufstat
         \/ /\ evbufstat' = [evbufstat EXCEPT ![b] = Empty]
            /\ evnum' = [evnum EXCEPT ![b] = 0]
            /\ UNCHANGED outq
    BY <1>11 DEF Publish
  <2>2. b \in Bufs /\ cur.idx <= FULL /\ evnum[b] \in Nat /\ evnum[b] <= FULL
        /\ cur.idx \in Nat /\ evbuf[b] \in [Indices -> Slots]
    BY <1>11, <1>f DEF Publish, TypeOK, Counts, Indices
  <2>3. n \in 0 .. FULL + 1 /\ n \in Nat
    BY <2>1, <2>2, <1>f
  <2>4. [buf |-> b, len |-> n, data |-> Prefix(evbuf[b], n)] \in Messages
    BY <2>2, <2>3, PrefixType DEF Messages
  <2>5. outq' \in Seq(Messages)
    <3>1. outq \in Seq(Messages)
      BY DEF TypeOK
    <3>2. Append(outq, [buf |-> b, len |-> n, data |-> Prefix(evbuf[b], n)])
            \in Seq(Messages)
      BY <3>1, <2>4, AppendFacts
    <3>3. QED
      BY <2>1, <3>1, <3>2
  <2>a. evnum' \in [Bufs -> 0 .. FULL + 1]
    <3>1. 0 \in 0 .. FULL + 1 /\ evnum \in [Bufs -> 0 .. FULL + 1]
      BY <1>f DEF TypeOK
    <3>2. QED
      BY <2>1, <2>2, <2>3, <3>1
  <2>6. evbufstat' \in [Bufs -> Statuses]
    BY <2>1, <2>2 DEF TypeOK
  <2>7. TypeOK'
    BY <1>11, <2>5, <2>6, <2>a DEF Publish, TypeOK
  <2>8. /\ evbufstat[b] \notin {Filling, IsFull}
        /\ pc = "publish" /\ pc' = "top"
    BY <1>11 DEF Publish, Counts
  <2>9. Counts' /\ OneFilling'
    <3>1. \A c \in Bufs : evbufstat'[c] \in {Filling, IsFull} =>
            c # b /\ evbufstat'[c] = evbufstat[c] /\ evnum'[c] = evnum[c]
      BY <2>1, <2>2, <2>8 DEF TypeOK
    <3>2. Counts'
      BY <3>1, <2>8 DEF Counts
    <3>3. OneFilling'
      BY <3>1, <2>8 DEF OneFilling, AtMostOneFilling
    <3>4. QED
      BY <3>2, <3>3
  <2>10. QED
    BY <2>7, <2>9
<1>12. QED
  BY <1>1, <1>2, <1>3, <1>4, <1>5, <1>6, <1>7, <1>8, <1>9, <1>10, <1>11
     DEF MainThread, getnextevent

LEMMA CInvIO == CInv /\ IOThread => CInv'
<1> SUFFICES ASSUME CInv, IOThread PROVE CInv'
  OBVIOUS
<1> USE DEF CInv, Statuses, Empty, Filling, IsFull, BeingSent
<1>1. CASE Transmit
  <2>1. /\ Head(outq) \in Messages /\ Tail(outq) \in Seq(Messages)
        /\ Head(outq).buf \in Bufs
    <3>1. outq \in Seq(Messages) /\ outq # <<>>
      BY <1>1 DEF Transmit, TypeOK
    <3>2. /\ Head(outq) \in Messages /\ Tail(outq) \in Seq(Messages)
      BY <3>1, TailFacts
    <3>3. QED
      BY <3>2 DEF Messages
  <2>a. pending' = {"stat", "num"} \X {Head(outq).buf}
    BY <1>1 DEF Transmit, Stores
  <2>2. /\ pending' \in SUBSET ({"stat", "num"} \X Bufs)
        /\ outq' \in Seq(Messages)
    BY <1>1, <2>1, <2>a DEF Transmit
  <2>3. Prefix(evbuf[Head(outq).buf], Head(outq).len) \in [Indices -> Slots]
    BY <2>1, PrefixType DEF TypeOK, Messages
  <2>4. published' \in Seq([Indices -> Slots])
    <3>1. published \in Seq([Indices -> Slots])
      BY DEF TypeOK
    <3>2. Append(published, Prefix(evbuf[Head(outq).buf], Head(outq).len))
            \in Seq([Indices -> Slots])
      BY <3>1, <2>3, AppendFacts
    <3>3. QED
      BY <1>1, <3>1, <3>2 DEF Transmit
  <2>5. QED
    BY <1>1, <2>2, <2>4
       DEF Transmit, TypeOK, Counts, OneFilling, AtMostOneFilling
<1>2. CASE free_subbufer
  <2>1. PICK st \in pending :
       /\ pending' = pending \ {st}
       /\ IF st[1] = "stat"
          THEN /\ evbufstat' = [evbufstat EXCEPT ![st[2]] = Empty]
               /\ UNCHANGED evnum
          ELSE /\ evnum' = [evnum EXCEPT ![st[2]] = 0]
               /\ UNCHANGED evbufstat
    BY <1>2 DEF free_subbufer
  <2>2. st[2] \in Bufs
    BY <2>1 DEF TypeOK
  <2>f. FULL \in Nat /\ FULL > 1
    BY FULLAssumption
  <2>p. pending' \in SUBSET ({"stat", "num"} \X Bufs)
    BY <2>1 DEF TypeOK
  <2>3. CASE evbufstat' = [evbufstat EXCEPT ![st[2]] = Empty] /\ evnum' = evnum
    <3>1. TypeOK'
      BY <1>2, <2>3, <2>2, <2>p DEF free_subbufer, TypeOK
    <3>2. Counts' /\ OneFilling'
      BY <1>2, <2>3, <2>2
         DEF free_subbufer, TypeOK, Counts, OneFilling, AtMostOneFilling
    <3>3. QED
      BY <3>1, <3>2
  <2>4. CASE evnum' = [evnum EXCEPT ![st[2]] = 0] /\ evbufstat' = evbufstat
    <3>1. TypeOK'
      BY <1>2, <2>4, <2>2, <2>f, <2>p DEF free_subbufer, TypeOK
    <3>2. cur.idx \in Nat
      BY DEF TypeOK, Indices
    <3>3. Counts' /\ OneFilling'
      BY <1>2, <2>4, <2>2, <2>f, <3>2
         DEF free_subbufer, TypeOK, Counts, OneFilling, AtMostOneFilling
    <3>4. QED
      BY <3>1, <3>3
  <2>6. QED
    BY <2>1, <2>3, <2>4
<1>3. QED
  BY <1>1, <1>2 DEF IOThread

LEMMA CInvHolds == Spec => []CInv
<1>1. CInv /\ UNCHANGED vars => CInv'
  BY DEF CInv, vars, TypeOK, Counts, OneFilling, AtMostOneFilling
<1>2. CInv /\ [Next]_vars => CInv'
  BY <1>1, CInvMain, CInvIO DEF Next
<1>3. QED
  BY CInvInit, <1>2, PTL DEF Spec

\* Every variable has its type, and evnum never passes FULL+1: neither the late
\* reset of free_subbufer nor a restart makes the driver index past the slot
\* of the trailer.
THEOREM TypeCorrect == Spec => []TypeOK
BY CInvHolds, PTL DEF CInv

\* getnextevent never fills two buffers at once, whatever the callbacks and the
\* restarts do in between.
THEOREM OneBufferFilling == Spec => []AtMostOneFilling
BY CInvHolds, PTL DEF CInv, OneFilling

\* With the slots of the declaration kept in a comment, getnextevent and the
\* trailer stay inside the array.
THEOREM SlotsSuffice == Spec => []SlotDeclaredIfSized
<1>1. CInv => SlotDeclaredIfSized
  BY FULLAssumption, BoundsAssumption
     DEF CInv, Counts, TypeOK, Indices, SlotDeclaredIfSized, SlotDeclared
<1>2. QED
  BY CInvHolds, <1>1, PTL

-----------------------------------------------------------------------------
(* Who owns a buffer.  Without a DAQ_BEG during a transmission, a buffer is  *)
(* of the queue, of the callback or of senddata, and then its status is 3    *)
(* and nothing writes its slots; or it is of getnextevent.                   *)

Freeing(b) == <<"stat", b>> \in pending

Owned ==
  /\ \A i, j \in DOMAIN outq : outq[i].buf = outq[j].buf => i = j
  /\ \A i \in DOMAIN outq : evbufstat[outq[i].buf] = BeingSent
  /\ \A i \in DOMAIN outq : ~Freeing(outq[i].buf)
  /\ \A b \in Bufs : Freeing(b) => evbufstat[b] = BeingSent
  /\ pc = "publish" => /\ evbufstat[cur.buf] = BeingSent
                       /\ ~Freeing(cur.buf)
                       /\ \A i \in DOMAIN outq : outq[i].buf # cur.buf
  /\ pc = "append" => evbufstat[cur.buf] = Filling
  /\ pc = "begin" => evbufstat[cur.buf] = Empty

Intact == \A i \in DOMAIN outq :
  Prefix(evbuf[outq[i].buf], outq[i].len) = outq[i].data

OInv == quiet => Owned /\ Intact

LEMMA OInvInit == Init => OInv
BY DEF Init, OInv, Owned, Intact, Freeing

\* The queue holds messages of the driver's buffers.
LEMMA QueuedBufs == CInv => \A i \in DOMAIN outq : outq[i].buf \in Bufs
<1>1. CInv => outq \in Seq(Messages)
  BY DEF CInv, TypeOK
<1>2. \A q \in Seq(Messages) : \A i \in DOMAIN q : q[i] \in Messages
  OBVIOUS
<1>3. \A m \in Messages : m.buf \in Bufs
  BY DEF Messages
<1>4. QED
  BY <1>1, <1>2, <1>3

\* Slots are written in buffers whose status is not 3 before the write.
LEMMA WritesElsewhere ==
  ASSUME Owned, Intact, CInv, outq' = outq,
         NEW c \in Bufs, \A i \in DOMAIN outq : outq[i].buf # c,
         \A b \in Bufs : b # c => evbuf'[b] = evbuf[b]
  PROVE  Intact'
<1>1. \A i \in DOMAIN outq : outq[i].buf \in Bufs
  BY QueuedBufs
<1>2. QED
  BY <1>1 DEF Intact

LEMMA OInvMain == CInv /\ OInv /\ MainThread => OInv'
<1> SUFFICES ASSUME CInv, OInv, MainThread, quiet' PROVE Owned' /\ Intact'
  BY DEF OInv
<1> USE DEF Statuses, Empty, Filling, IsFull, BeingSent
<1>q. \A i \in DOMAIN outq : outq[i].buf \in Bufs
  BY QueuedBufs
<1>t. /\ evbufstat \in [Bufs -> Statuses]
      /\ evbuf \in [Bufs -> [Indices -> Slots]]
      /\ cur.buf \in Bufs
      /\ outq \in Seq(Messages)
  BY DEF CInv, TypeOK
<1>1. CASE startDAQ
  <2>1. outq = <<>> /\ outq' = <<>> /\ pending' = {} /\ pc' = "top"
    BY <1>1 DEF startDAQ
  <2>2. QED
    BY <2>1 DEF Owned, Intact, Freeing
<1> SUFFICES ASSUME quiet, Owned, Intact, ~startDAQ PROVE Owned' /\ Intact'
  <2>1. ~startDAQ => (quiet' <=> quiet)
    BY DEF MainThread, getnextevent, stopDAQ, polldata, getFilling, putFilling,
           getEmpty, putEmpty, Overrun, PollDone, senddata, Publish
  <2>2. QED
    BY <1>1, <2>1 DEF OInv
<1>2. CASE stopDAQ
  BY <1>2 DEF stopDAQ, Owned, Intact, Freeing
<1>3. CASE polldata
  BY <1>3 DEF polldata, Owned, Intact, Freeing
<1>4. CASE getFilling
  BY <1>4 DEF getFilling, FirstOf, With, Owned, Intact, Freeing
<1>5. CASE putFilling
  <2> DEFINE b == cur.buf
  <2>1. /\ evbufstat[b] = Filling
        /\ evbufstat'[b] \in {Filling, IsFull}
        /\ \A c \in Bufs : c # b => evbufstat'[c] = evbufstat[c]
        /\ pc' = "poll" /\ outq' = outq /\ pending' = pending
    BY <1>5, <1>t DEF putFilling, Owned
  <2>2. \A c \in Bufs : c # b => evbuf'[c] = evbuf[c]
    BY <1>5, <1>t DEF putFilling
  <2>3. \A i \in DOMAIN outq : outq[i].buf # b
    BY <2>1 DEF Owned
  <2>4. Intact'
    BY <1>t, <2>1, <2>2, <2>3, WritesElsewhere
  <2>5. Owned'
    BY <1>t, <1>q, <2>1, <2>3 DEF Owned, Freeing
  <2>6. QED
    BY <2>4, <2>5
<1>6. CASE getEmpty
  BY <1>6 DEF getEmpty, FirstOf, With, ToBegin, Owned, Intact, Freeing
<1>7. CASE putEmpty
  <2> DEFINE b == cur.buf
  <2>1. /\ evbufstat[b] = Empty
        /\ evbufstat'[b] = Filling
        /\ \A c \in Bufs : c # b => evbufstat'[c] = evbufstat[c]
        /\ pc' = "poll" /\ outq' = outq /\ pending' = pending
    BY <1>7, <1>t DEF putEmpty, Owned
  <2>2. \A c \in Bufs : c # b => evbuf'[c] = evbuf[c]
    BY <1>7, <1>t DEF putEmpty
  <2>3. \A i \in DOMAIN outq : outq[i].buf # b
    BY <2>1 DEF Owned
  <2>4. Intact'
    BY <1>t, <2>1, <2>2, <2>3, WritesElsewhere
  <2>5. Owned'
    BY <1>t, <1>q, <2>1, <2>3 DEF Owned, Freeing
  <2>6. QED
    BY <2>4, <2>5
<1>8. CASE Overrun
  BY <1>8 DEF Overrun, Owned, Intact, Freeing
<1>9. CASE PollDone
  BY <1>9 DEF PollDone, Owned, Intact, Freeing
<1>10. CASE senddata
  <2>1. CASE evbufstat' = evbufstat /\ evbuf' = evbuf /\ cur' = cur /\ pc' = "top"
    BY <1>10, <2>1 DEF senddata, Owned, Intact, Freeing
  <2>2. CASE \E b \in LastOf(With({Filling, IsFull})) :
               /\ pc' = "publish"
               /\ cur' = [buf |-> b, idx |-> evnum[b]]
               /\ evbufstat' = [evbufstat EXCEPT ![b] = BeingSent]
               /\ evbuf' = [evbuf EXCEPT ![b][evnum[b]] = Trailer(evnum[b])]
    <3>1. PICK b \in Bufs :
               /\ evbufstat[b] \in {Filling, IsFull}
               /\ pc' = "publish"
               /\ cur' = [buf |-> b, idx |-> evnum[b]]
               /\ evbufstat' = [evbufstat EXCEPT ![b] = BeingSent]
               /\ evbuf' = [evbuf EXCEPT ![b][evnum[b]] = Trailer(evnum[b])]
      BY <2>2 DEF LastOf, With
    <3>2. /\ \A i \in DOMAIN outq : outq[i].buf # b
          /\ ~Freeing(b)
      BY <3>1 DEF Owned
    <3>3. outq' = outq /\ pending' = pending
      BY <1>10 DEF senddata
    <3>4. \A c \in Bufs : c # b => evbuf'[c] = evbuf[c]
      BY <3>1, <1>t
    <3>5. Intact'
      BY <3>2, <3>3, <3>4, WritesElsewhere
    <3>6. Owned'
      BY <3>1, <3>2, <3>3, <1>t, <1>q DEF Owned, Freeing
    <3>7. QED
      BY <3>5, <3>6
  <2>3. QED
    BY <1>10, <2>1, <2>2 DEF senddata
<1>11. CASE Publish
  <2> DEFINE b == cur.buf
             m(n) == [buf |-> b, len |-> n, data |-> Prefix(evbuf[b], n)]
  <2>1. /\ evbufstat[b] = BeingSent /\ ~Freeing(b)
        /\ \A i \in DOMAIN outq : outq[i].buf # b
        /\ pc' = "top" /\ pending' = pending /\ evbuf' = evbuf
    BY <1>11 DEF Publish, Owned
  <2>2. CASE outq' = outq /\ evbufstat' = [evbufstat EXCEPT ![b] = Empty]
    BY <2>1, <2>2, <1>t, <1>q DEF Owned, Intact, Freeing
  <2>3. CASE evbufstat' = evbufstat /\ \E n \in {cur.idx + 1, evnum[b] + 1} :
               outq' = Append(outq, m(n))
    <3>1. PICK n \in {cur.idx + 1, evnum[b] + 1} : outq' = Append(outq, m(n))
      BY <2>3
    <3>2. n \in Nat
      BY DEF CInv, TypeOK, Indices
    <3>3. m(n) \in Messages
      BY <3>2, <1>t, PrefixType DEF Messages
    <3>4. /\ Len(outq') = Len(outq) + 1
          /\ \A i \in 1 .. Len(outq) : outq'[i] = outq[i]
          /\ outq'[Len(outq) + 1] = m(n)
          /\ outq' \in Seq(Messages)
      BY <3>1, <3>3, <1>t, AppendFacts
    <3>5. /\ DOMAIN outq = 1 .. Len(outq) /\ DOMAIN outq' = 1 .. Len(outq) + 1
          /\ Len(outq) \in Nat
      BY <3>4, <1>t
    <3>6. /\ \A i \in DOMAIN outq' : i \notin DOMAIN outq => i = Len(outq) + 1
          /\ \A i \in DOMAIN outq : outq'[i] = outq[i]
          /\ outq'[Len(outq) + 1].buf = b
          /\ Prefix(evbuf[b], outq'[Len(outq) + 1].len) = outq'[Len(outq) + 1].data
      BY <3>4, <3>5
    <3>7. Intact'
      BY <3>6, <2>1 DEF Intact
    <3>8. Owned'
      BY <3>6, <2>1, <2>3 DEF Owned, Freeing
    <3>9. QED
      BY <3>7, <3>8
  <2>4. QED
    BY <1>11, <2>2, <2>3 DEF Publish
<1>12. QED
  BY <1>2, <1>3, <1>4, <1>5, <1>6, <1>7, <1>8, <1>9, <1>10, <1>11
     DEF MainThread, getnextevent

LEMMA OInvIO == CInv /\ OInv /\ IOThread => OInv'
<1> SUFFICES ASSUME CInv, IOThread, Owned, Intact PROVE Owned' /\ Intact'
  BY DEF OInv, IOThread, Transmit, free_subbufer
<1> USE DEF Statuses, Empty, Filling, IsFull, BeingSent
<1>t. /\ evbufstat \in [Bufs -> Statuses]
      /\ cur.buf \in Bufs
      /\ outq \in Seq(Messages)
      /\ pending \in SUBSET ({"stat", "num"} \X Bufs)
  BY DEF CInv, TypeOK
<1>1. CASE Transmit
  <2> DEFINE h == Head(outq).buf
  <2>1. /\ outq' = Tail(outq) /\ outq # <<>> /\ pending = {}
        /\ pending' = {"stat", "num"} \X {h}
        /\ evbufstat' = evbufstat /\ evbuf' = evbuf /\ pc' = pc /\ cur' = cur
    BY <1>1 DEF Transmit, Stores
  <2>2. /\ Len(outq') = Len(outq) - 1
        /\ \A i \in 1 .. Len(outq) - 1 : outq'[i] = outq[i + 1]
        /\ h = outq[1].buf
        /\ Len(outq) >= 1
        /\ outq' \in Seq(Messages)
    BY <2>1, <1>t, TailFacts
  <2>3. /\ DOMAIN outq = 1 .. Len(outq) /\ DOMAIN outq' = 1 .. Len(outq) - 1
        /\ Len(outq) \in Nat
    BY <2>2, <1>t
  <2>4. /\ 1 \in DOMAIN outq
        /\ \A i \in DOMAIN outq' : /\ i + 1 \in DOMAIN outq
                                   /\ i + 1 # 1
                                   /\ outq'[i] = outq[i + 1]
        /\ \A i, j \in DOMAIN outq' : i + 1 = j + 1 => i = j
    BY <2>2, <2>3
  <2>5. Intact'
    BY <2>1, <2>4 DEF Intact
  <2>6. \A b \in Bufs : Freeing(b)' => b = h
    BY <2>1 DEF Freeing
  <2>7. \A i \in DOMAIN outq' : outq'[i].buf # h
    BY <2>2, <2>4 DEF Owned
  <2>8. \A i \in DOMAIN outq : outq[i].buf \in Bufs
    BY QueuedBufs
  <2>9. Owned'
    <3>1. /\ \A i, j \in DOMAIN outq' : outq'[i].buf = outq'[j].buf => i = j
          /\ \A i \in DOMAIN outq' : evbufstat'[outq'[i].buf] = BeingSent
      BY <2>1, <2>4 DEF Owned
    <3>3. \A i \in DOMAIN outq' : ~(<<"stat", outq'[i].buf>> \in pending')
      BY <2>1, <2>7
    <3>4. \A b \in Bufs : Freeing(b)' => evbufstat'[b] = BeingSent
      BY <2>1, <2>2, <2>4, <2>6 DEF Owned
    <3>5. pc' = "publish" => /\ evbufstat'[cur'.buf] = BeingSent
                             /\ ~(<<"stat", cur'.buf>> \in pending')
                             /\ \A i \in DOMAIN outq' : outq'[i].buf # cur'.buf
      BY <2>1, <2>2, <2>4 DEF Owned
    <3>6. QED
      BY <2>1, <3>1, <3>3, <3>4, <3>5 DEF Owned, Freeing
  <2>10. QED
    BY <2>5, <2>9
<1>2. CASE free_subbufer
  <2>1. PICK st \in pending :
       /\ pending' = pending \ {st}
       /\ IF st[1] = "stat"
          THEN /\ evbufstat' = [evbufstat EXCEPT ![st[2]] = Empty]
               /\ UNCHANGED evnum
          ELSE /\ evnum' = [evnum EXCEPT ![st[2]] = 0]
               /\ UNCHANGED evbufstat
    BY <1>2 DEF free_subbufer
  <2>2. /\ st[2] \in Bufs /\ st = <<st[1], st[2]>>
        /\ outq' = outq /\ evbuf' = evbuf /\ pc' = pc /\ cur' = cur
    BY <2>1, <1>2, <1>t DEF free_subbufer
  <2>3. Intact'
    BY <2>2 DEF Intact
  <2>4. CASE st[1] = "stat"
    <3>1. Freeing(st[2]) /\ evbufstat[st[2]] = BeingSent
      BY <2>1, <2>2, <2>4 DEF Freeing, Owned
    <3>2. ~Freeing(st[2])'
      BY <2>1, <2>2, <2>4 DEF Freeing
    <3>3. \A i \in DOMAIN outq : outq[i].buf \in Bufs
      BY QueuedBufs
    <3>4. Owned'
      BY <2>1, <2>2, <2>4, <3>1, <3>2, <3>3, <1>t DEF Owned, Freeing
    <3>5. QED
      BY <2>3, <3>4
  <2>5. CASE st[1] # "stat"
    BY <2>1, <2>2, <2>3, <2>5 DEF Owned, Freeing
  <2>6. QED
    BY <2>4, <2>5
<1>3. QED
  BY <1>1, <1>2 DEF IOThread

LEMMA OInvHolds == Spec => []OInv
<1>1. OInv /\ UNCHANGED vars => OInv'
  BY DEF OInv, vars, Owned, Intact, Freeing
<1>2. CInv /\ OInv /\ [Next]_vars => OInv'
  BY <1>1, OInvMain, OInvIO DEF Next
<1>3. QED
  BY OInvInit, CInvHolds, <1>2, PTL DEF Spec

\* Until a DAQ_BEG finds a transmission going on, a buffer belongs to at most
\* one message and keeps status 3 while the message waits.
THEOREM InFlightBuffersOwned == Spec => []InFlightOwned
<1>1. OInv => InFlightOwned
  BY DEF OInv, InFlightOwned, Owned
<1>2. QED
  BY OInvHolds, <1>1, PTL

\* Under the same condition nothing changes the slots of a message between
\* zmq_msg_send and its transmission, though they are not copied.
THEOREM InFlightMessagesIntact == Spec => []InFlightIntact
<1>1. OInv => InFlightIntact
  BY DEF OInv, InFlightIntact, Intact
<1>2. QED
  BY OInvHolds, <1>1, PTL

-----------------------------------------------------------------------------
(* The slots evnum counts.                                                  *)

GoodSlots(b, n) == \A i \in 0 .. n - 1 : \E serial \in good[b] :
                     evbuf[b][i] = Event(serial)

GInv ==
  /\ \A b \in Bufs : evbufstat[b] \in {Filling, IsFull} => GoodSlots(b, evnum[b])
  /\ pc = "append" => GoodSlots(cur.buf, cur.idx)

LEMMA GInvInit == Init => GInv
BY DEF Init, GInv, Empty, Filling, IsFull

LEMMA GInvNext == CInv /\ GInv /\ [Next]_vars => GInv'
<1> SUFFICES ASSUME CInv, GInv, [Next]_vars PROVE GInv'
  OBVIOUS
<1> USE DEF Statuses, Empty, Filling, IsFull, BeingSent
<1>t. /\ evbufstat \in [Bufs -> Statuses]
      /\ evnum \in [Bufs -> 0 .. FULL + 1]
      /\ evbuf \in [Bufs -> [Indices -> Slots]]
      /\ good \in [Bufs -> SUBSET Nat]
      /\ cur \in [buf : Bufs, idx : Indices]
      /\ Indices = 0 .. FULL
      /\ FULL \in Nat /\ FULL > 1
  BY FULLAssumption DEF CInv, TypeOK, Indices
<1>1. CASE startDAQ
  BY <1>1 DEF startDAQ, GInv
<1>2. CASE stopDAQ \/ polldata \/ Overrun \/ PollDone \/ getEmpty
  BY <1>2 DEF stopDAQ, polldata, Overrun, PollDone, getEmpty, GInv, GoodSlots
<1>3. CASE getFilling
  BY <1>3 DEF getFilling, FirstOf, With, GInv, GoodSlots
<1>4. CASE putFilling
  <2>b. PICK b \in Bufs : b = cur.buf
    BY <1>t
  <2>1. PICK n \in {cur.idx + 1, evnum[b] + 1} :
          /\ evnum' = [evnum EXCEPT ![b] = n]
          /\ evbufstat' = [evbufstat EXCEPT ![b] = IF CountIsFull(n) THEN IsFull ELSE @]
          /\ evbuf' = [evbuf EXCEPT ![b][cur.idx] = Event(next)]
          /\ good' = [good EXCEPT ![b] = @ \cup {next}]
    BY <1>4, <2>b DEF putFilling
  <2>2. /\ b \in Bufs /\ cur.idx \in 0 .. FULL /\ evnum[b] \in Nat
        /\ evnum[b] <= cur.idx /\ pc' = "poll" /\ GoodSlots(b, cur.idx)
    BY <1>4, <1>t, <2>b DEF putFilling, CInv, Counts, GInv
  <2>3. GoodSlots(b, n)'
    <3> SUFFICES ASSUME NEW i \in 0 .. n - 1
                 PROVE  \E serial \in good'[b] : evbuf'[b][i] = Event(serial)
      BY DEF GoodSlots
    <3>1. i \in 0 .. cur.idx
      BY <2>1, <2>2
    <3>2. good'[b] = good[b] \cup {next}
      BY <2>1, <2>2, <1>t
    <3>3. CASE i = cur.idx
      BY <2>1, <2>2, <3>2, <3>3, <1>t
    <3>4. CASE i # cur.idx
      <4>1. PICK serial \in good[b] : evbuf[b][i] = Event(serial)
        BY <2>2, <3>1, <3>4 DEF GoodSlots
      <4>2. evbuf'[b][i] = evbuf[b][i]
        <5>1. evbuf'[b] = [evbuf[b] EXCEPT ![cur.idx] = Event(next)]
          BY <2>1, <2>2, <1>t
        <5>2. i \in Indices /\ evbuf[b] \in [Indices -> Slots]
          BY <2>2, <3>1, <1>t
        <5>3. QED
          BY <5>1, <5>2, <3>4
      <4>3. QED
        BY <3>2, <4>1, <4>2
    <3>5. QED
      BY <3>3, <3>4
  <2>4. \A c \in Bufs : c # b => /\ evbufstat'[c] = evbufstat[c]
                                /\ evnum'[c] = evnum[c]
                                /\ evbuf'[c] = evbuf[c]
                                /\ good'[c] = good[c]
    BY <2>1, <2>2, <1>t
  <2>5. evnum'[b] = n
    BY <2>1, <2>2, <1>t
  <2>6. QED
    BY <2>2, <2>3, <2>4, <2>5 DEF GInv, GoodSlots
<1>5. CASE putEmpty
  <2>b. PICK b \in Bufs : b = cur.buf
    BY <1>t
  <2>1. /\ evbufstat' = [evbufstat EXCEPT ![b] = Filling]
        /\ evnum' = [evnum EXCEPT ![b] = 1]
        /\ evbuf' = [evbuf EXCEPT ![b][0] = Event(next)]
        /\ good' = [good EXCEPT ![b] = {next}]
        /\ pc' = "poll" /\ b \in Bufs
    BY <1>5, <1>t, <2>b DEF putEmpty, BegunCount
  <2>2. \A c \in Bufs : c # b => /\ evbufstat'[c] = evbufstat[c]
                                /\ evnum'[c] = evnum[c]
                                /\ evbuf'[c] = evbuf[c]
                                /\ good'[c] = good[c]
    BY <2>1, <1>t
  <2>3. evnum'[b] = 1 /\ evbuf'[b][0] = Event(next) /\ next \in good'[b]
    <3>1. evbuf'[b] = [evbuf[b] EXCEPT ![0] = Event(next)]
      BY <2>1, <1>t
    <3>2. 0 \in Indices /\ evbuf[b] \in [Indices -> Slots]
      BY <2>1, <1>t
    <3>3. QED
      BY <2>1, <3>1, <3>2, <1>t
  <2>4. QED
    BY <2>1, <2>2, <2>3 DEF GInv, GoodSlots
<1>6. CASE senddata
  <2>1. CASE evbufstat' = evbufstat /\ evbuf' = evbuf
    BY <1>6, <2>1 DEF senddata, GInv, GoodSlots
  <2>2. CASE \E b \in LastOf(With({Filling, IsFull})) :
               /\ pc' = "publish"
               /\ evbufstat' = [evbufstat EXCEPT ![b] = BeingSent]
               /\ evbuf' = [evbuf EXCEPT ![b][evnum[b]] = Trailer(evnum[b])]
    <3>1. PICK b \in Bufs : /\ evbufstat' = [evbufstat EXCEPT ![b] = BeingSent]
                            /\ evbuf' = [evbuf EXCEPT ![b][evnum[b]] = Trailer(evnum[b])]
                            /\ pc' = "publish"
      BY <2>2 DEF LastOf, With
    <3>2. \A c \in Bufs : c # b => evbufstat'[c] = evbufstat[c] /\ evbuf'[c] = evbuf[c]
      BY <3>1, <1>t
    <3>3. evbufstat'[b] = BeingSent /\ evnum' = evnum /\ good' = good
      BY <3>1, <1>t, <1>6 DEF senddata
    <3>4. QED
      BY <3>1, <3>2, <3>3 DEF GInv, GoodSlots
  <2>3. QED
    BY <1>6, <2>1, <2>2 DEF senddata
<1>7. CASE Publish
  <2> DEFINE b == cur.buf
  <2>1. /\ evbufstat[b] \notin {Filling, IsFull} /\ b \in Bufs
        /\ pc' = "top" /\ evbuf' = evbuf /\ good' = good
    BY <1>7, <1>t DEF Publish, CInv, Counts
  <2>2. \A c \in Bufs : evbufstat'[c] \in {Filling, IsFull} =>
            evbufstat'[c] = evbufstat[c] /\ evnum'[c] = evnum[c]
    BY <1>7, <2>1, <1>t DEF Publish
  <2>3. QED
    BY <2>1, <2>2 DEF GInv, GoodSlots
<1>8. CASE Transmit
  BY <1>8 DEF Transmit, GInv, GoodSlots
<1>9. CASE free_subbufer
  <2>1. /\ evbuf' = evbuf /\ good' = good /\ pc' = pc /\ cur' = cur
        /\ \A c \in Bufs : /\ evbufstat'[c] \in {evbufstat[c], Empty}
                           /\ evnum'[c] \in {evnum[c], 0}
    BY <1>9, <1>t DEF free_subbufer
  <2>2. \A b \in Bufs : GoodSlots(b, 0)
    BY DEF GoodSlots
  <2>3. \A b \in Bufs : GoodSlots(b, evnum[b]) => GoodSlots(b, evnum'[b])
    BY <2>1, <2>2
  <2>5. QED
    BY <2>1, <2>3 DEF GInv, GoodSlots
<1>10. CASE UNCHANGED vars
  BY <1>10 DEF vars, GInv, GoodSlots
<1>11. QED
  BY <1>1, <1>2, <1>3, <1>4, <1>5, <1>6, <1>7, <1>8, <1>9, <1>10
     DEF Next, MainThread, IOThread, getnextevent

\* No slot left by an earlier use of a buffer is counted, and so published, as
\* one of its events: the late reset of evnum loses events, it invents none.
THEOREM NoStaleSlotCounted == Spec => []CountedSlotsAreGood
<1>1. GInv => CountedSlotsAreGood
  BY DEF GInv, GoodSlots, CountedSlotsAreGood
<1>2. QED
  BY GInvInit, GInvNext, CInvHolds, <1>1, PTL DEF Spec
-----------------------------------------------------------------------------
(* Where an event is.  A slot is in use while it is counted in a buffer that *)
(* getnextevent fills, while its buffer is being appended to or published,   *)
(* and while it belongs to a message; then it is with the subscriber.        *)

InUse(b, i) ==
  \/ evbufstat[b] \in {Filling, IsFull} /\ i < evnum[b]
  \/ pc \in {"append", "publish"} /\ b = cur.buf /\ i < cur.idx
  \/ \E k \in DOMAIN outq : outq[k].buf = b /\ i < outq[k].len

IsEvent(slot) == slot.kind = "event"

Older ==
  /\ \A b \in Bufs, i \in Indices : InUse(b, i) /\ IsEvent(evbuf[b][i]) => evbuf[b][i].n < next
  /\ \A k \in DOMAIN published, i \in Indices :
       IsEvent(published[k][i]) => published[k][i].n < next

\* No event is in two slots in use...
OnceInUse ==
  \A b, c \in Bufs : \A i, j \in Indices :
    InUse(b, i) /\ InUse(c, j) /\ IsEvent(evbuf[b][i]) /\ evbuf[b][i] = evbuf[c][j]
      => b = c /\ i = j

\* ... at two places of what was published...
OncePublished ==
  \A k, l \in DOMAIN published : \A i, j \in Indices :
    IsEvent(published[k][i]) /\ published[k][i] = published[l][j] => k = l /\ i = j

\* ... or in a slot in use and published.
UsedOrPublished ==
  \A b \in Bufs, i \in Indices : \A k \in DOMAIN published, j \in Indices :
    InUse(b, i) /\ IsEvent(evbuf[b][i]) => published[k][j] # evbuf[b][i]

Once == OnceInUse /\ OncePublished /\ UsedOrPublished

TrailerThere == pc = "publish" => ~IsEvent(evbuf[cur.buf][cur.idx])

NInv == TrailerThere /\ (quiet => Older /\ Once)

LEMMA SerialTypes ==
  ASSUME CInv
  PROVE  /\ next \in Nat
         /\ \A b \in Bufs, i \in Indices : evbuf[b][i].n \in Nat
         /\ \A k \in DOMAIN published, i \in Indices : published[k][i].n \in Nat
<1>1. evbuf \in [Bufs -> [Indices -> Slots]] /\ next \in Nat
  BY DEF CInv, TypeOK
<1>2. \A k \in DOMAIN published : published[k] \in [Indices -> Slots]
  <2>1. published \in Seq([Indices -> Slots])
    BY DEF CInv, TypeOK
  <2>2. \A q \in Seq([Indices -> Slots]) : \A k \in DOMAIN q : q[k] \in [Indices -> Slots]
    OBVIOUS
  <2>3. QED
    BY <2>1, <2>2
<1>3. QED
  BY <1>1, <1>2 DEF Slots

\* Slots that cease to be in use, or get something that is no event, spoil nothing.
LEMMA FewerInUse ==
  ASSUME CInv, Older, Once, published' = published, next' \in Nat, next <= next',
         \A b \in Bufs, i \in Indices :
           InUse(b, i)' => \/ InUse(b, i) /\ evbuf'[b][i] = evbuf[b][i]
                           \/ ~IsEvent(evbuf'[b][i])
  PROVE  Older' /\ Once'
<1>1. \A b \in Bufs, i \in Indices :
        InUse(b, i)' /\ IsEvent(evbuf'[b][i]) => InUse(b, i) /\ evbuf'[b][i] = evbuf[b][i]
  OBVIOUS
<1>2. Older'
  <2>1. \A n \in Nat : n < next => n < next'
    BY SerialTypes
  <2>2. QED
    BY <1>1, <2>1, SerialTypes DEF Older, IsEvent
<1>3. OnceInUse'
  BY <1>1 DEF Once, OnceInUse, IsEvent
<1>4. OncePublished'
  BY DEF Once, OncePublished
<1>5. UsedOrPublished'
  BY <1>1 DEF Once, UsedOrPublished, IsEvent
<1>6. QED
  BY <1>2, <1>3, <1>4, <1>5 DEF Once

\* A new event takes the next serial, which is in no slot yet.
LEMMA OneMoreInUse ==
  ASSUME CInv, Older, Once, published' = published, next' = next + 1,
         NEW c \in Bufs, NEW m \in Indices, evbuf'[c][m] = Event(next),
         \A b \in Bufs, i \in Indices :
           InUse(b, i)' => \/ InUse(b, i) /\ evbuf'[b][i] = evbuf[b][i]
                           \/ b = c /\ i = m
  PROVE  Older' /\ Once'
<1>t. next \in Nat /\ next' \in Nat
  BY SerialTypes
<1>1. evbuf'[c][m].n = next
  BY DEF Event
<1>2. ASSUME NEW b \in Bufs, NEW i \in Indices, InUse(b, i)', ~(b = c /\ i = m),
             IsEvent(evbuf'[b][i])
      PROVE  InUse(b, i) /\ evbuf'[b][i] = evbuf[b][i] /\ evbuf'[b][i] # evbuf'[c][m]
  <2>1. InUse(b, i) /\ evbuf'[b][i] = evbuf[b][i]
    BY <1>2
  <2>2. evbuf[b][i].n < next /\ evbuf[b][i].n \in Nat
    BY <1>2, <2>1, SerialTypes DEF Older
  <2>3. evbuf[b][i].n # next
    BY <1>t, <2>2
  <2>4. QED
    BY <1>1, <2>1, <2>3
<1>3. ASSUME NEW k \in DOMAIN published, NEW j \in Indices
      PROVE  published[k][j] # evbuf'[c][m]
  <2> SUFFICES ASSUME published[k][j] = Event(next) PROVE FALSE
    OBVIOUS
  <2>1. IsEvent(published[k][j]) /\ published[k][j].n = next
    BY DEF IsEvent, Event
  <2>2. published[k][j].n < next
    BY <2>1 DEF Older
  <2>3. QED
    BY <1>t, <2>1, <2>2
<1>4. Older'
  <2>1. \A n \in Nat : n < next => n < next'
    BY <1>t
  <2>2. next < next'
    BY <1>t
  <2>3. ASSUME NEW b \in Bufs, NEW i \in Indices, InUse(b, i)', IsEvent(evbuf'[b][i])
        PROVE  evbuf'[b][i].n < next'
    <3>1. CASE b = c /\ i = m
      BY <1>1, <2>2, <3>1
    <3>2. CASE ~(b = c /\ i = m)
      BY <1>2, <2>1, <2>3, <3>2, SerialTypes DEF Older
    <3>3. QED
      BY <3>1, <3>2
  <2>4. QED
    BY <2>1, <2>3, SerialTypes DEF Older, IsEvent
<1>5. Once'
  <2>1. ASSUME NEW b \in Bufs, NEW d \in Bufs, NEW i \in Indices, NEW j \in Indices,
               InUse(b, i)', InUse(d, j)', IsEvent(evbuf'[b][i]), evbuf'[b][i] = evbuf'[d][j]
        PROVE  b = d /\ i = j
    <3>1. IsEvent(evbuf'[d][j])
      BY <2>1
    <3>2. CASE b = c /\ i = m
      BY <1>2, <2>1, <3>1, <3>2
    <3>3. CASE d = c /\ j = m
      BY <1>2, <2>1, <3>1, <3>3
    <3>4. CASE ~(b = c /\ i = m) /\ ~(d = c /\ j = m)
      BY <1>2, <2>1, <3>1, <3>4 DEF Once, OnceInUse
    <3>5. QED
      BY <3>2, <3>3, <3>4
  <2>2. ASSUME NEW b \in Bufs, NEW k \in DOMAIN published, NEW i \in Indices, NEW j \in Indices,
               InUse(b, i)', IsEvent(evbuf'[b][i])
        PROVE  published[k][j] # evbuf'[b][i]
    <3>1. CASE b = c /\ i = m
      BY <1>3, <3>1
    <3>2. CASE ~(b = c /\ i = m)
      BY <1>2, <2>2, <3>2 DEF Once, UsedOrPublished
    <3>3. QED
      BY <3>1, <3>2
  <2>3. OnceInUse'
    BY <2>1 DEF OnceInUse, IsEvent
  <2>4. OncePublished'
    BY DEF Once, OncePublished
  <2>5. UsedOrPublished'
    BY <2>2 DEF UsedOrPublished, IsEvent
  <2>6. QED
    BY <2>3, <2>4, <2>5 DEF Once
<1>6. QED
  BY <1>4, <1>5

\* Slots in use that are published cease to be in use.
LEMMA TakenFromUse ==
  ASSUME CInv, Older, Once, next' = next, evbuf' = evbuf, NEW c \in Bufs, NEW n \in Nat,
         published' = Append(published, Prefix(evbuf[c], n)),
         \A i \in Indices : i < n => InUse(c, i),
         \A b \in Bufs, i \in Indices : InUse(b, i)' => InUse(b, i) /\ ~(b = c /\ i < n)
  PROVE  Older' /\ Once'
<1>1. PICK m : m = Prefix(evbuf[c], n)
  OBVIOUS
<1>2. ASSUME NEW i \in Indices, IsEvent(m[i])
      PROVE  i < n /\ m[i] = evbuf[c][i] /\ InUse(c, i)
  BY <1>1, <1>2 DEF Prefix, IsEvent, Zeroes
<1>3. m \in [Indices -> Slots] /\ published \in Seq([Indices -> Slots])
  BY <1>1, PrefixType DEF CInv, TypeOK
<1>4. PICK l \in Nat : l = Len(published) + 1
  BY <1>3
<1>5. /\ DOMAIN published' = DOMAIN published \cup {l} /\ l \notin DOMAIN published
      /\ \A k \in DOMAIN published : published'[k] = published[k]
      /\ published'[l] = m
  <2>1. /\ published' \in Seq([Indices -> Slots])
        /\ Len(published') = Len(published) + 1
        /\ \A k \in 1 .. Len(published) : published'[k] = published[k]
        /\ published'[Len(published) + 1] = m
    BY <1>1, <1>3, AppendFacts
  <2>2. /\ DOMAIN published = 1 .. Len(published) /\ Len(published) \in Nat
        /\ DOMAIN published' = 1 .. Len(published')
    BY <1>3, <2>1
  <2>3. DOMAIN published' = DOMAIN published \cup {l} /\ l \notin DOMAIN published
    BY <1>4, <2>1, <2>2
  <2>4. QED
    BY <1>4, <2>1, <2>2, <2>3
<1>6. Older'
  <2>1. ASSUME NEW k \in DOMAIN published', NEW i \in Indices, IsEvent(published'[k][i])
        PROVE  published'[k][i].n < next
    <3>1. CASE k = l
      BY <1>2, <1>5, <2>1, <3>1 DEF Older
    <3>2. CASE k # l
      BY <1>5, <2>1, <3>2 DEF Older
    <3>3. QED
      BY <3>1, <3>2
  <2>2. QED
    BY <2>1 DEF Older, IsEvent
<1>7. Once'
  <2>1. ASSUME NEW k \in DOMAIN published', NEW o \in DOMAIN published',
               NEW i \in Indices, NEW j \in Indices,
               IsEvent(published'[k][i]), published'[k][i] = published'[o][j]
        PROVE  k = o /\ i = j
    <3>1. IsEvent(published'[o][j])
      BY <2>1
    <3>2. CASE k = l /\ o = l
      <4>1. /\ InUse(c, i) /\ InUse(c, j) /\ IsEvent(evbuf[c][i])
            /\ evbuf[c][i] = evbuf[c][j]
        BY <1>2, <1>5, <2>1, <3>1, <3>2
      <4>2. i = j
        BY <4>1 DEF Once, OnceInUse
      <4>3. QED
        BY <3>2, <4>2
    <3>3. CASE k = l /\ o # l
      BY <1>2, <1>5, <2>1, <3>3 DEF Once, UsedOrPublished
    <3>4. CASE k # l /\ o = l
      BY <1>2, <1>5, <2>1, <3>1, <3>4 DEF Once, UsedOrPublished
    <3>5. CASE k # l /\ o # l
      <4>1. /\ k \in DOMAIN published /\ o \in DOMAIN published
            /\ published'[k] = published[k] /\ published'[o] = published[o]
        BY <1>5, <3>5
      <4>2. QED
        BY <2>1, <4>1 DEF Once, OncePublished
    <3>6. QED
      BY <3>2, <3>3, <3>4, <3>5
  <2>2. ASSUME NEW b \in Bufs, NEW k \in DOMAIN published', NEW i \in Indices, NEW j \in Indices,
               InUse(b, i)', IsEvent(evbuf[b][i])
        PROVE  published'[k][j] # evbuf[b][i]
    <3>1. InUse(b, i) /\ ~(b = c /\ i < n)
      BY <2>2
    <3>2. CASE k = l
      <4> SUFFICES ASSUME m[j] = evbuf[b][i] PROVE FALSE
        BY <1>5, <3>2
      <4>1. j < n /\ m[j] = evbuf[c][j] /\ InUse(c, j)
        BY <1>2, <2>2
      <4>2. b = c /\ i = j
        BY <2>2, <3>1, <4>1 DEF Once, OnceInUse
      <4>3. QED
        BY <3>1, <4>1, <4>2
    <3>3. CASE k # l
      <4>1. k \in DOMAIN published /\ published'[k] = published[k]
        BY <1>5, <3>3
      <4>2. QED
        BY <2>2, <3>1, <4>1 DEF Once, UsedOrPublished
    <3>4. QED
      BY <3>2, <3>3
  <2>3. ASSUME NEW b \in Bufs, NEW d \in Bufs, NEW i \in Indices, NEW j \in Indices,
               InUse(b, i)', InUse(d, j)', IsEvent(evbuf[b][i]), evbuf[b][i] = evbuf[d][j]
        PROVE  b = d /\ i = j
    BY <2>3 DEF Once, OnceInUse
  <2>4. OnceInUse'
    BY <2>3 DEF OnceInUse, IsEvent
  <2>5. OncePublished'
    BY <2>1 DEF OncePublished, IsEvent
  <2>6. UsedOrPublished'
    BY <2>2 DEF UsedOrPublished, IsEvent
  <2>7. QED
    BY <2>4, <2>5, <2>6 DEF Once
<1>8. QED
  BY <1>6, <1>7

LEMMA NInvInit == Init => NInv
<1> SUFFICES ASSUME Init PROVE NInv
  OBVIOUS
<1>1. \A b \in Bufs, i \in Indices : ~InUse(b, i)
  BY DEF Init, InUse, Filling, IsFull, Empty
<1>2. DOMAIN published = {}
  BY DEF Init
<1>3. QED
  BY <1>1, <1>2 DEF Init, NInv, TrailerThere, Older, Once, OnceInUse, OncePublished, UsedOrPublished

\* Steps that give away slots, or none, and store no event.
LEMMA QuietNInv ==
  ASSUME CInv, NInv, quiet' => quiet, published' = published, next' \in {next, next + 1},
         TrailerThere',
         quiet' => \A b \in Bufs, i \in Indices :
                     InUse(b, i)' => \/ InUse(b, i) /\ evbuf'[b][i] = evbuf[b][i]
                                     \/ ~IsEvent(evbuf'[b][i])
  PROVE  NInv'
<1>1. next' \in Nat /\ next <= next'
  BY SerialTypes
<1>2. CASE quiet'
  <2>1. Older /\ Once
    BY <1>2 DEF NInv
  <2>2. Older' /\ Once'
    BY <1>1, <1>2, <2>1, FewerInUse
  <2>3. QED
    BY <2>2 DEF NInv
<1>3. QED
  BY <1>2 DEF NInv

LEMMA NInvMain == CInv /\ OInv /\ NInv /\ MainThread => NInv'
<1> SUFFICES ASSUME CInv, OInv, NInv, MainThread PROVE NInv'
  OBVIOUS
<1> USE DEF Statuses, Empty, Filling, IsFull, BeingSent
<1>t. /\ evbufstat \in [Bufs -> Statuses]
      /\ evnum \in [Bufs -> 0 .. FULL + 1]
      /\ evbuf \in [Bufs -> [Indices -> Slots]]
      /\ cur.buf \in Bufs /\ cur.idx \in Indices
      /\ Indices = 0 .. FULL
      /\ FULL \in Nat /\ FULL > 1
  BY FULLAssumption DEF CInv, TypeOK, Indices
<1>1. CASE startDAQ
  <2>1. /\ evbufstat' = [b \in Bufs |-> Empty] /\ pc' = "top" /\ outq' = outq
        /\ published' = published /\ next' = next /\ (quiet' => quiet /\ outq = <<>>)
    BY <1>1 DEF startDAQ
  <2>2. quiet' => \A b \in Bufs, i \in Indices : ~InUse(b, i)'
    BY <2>1 DEF InUse
  <2>3. TrailerThere'
    BY <2>1 DEF TrailerThere
  <2>4. QED
    BY <2>1, <2>2, <2>3, QuietNInv
<1>2. CASE stopDAQ \/ polldata \/ Overrun \/ PollDone \/ getEmpty
  <2>1. /\ pc' \in {"top", "poll", "send", "begin"} /\ next' \in {next, next + 1}
        /\ UNCHANGED <<evbufstat, evnum, evbuf, outq, published, quiet>>
    BY <1>2 DEF stopDAQ, polldata, Overrun, PollDone, getEmpty
  <2>2. \A b \in Bufs, i \in Indices : InUse(b, i)' => InUse(b, i)
    BY <2>1 DEF InUse
  <2>3. TrailerThere'
    BY <2>1 DEF TrailerThere
  <2>4. QED
    BY <2>1, <2>2, <2>3, QuietNInv
<1>3. CASE getFilling
  <2>1. PICK b \in Bufs : evbufstat[b] = Filling /\ cur' = [buf |-> b, idx |-> evnum[b]]
    BY <1>3 DEF getFilling, FirstOf, With
  <2>2. /\ pc' = "append"
        /\ UNCHANGED <<evbufstat, evnum, evbuf, outq, published, quiet, next>>
    BY <1>3 DEF getFilling
  <2>3. \A c \in Bufs, i \in Indices : InUse(c, i)' => InUse(c, i)
    BY <2>1, <2>2 DEF InUse
  <2>4. TrailerThere'
    BY <2>2 DEF TrailerThere
  <2>5. QED
    BY <2>2, <2>3, <2>4, QuietNInv
<1>4. CASE putFilling \/ putEmpty
  <2>1. PICK b \in Bufs, m \in Indices, n \in Nat :
          /\ b = cur.buf /\ n <= m + 1 /\ evbuf' = [evbuf EXCEPT ![b][m] = Event(next)]
          /\ evnum' = [evnum EXCEPT ![b] = n]
          /\ \A c \in Bufs : c # b => evbufstat'[c] = evbufstat[c]
          /\ m = 0 \/ (pc = "append" /\ m = cur.idx)
    <3>1. CASE putFilling
      <4>1. PICK n \in {cur.idx + 1, evnum[cur.buf] + 1} :
              /\ evnum' = [evnum EXCEPT ![cur.buf] = n]
              /\ evbufstat' = [evbufstat EXCEPT ![cur.buf] = IF CountIsFull(n) THEN IsFull ELSE @]
              /\ evbuf' = [evbuf EXCEPT ![cur.buf][cur.idx] = Event(next)]
        BY <3>1 DEF putFilling
      <4>2. n \in Nat /\ n <= cur.idx + 1 /\ pc = "append"
        BY <1>t, <3>1, <4>1 DEF putFilling, CInv, Counts
      <4>3. \A c \in Bufs : c # cur.buf => evbufstat'[c] = evbufstat[c]
        BY <1>t, <4>1
      <4>4. QED
        BY <1>t, <4>1, <4>2, <4>3
    <3>2. CASE putEmpty
      <4>1. /\ evnum' = [evnum EXCEPT ![cur.buf] = 1]
            /\ evbufstat' = [evbufstat EXCEPT ![cur.buf] = Filling]
            /\ evbuf' = [evbuf EXCEPT ![cur.buf][0] = Event(next)]
        BY <3>2 DEF putEmpty, BegunCount
      <4>2. 0 \in Indices /\ 1 \in Nat /\ 1 <= 0 + 1
        BY <1>t
      <4>3. \A c \in Bufs : c # cur.buf => evbufstat'[c] = evbufstat[c]
        BY <1>t, <4>1
      <4>4. QED
        BY <1>t, <4>1, <4>2, <4>3
    <3>3. QED
      BY <1>4, <3>1, <3>2
  <2>2. /\ pc \in {"append", "begin"} /\ pc' = "poll" /\ next' = next + 1
        /\ outq' = outq /\ published' = published /\ quiet' = quiet
    BY <1>4 DEF putFilling, putEmpty
  <2>3. TrailerThere'
    BY <2>2 DEF TrailerThere
  <2>4. CASE ~quiet
    BY <2>2, <2>3, <2>4 DEF NInv
  <2>5. CASE quiet
    <3>1. Owned /\ Older /\ Once
      BY <2>5 DEF OInv, NInv
    <3>2. evbuf'[b][m] = Event(next)
      BY <1>t, <2>1
    <3>3. ASSUME NEW c \in Bufs, NEW i \in Indices, ~(c = b /\ i = m)
          PROVE  evbuf'[c][i] = evbuf[c][i]
      BY <1>t, <2>1, <3>3
    <3>4. ASSUME NEW c \in Bufs, NEW i \in Indices, InUse(c, i)', ~(c = b /\ i = m)
          PROVE  InUse(c, i)
      <4>1. CASE \E k \in DOMAIN outq : outq[k].buf = c /\ i < outq[k].len
        BY <4>1 DEF InUse
      <4>2. CASE evbufstat'[c] \in {Filling, IsFull} /\ i < evnum'[c] /\ c = b
        <5>1. i < m /\ m = cur.idx /\ pc = "append"
          BY <1>t, <2>1, <3>4, <4>2
        <5>2. QED
          BY <2>1, <4>2, <5>1 DEF InUse
      <4>3. CASE evbufstat'[c] \in {Filling, IsFull} /\ i < evnum'[c] /\ c # b
        <5>1. evbufstat'[c] = evbufstat[c] /\ evnum'[c] = evnum[c]
          BY <1>t, <2>1, <4>3
        <5>2. QED
          BY <4>3, <5>1 DEF InUse
      <4>4. QED
        BY <2>2, <3>4, <4>1, <4>2, <4>3 DEF InUse
    <3>5. Older' /\ Once'
      BY <2>2, <3>1, <3>2, <3>3, <3>4, OneMoreInUse
    <3>6. QED
      BY <2>3, <3>5 DEF NInv
  <2>6. QED
    BY <2>4, <2>5
<1>5. CASE senddata
  <2>1. UNCHANGED <<evnum, outq, published, next, quiet>>
    BY <1>5 DEF senddata
  <2>2. CASE pc' = "top" /\ UNCHANGED <<evbufstat, evbuf, cur>>
    <3>1. \A b \in Bufs, i \in Indices : InUse(b, i)' => InUse(b, i)
      BY <2>1, <2>2 DEF InUse
    <3>2. TrailerThere'
      BY <2>2 DEF TrailerThere
    <3>3. QED
      BY <2>1, <2>2, <3>1, <3>2, QuietNInv
  <2>3. CASE \E b \in LastOf(With({Filling, IsFull})) :
               /\ pc' = "publish"
               /\ cur' = [buf |-> b, idx |-> evnum[b]]
               /\ evbufstat' = [evbufstat EXCEPT ![b] = BeingSent]
               /\ evbuf' = [evbuf EXCEPT ![b][evnum[b]] = Trailer(evnum[b])]
    <3>1. PICK b \in Bufs : /\ evbufstat[b] \in {Filling, IsFull} /\ pc' = "publish"
                            /\ cur' = [buf |-> b, idx |-> evnum[b]]
                            /\ evbufstat' = [evbufstat EXCEPT ![b] = BeingSent]
                            /\ evbuf' = [evbuf EXCEPT ![b][evnum[b]] = Trailer(evnum[b])]
      BY <2>3 DEF LastOf, With
    <3>2. evnum[b] \in Indices
      BY <1>t, <3>1 DEF CInv, Counts
    <3>3. ~IsEvent(evbuf'[b][evnum[b]])
      BY <1>t, <3>1, <3>2 DEF IsEvent, Trailer
    <3>4. ASSUME NEW c \in Bufs, NEW i \in Indices, ~(c = b /\ i = evnum[b])
          PROVE  evbuf'[c][i] = evbuf[c][i]
      BY <1>t, <3>1, <3>2, <3>4
    <3>5. ASSUME NEW c \in Bufs, NEW i \in Indices, InUse(c, i)'
          PROVE  InUse(c, i)
      BY <1>t, <2>1, <3>1, <3>5 DEF InUse
    <3>6. TrailerThere'
      BY <3>1, <3>3 DEF TrailerThere, IsEvent
    <3>7. QED
      BY <2>1, <3>3, <3>4, <3>5, <3>6, QuietNInv
  <2>4. QED
    BY <1>5, <2>2, <2>3 DEF senddata
<1>6. CASE Publish
  <2>1. PICK b \in Bufs : b = cur.buf
    BY <1>t
  <2>2. PICK n \in {cur.idx + 1, evnum[b] + 1} :
         \/ /\ outq' = Append(outq, [buf |-> b, len |-> n, data |-> Prefix(evbuf[b], n)])
            /\ evnum' = [evnum EXCEPT ![b] = n]
            /\ UNCHANGED evbufstat
         \/ /\ evbufstat' = [evbufstat EXCEPT ![b] = Empty]
            /\ evnum' = [evnum EXCEPT ![b] = 0]
            /\ UNCHANGED outq
    BY <1>6, <2>1 DEF Publish
  <2>3. /\ pc = "publish" /\ pc' = "top" /\ UNCHANGED <<evbuf, cur, published, next, quiet>>
        /\ evbufstat[b] \notin {Filling, IsFull} /\ evnum[b] <= cur.idx
    BY <1>6, <2>1 DEF Publish, CInv, Counts
  <2>4. n \in Nat /\ n <= cur.idx + 1
    BY <1>t, <2>1, <2>2, <2>3
  <2>5. ~IsEvent(evbuf[b][cur.idx])
    BY <2>1, <2>3 DEF NInv, TrailerThere
  <2>6. ASSUME NEW c \in Bufs, NEW i \in Indices, InUse(c, i)', IsEvent(evbuf[c][i])
        PROVE  InUse(c, i)
    <3>1. CASE evbufstat'[c] \in {Filling, IsFull} /\ i < evnum'[c]
      <4>1. c # b
        BY <1>t, <2>2, <2>3, <3>1
      <4>2. evbufstat'[c] = evbufstat[c] /\ evnum'[c] = evnum[c]
        BY <1>t, <2>2, <4>1
      <4>3. QED
        BY <3>1, <4>2 DEF InUse
    <3>2. CASE \E k \in DOMAIN outq' : outq'[k].buf = c /\ i < outq'[k].len
      <4>1. CASE outq' = outq
        BY <3>2, <4>1 DEF InUse
      <4>2. CASE outq' = Append(outq, [buf |-> b, len |-> n, data |-> Prefix(evbuf[b], n)])
        <5>1. PICK k \in DOMAIN outq' : outq'[k].buf = c /\ i < outq'[k].len
          BY <3>2
        <5>2. CASE k \in DOMAIN outq
          <6>1. outq'[k] = outq[k]
            BY <4>2, <5>2 DEF CInv, TypeOK
          <6>2. QED
            BY <5>1, <5>2, <6>1 DEF InUse
        <5>3. CASE k \notin DOMAIN outq
          <6>1. outq'[k] = [buf |-> b, len |-> n, data |-> Prefix(evbuf[b], n)]
            BY <4>2, <5>1, <5>3 DEF CInv, TypeOK
          <6>2. c = b /\ i < n
            BY <5>1, <6>1
          <6>3. i # cur.idx
            BY <2>5, <2>6, <6>2
          <6>4. i < cur.idx
            BY <1>t, <2>4, <6>2, <6>3
          <6>5. QED
            BY <2>1, <2>3, <6>2, <6>4 DEF InUse
        <5>4. QED
          BY <5>2, <5>3
      <4>3. QED
        BY <2>2, <4>1, <4>2
    <3>3. QED
      BY <2>3, <2>6, <3>1, <3>2 DEF InUse
  <2>7. TrailerThere'
    BY <2>3 DEF TrailerThere
  <2>8. QED
    BY <2>3, <2>6, <2>7, QuietNInv
<1>7. QED
  BY <1>1, <1>2, <1>3, <1>4, <1>5, <1>6 DEF MainThread, getnextevent

LEMMA NInvIO == CInv /\ OInv /\ NInv /\ IOThread => NInv'
<1> SUFFICES ASSUME CInv, OInv, NInv, IOThread PROVE NInv'
  OBVIOUS
<1> USE DEF Statuses, Empty, Filling, IsFull, BeingSent
<1>t. /\ evbufstat \in [Bufs -> Statuses]
      /\ evnum \in [Bufs -> 0 .. FULL + 1]
      /\ outq \in Seq(Messages)
      /\ Indices = 0 .. FULL
      /\ FULL \in Nat
  BY FULLAssumption DEF CInv, TypeOK, Indices
<1>1. UNCHANGED <<evbuf, pc, cur, next, quiet>>
  BY DEF IOThread, Transmit, free_subbufer
<1>2. TrailerThere'
  BY <1>1 DEF NInv, TrailerThere
<1>3. CASE free_subbufer
  <2>1. /\ outq' = outq /\ published' = published
        /\ \A c \in Bufs : /\ evbufstat'[c] \in {evbufstat[c], Empty}
                           /\ evnum'[c] \in {evnum[c], 0}
    BY <1>3, <1>t DEF free_subbufer
  <2>2. ASSUME NEW c \in Bufs, NEW i \in Indices, InUse(c, i)' PROVE InUse(c, i)
    <3>1. evbufstat'[c] \in {Filling, IsFull} /\ i < evnum'[c]
            => evbufstat[c] \in {Filling, IsFull} /\ i < evnum[c]
      BY <1>t, <2>1
    <3>2. QED
      BY <1>1, <2>1, <2>2, <3>1 DEF InUse
  <2>3. QED
    BY <1>1, <1>2, <2>1, <2>2, QuietNInv
<1>4. CASE Transmit
  <2>1. /\ outq # <<>> /\ outq' = Tail(outq) /\ UNCHANGED <<evbufstat, evnum>>
        /\ published' \in {published, Append(published, Prefix(evbuf[Head(outq).buf], Head(outq).len))}
    BY <1>4 DEF Transmit
  <2>2. /\ Len(outq') = Len(outq) - 1
        /\ \A i \in 1 .. Len(outq) - 1 : outq'[i] = outq[i + 1]
        /\ Head(outq) = outq[1] /\ Head(outq) \in Messages
        /\ Len(outq) >= 1 /\ outq' \in Seq(Messages)
    BY <1>t, <2>1, TailFacts
  <2>3. PICK c \in Bufs, n \in Nat : c = outq[1].buf /\ n = outq[1].len
    BY <2>2 DEF Messages
  <2>4. /\ 1 \in DOMAIN outq
        /\ \A k \in DOMAIN outq' : /\ k + 1 \in DOMAIN outq /\ k + 1 # 1
                                   /\ outq'[k] = outq[k + 1]
    <3>1. /\ DOMAIN outq = 1 .. Len(outq) /\ DOMAIN outq' = 1 .. Len(outq) - 1
          /\ Len(outq) \in Nat
      BY <1>t, <2>2
    <3>2. QED
      BY <2>2, <3>1
  <2>5. ASSUME NEW b \in Bufs, NEW i \in Indices, InUse(b, i)' PROVE InUse(b, i)
    BY <1>1, <2>1, <2>4, <2>5 DEF InUse
  <2>6. CASE published' = published
    BY <1>1, <1>2, <2>5, <2>6, QuietNInv
  <2>7. CASE published' # published /\ quiet
    <3>1. Owned /\ Older /\ Once
      BY <2>7 DEF OInv, NInv
    <3>2. published' = Append(published, Prefix(evbuf[c], n))
      BY <2>1, <2>2, <2>3, <2>7
    <3>3. \A i \in Indices : i < n => InUse(c, i)
      BY <2>3, <2>4 DEF InUse
    <3>4. ASSUME NEW b \in Bufs, NEW i \in Indices, InUse(b, i)'
          PROVE  ~(b = c /\ i < n)
      <4>1. b # c
        <5>1. evbufstat[c] = BeingSent
          BY <2>3, <2>4, <3>1 DEF Owned
        <5>2. pc \in {"append", "publish"} => cur.buf # c
          BY <2>3, <2>4, <3>1, <5>1 DEF Owned
        <5>3. \A k \in DOMAIN outq' : outq'[k].buf # c
          BY <2>3, <2>4, <3>1 DEF Owned
        <5>4. QED
          BY <1>1, <2>1, <3>4, <5>1, <5>2, <5>3 DEF InUse
      <4>2. QED
        BY <4>1
    <3>5. \A b \in Bufs, i \in Indices : InUse(b, i)' => InUse(b, i) /\ ~(b = c /\ i < n)
      BY <2>5, <3>4
    <3>6. next' = next /\ evbuf' = evbuf
      BY <1>1
    <3>7. Older' /\ Once'
      BY <3>1, <3>2, <3>3, <3>5, <3>6, TakenFromUse
    <3>8. QED
      BY <1>2, <3>7 DEF NInv
  <2>8. CASE ~quiet
    BY <1>1, <1>2, <2>8 DEF NInv
  <2>9. QED
    BY <2>6, <2>7, <2>8
<1>5. QED
  BY <1>3, <1>4 DEF IOThread

LEMMA NInvSame == CInv /\ NInv /\ UNCHANGED vars => NInv'
<1> SUFFICES ASSUME CInv, NInv, UNCHANGED vars PROVE NInv'
  OBVIOUS
<1>1. \A b \in Bufs, i \in Indices : InUse(b, i)' => InUse(b, i)
  BY DEF vars, InUse
<1>2. TrailerThere'
  BY DEF vars, NInv, TrailerThere
<1>3. QED
  BY <1>1, <1>2, QuietNInv DEF vars

\* Until a DAQ_BEG finds a transmission going on, no event reaches a subscriber
\* twice, although the slots are not copied, the callback may come at any time
\* and the reset of evnum may hit a buffer that is being filled again.
THEOREM PublishedOnce == Spec => []NothingPublishedTwice
<1>1. NInv => NothingPublishedTwice
  <2> SUFFICES ASSUME NInv, quiet, NEW x \in PublishedEvents, NEW y \in PublishedEvents,
                      published[x[1]][x[2]] = published[y[1]][y[2]]
               PROVE  x = y
    BY DEF NothingPublishedTwice
  <2>1. /\ x = <<x[1], x[2]>> /\ x[1] \in DOMAIN published /\ x[2] \in Indices
        /\ IsEvent(published[x[1]][x[2]])
        /\ y = <<y[1], y[2]>> /\ y[1] \in DOMAIN published /\ y[2] \in Indices
    BY DEF PublishedEvents, IsEvent
  <2>2. x[1] = y[1] /\ x[2] = y[2]
    BY <2>1 DEF NInv, Once, OncePublished
  <2>3. QED
    BY <2>1, <2>2, Zenon
<1>2. CInv /\ OInv /\ NInv /\ [Next]_vars => NInv'
  BY NInvMain, NInvIO, NInvSame DEF Next
<1>3. QED
  BY NInvInit, <1>1, <1>2, CInvHolds, OInvHolds, PTL DEF Spec

=============================================================================
