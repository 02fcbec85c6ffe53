------------------------------ MODULE EventBuffers ------------------------------
(***************************************************************************)
(* The event buffers of the FEB driver (FEBDRV.cc).                        *)
(*                                                                         *)
(* The main thread polls the front-end boards and stores every event in    *)
(* one of NBUFS buffers (getnextevent), then publishes a buffer without    *)
(* copying it: senddata hands the buffer itself to ZeroMQ, whose I/O       *)
(* thread calls free_subbufer once the message has gone out.  The two      *)
(* threads share evbufstat and evnum, plain ints, with no lock.            *)
(*                                                                         *)
(* An event is named by its serial number: the order in which the driver   *)
(* found it in the packets of the boards.                                  *)
(***************************************************************************)
EXTENDS Naturals, Sequences, FiniteSets

CONSTANTS
  NBUFS,      \* number of buffers                          (FEBDRV.h:88)
  FULL,       \* EVSPERFEB*256, the count that makes a buffer full
  SLOTS,      \* slots declared for a buffer                (FEBDRV.h:165)
  MaxEvents,  \* bound: events found in the packets
  MaxStarts   \* bound: DAQ_BEG requests

ASSUME NBUFSAssumption == NBUFS \in Nat \ {0}
\* A buffer just begun is not tested for being full: the code needs FULL > 1.
ASSUME FULLAssumption == FULL \in Nat /\ FULL > 1
ASSUME BoundsAssumption == /\ SLOTS \in Nat
                           /\ MaxEvents \in Nat
                           /\ MaxStarts \in Nat

Bufs == 0 .. NBUFS - 1

\* The four values of evbufstat (FEBDRV.h:167).
Empty == 0
Filling == 1
IsFull == 2
BeingSent == 3

\* What a slot of evbuf holds: zeroes, an event, or the trailer of a message
\* (mac5 = 0xFFFF), which carries the number of events before it.
Zeroes == [kind |-> "zeroes", n |-> 0]
Event(serial) == [kind |-> "event", n |-> serial]
Trailer(count) == [kind |-> "trailer", n |-> count]

VARIABLES
  evbufstat,  \* status of each buffer
  evnum,      \* number of good events of each buffer
  evbuf,      \* the slots of each buffer
  daqon,      \* GLOB_daqon
  pc,         \* where the main thread is
  cur,        \* the slot getnextevent chose, or the buffer senddata chose
  outq,       \* messages given to ZeroMQ and not yet transmitted
  pending,    \* stores free_subbufer still has to do, in the I/O thread
  published,  \* history: contents of the messages that reached a subscriber
  good,       \* history: serials stored in each buffer since it was begun
  next,       \* serial of the next event
  starts,     \* number of DAQ_BEG requests served
  quiet       \* history: no DAQ_BEG found a message still being sent

vars == <<evbufstat, evnum, evbuf, daqon, pc, cur, outq, pending,
          published, good, next, starts, quiet>>

Statuses == {Empty, Filling, IsFull, BeingSent}
Slots == [kind : {"zeroes", "event", "trailer"}, n : Nat]
Indices == 0 .. FULL
Messages == [buf : Bufs, len : Nat, data : [Indices -> Slots]]

With(st) == {b \in Bufs : evbufstat[b] \in st}
\* What a loop over the buffers finds, as a set of at most one element: the
\* first buffer of S when it returns, the last one when it goes on.
FirstOf(S) == {b \in S : \A c \in S : b <= c}
LastOf(S) == {b \in S : \A c \in S : c <= b}

Blank == [i \in Indices |-> Zeroes]
\* What a subscriber is sent: the first len slots of a buffer.
Prefix(slots, len) == [i \in Indices |-> IF i < len THEN slots[i] ELSE Zeroes]

Init ==
  /\ evbufstat = [b \in Bufs |-> Empty]
  /\ evnum = [b \in Bufs |-> 0]
  /\ evbuf = [b \in Bufs |-> Blank]
  /\ daqon = FALSE
  /\ pc = "top"
  /\ cur = [buf |-> 0, idx |-> 0]
  /\ outq = <<>>
  /\ pending = {}
  /\ published = <<>>
  /\ good = [b \in Bufs |-> {}]
  /\ next = 1
  /\ starts = 0
  /\ quiet = TRUE

-----------------------------------------------------------------------------
(* The main loop: a request if there is one, else a poll and a publication. *)

\* DAQ_BEG.  The buffers are zeroed whatever they are used for; the boards
\* are then reset and enabled, and GLOB_daqon is set only if all of them
\* answered.
startDAQ ==
  /\ pc = "top" /\ starts < MaxStarts
  /\ evbufstat' = [b \in Bufs |-> Empty]
  /\ evnum' = [b \in Bufs |-> 0]
  /\ evbuf' = [b \in Bufs |-> Blank]
  /\ good' = [b \in Bufs |-> {}]
  /\ daqon' \in {daqon, TRUE}
  /\ starts' = starts + 1
  /\ quiet' = (quiet /\ outq = <<>> /\ pending = {})
  /\ UNCHANGED <<pc, cur, outq, pending, published, next>>

\* DAQ_END.
stopDAQ ==
  /\ pc = "top"
  /\ daqon' = FALSE
  /\ UNCHANGED <<evbufstat, evnum, evbuf, pc, cur, outq, pending,
                 published, good, next, starts, quiet>>

\* No request: polldata, which returns at once when no DAQ is running.
polldata ==
  /\ pc = "top"
  /\ pc' = IF daqon THEN "poll" ELSE "send"
  /\ UNCHANGED <<evbufstat, evnum, evbuf, daqon, cur, outq, pending,
                 published, good, next, starts, quiet>>

-----------------------------------------------------------------------------
(* getnextevent and the store of processL2pack into the slot it returns.    *)
(* The index is read before evnum is written, and the I/O thread may run in *)
(* between: one action up to the read, one from the write.                  *)

\* The first buffer being filled gives its next slot.
getFilling ==
  /\ pc = "poll" /\ next <= MaxEvents
  /\ \E b \in FirstOf(With({Filling})) : cur' = [buf |-> b, idx |-> evnum[b]]
  /\ pc' = "append"
  /\ UNCHANGED <<evbufstat, evnum, evbuf, daqon, outq, pending,
                 published, good, next, starts, quiet>>

CountIsFull(n) == n = FULL

\* evnum[sbi]++ is not atomic: it adds one to the value read for the slot, or
\* to the value there is now.
putFilling ==
  /\ pc = "append"
  /\ LET b == cur.buf IN
       \E n \in {cur.idx + 1, evnum[b] + 1} :
         /\ evnum' = [evnum EXCEPT ![b] = n]
         /\ evbufstat' = [evbufstat EXCEPT ![b] = IF CountIsFull(n) THEN IsFull ELSE @]
         /\ evbuf' = [evbuf EXCEPT ![b][cur.idx] = Event(next)]
         /\ good' = [good EXCEPT ![b] = @ \cup {next}]
  /\ next' = next + 1
  /\ pc' = "poll"
  /\ UNCHANGED <<daqon, cur, outq, pending, published, starts, quiet>>

\* Mutant: a buffer being sent counts as empty.
ToBegin_InFlight == IF With({Filling}) = {} THEN With({Empty, BeingSent}) ELSE {}

\* Otherwise the first empty buffer is begun.
ToBegin == IF With({Filling}) = {} THEN With({Empty}) ELSE {}

getEmpty ==
  /\ pc = "poll" /\ next <= MaxEvents
  /\ \E b \in FirstOf(ToBegin) : cur' = [buf |-> b, idx |-> 0]
  /\ pc' = "begin"
  /\ UNCHANGED <<evbufstat, evnum, evbuf, daqon, outq, pending,
                 published, good, next, starts, quiet>>

\* Mutant: the count goes on from the one the buffer was left with.
BegunCount_Kept(b) == evnum[b] + 1
BegunCount(b) == 1

putEmpty ==
  /\ pc = "begin"
  /\ LET b == cur.buf IN
       /\ evnum' = [evnum EXCEPT ![b] = BegunCount(b)]
       /\ evbufstat' = [evbufstat EXCEPT ![b] = Filling]
       /\ evbuf' = [evbuf EXCEPT ![b][0] = Event(next)]
       /\ good' = [good EXCEPT ![b] = {next}]
  /\ next' = next + 1
  /\ pc' = "poll"
  /\ UNCHANGED <<daqon, cur, outq, pending, published, starts, quiet>>

\* No buffer: "Buffer overrun", the event is dropped.
Overrun ==
  /\ pc = "poll" /\ next <= MaxEvents
  /\ With({Filling, Empty}) = {}
  /\ next' = next + 1
  /\ UNCHANGED <<evbufstat, evnum, evbuf, daqon, pc, cur, outq, pending,
                 published, good, starts, quiet>>

\* Every board has sent its end of file.
PollDone ==
  /\ pc = "poll"
  /\ pc' = "send"
  /\ UNCHANGED <<evbufstat, evnum, evbuf, daqon, cur, outq, pending,
                 published, good, next, starts, quiet>>

-----------------------------------------------------------------------------
(* senddata.  The last buffer that is being filled or full is marked, its   *)
(* trailer is written after its events and evnum is increased; again the    *)
(* I/O thread may run between the reads of evnum and its increment.         *)

senddata ==
  /\ pc = "send"
  /\ \/ /\ With({Filling, IsFull}) = {}
        /\ pc' = "top"
        /\ UNCHANGED <<evbufstat, evbuf, cur>>
     \/ \E b \in LastOf(With({Filling, IsFull})) :
        /\ pc' = "publish"
        /\ cur' = [buf |-> b, idx |-> evnum[b]]
        /\ evbufstat' = [evbufstat EXCEPT ![b] = BeingSent]
        /\ evbuf' = [evbuf EXCEPT ![b][evnum[b]] = Trailer(evnum[b])]
  /\ UNCHANGED <<evnum, daqon, outq, pending, published, good, next,
                 starts, quiet>>

\* The message refers to the buffer.  Without a subscriber, or when its queue
\* is full, ZeroMQ drops the message and calls free_subbufer in this thread.
Publish ==
  /\ pc = "publish"
  /\ LET b == cur.buf IN
       \E n \in {cur.idx + 1, evnum[b] + 1} :
         \/ /\ outq' = Append(outq, [buf |-> b, len |-> n,
                                     data |-> Prefix(evbuf[b], n)])
            /\ evnum' = [evnum EXCEPT ![b] = n]
            /\ UNCHANGED evbufstat
         \/ /\ evbufstat' = [evbufstat EXCEPT ![b] = Empty]
            /\ evnum' = [evnum EXCEPT ![b] = 0]
            /\ UNCHANGED outq
  /\ pc' = "top"
  /\ UNCHANGED <<evbuf, daqon, cur, pending, published, good, next,
                 starts, quiet>>

-----------------------------------------------------------------------------
(* The I/O thread of ZeroMQ.                                                *)

\* Mutant: free_subbufer resets the count alone.
Stores_NoStatus == {"num"}
Stores == {"stat", "num"}

\* The oldest message leaves: its buffer is read now, and reaches the
\* subscriber unless that one is gone.  The callback then starts.
Transmit ==
  /\ outq # <<>> /\ pending = {}
  /\ LET m == Head(outq) IN
       /\ pending' = Stores \X {m.buf}
       /\ published' \in {published,
                          Append(published, Prefix(evbuf[m.buf], m.len))}
  /\ outq' = Tail(outq)
  /\ UNCHANGED <<evbufstat, evnum, evbuf, daqon, pc, cur, good, next,
                 starts, quiet>>

\* free_subbufer: two stores of plain ints, which another thread may see in
\* either order.
free_subbufer ==
  /\ \E st \in pending :
       /\ pending' = pending \ {st}
       /\ IF st[1] = "stat"
          THEN /\ evbufstat' = [evbufstat EXCEPT ![st[2]] = Empty]
               /\ UNCHANGED evnum
          ELSE /\ evnum' = [evnum EXCEPT ![st[2]] = 0]
               /\ UNCHANGED evbufstat
  /\ UNCHANGED <<evbuf, daqon, pc, cur, outq, published, good, next,
                 starts, quiet>>

-----------------------------------------------------------------------------
getnextevent == getFilling \/ putFilling \/ getEmpty \/ putEmpty \/ Overrun
MainThread == \/ startDAQ \/ stopDAQ \/ polldata
              \/ getnextevent \/ PollDone
              \/ senddata \/ Publish
IOThread == Transmit \/ free_subbufer

Next == MainThread \/ IOThread

Spec == Init /\ [][Next]_vars

\* The driver's main loop never ends, and the operating system runs the I/O
\* thread while the network accepts data.
FairSpec == Spec /\ WF_vars(MainThread) /\ WF_vars(IOThread)

-----------------------------------------------------------------------------
(* Properties.                                                              *)

\* Every variable has its type; the counts stay within the indices of evbuf.
TypeOK ==
  /\ evbufstat \in [Bufs -> Statuses]
  /\ evnum \in [Bufs -> 0 .. FULL + 1]
  /\ evbuf \in [Bufs -> [Indices -> Slots]]
  /\ daqon \in BOOLEAN
  /\ pc \in {"top", "poll", "append", "begin", "send", "publish"}
  /\ cur \in [buf : Bufs, idx : Indices]
  /\ outq \in Seq(Messages)
  /\ pending \in SUBSET ({"stat", "num"} \X Bufs)
  /\ published \in Seq([Indices -> Slots])
  /\ good \in [Bufs -> SUBSET Nat]
  /\ next \in Nat \ {0}
  /\ starts \in Nat
  /\ quiet \in BOOLEAN

\* getnextevent appends to one buffer: whatever the callbacks and the restarts
\* do, two buffers are never being filled at once.
AtMostOneFilling ==
  \A a, b \in Bufs : evbufstat[a] = Filling /\ evbufstat[b] = Filling => a = b

\* A slot counted in a buffer that senddata may choose holds an event stored
\* since the buffer was begun: no slot left by an earlier use of the buffer is
\* published again, even when the reset of evnum by free_subbufer comes late.
CountedSlotsAreGood ==
  \A b \in Bufs : evbufstat[b] \in {Filling, IsFull} =>
    \A i \in 0 .. evnum[b] - 1 : \E serial \in good[b] :
      evbuf[b][i] = Event(serial)

\* An event is stored in a declared slot, and there is one for the trailer...
SlotDeclared ==
  /\ pc = "append" => cur.idx < SLOTS - 1
  /\ pc = "publish" => cur.idx < SLOTS

\* ... if a buffer has 256*EVSPERFEB+1 slots, the declaration FEBDRV.h:164 keeps
\* in a comment.
SlotDeclaredIfSized == SLOTS > FULL => SlotDeclared

\* As long as no DAQ_BEG came while a message was being sent, a buffer belongs
\* to at most one message, and has status 3 from senddata to the callback.
InFlightOwned == quiet =>
  /\ \A i, j \in DOMAIN outq : outq[i].buf = outq[j].buf => i = j
  /\ \A i \in DOMAIN outq : evbufstat[outq[i].buf] = BeingSent

\* Under the same condition the slots of a message still to be transmitted
\* stay what they were when senddata gave it to ZeroMQ.
InFlightIntact == quiet =>
  \A i \in DOMAIN outq :
    Prefix(evbuf[outq[i].buf], outq[i].len) = outq[i].data

\* Under the same condition no event reaches a subscriber twice, in one
\* message or in two.
PublishedEvents == {x \in (DOMAIN published) \X Indices :
                      published[x[1]][x[2]].kind = "event"}
NothingPublishedTwice == quiet =>
  \A x, y \in PublishedEvents :
    published[x[1]][x[2]] = published[y[1]][y[2]] => x = y

\* A buffer given to ZeroMQ comes back: its status does not stay 3, so the
\* driver does not run out of buffers for good.
SentBuffersReturn ==
  \A b \in Bufs : evbufstat[b] = BeingSent ~> evbufstat[b] # BeingSent

-----------------------------------------------------------------------------
(* What a comment of the code says and the code does not do.                *)

\* "number of good events in the buffer fields" (FEBDRV.h:166): while a buffer
\* is being filled or full, evnum counts the events stored in it.
EvnumCountsGoodEvents ==
  \A b \in Bufs : evbufstat[b] \in {Filling, IsFull} =>
    evnum[b] = Cardinality(good[b])
=============================================================================
