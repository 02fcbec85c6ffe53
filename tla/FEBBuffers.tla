------------------------------- MODULE FEBBuffers -------------------------------
(***************************************************************************)
(* The buffers of a ZMQ board reader (BernZMQ_GeneratorBase).              *)
(*                                                                         *)
(* A worker thread receives the messages of the driver and sorts their     *)
(* events into one set of circular buffers per board (GetData,             *)
(* InsertIntoFEBBuffer).  The thread of the DAQ framework looks for a GPS  *)
(* reference, builds fragments up to it and erases them (getNext_,         *)
(* FillFragment, EraseFromFEBBuffer).  Only the writes are done under the  *)
(* mutex of the board: the worker reads the free capacity, and the         *)
(* framework thread the number and the contents of the events, without it. *)
(*                                                                         *)
(* Time is counted in messages: the driver polls for message m from 2m to  *)
(* 2m+1 and sends both times in the trailer.                               *)
(***************************************************************************)
EXTENDS Naturals, Sequences, FiniteSets

CONSTANTS
  NFebs,        \* number of boards of the reader (FEBIDs)
  CAP,          \* FEBBufferCapacity
  MaxGroup,     \* bound: events of one board in a message
  MaxOthers,    \* bound: those of any board but the first
  MaxMessages,  \* bound: messages received
  MaxRuns       \* bound: runs

ASSUME NFebsAssumption == NFebs \in Nat \ {0}
ASSUME CAPAssumption == CAP \in Nat \ {0}
ASSUME BoundsAssumption == /\ MaxGroup \in Nat \ {0}
                           /\ MaxOthers \in Nat
                           /\ MaxMessages \in Nat
                           /\ MaxRuns \in Nat

Febs == 1 .. NFebs

VARIABLES
  buffer, timebuffer, droppedbuffer,  \* circular buffers of each board
  last_timenow,  \* end of the last poll stored for each board, 0 at first
  wpc,           \* where the worker thread is
  groups,        \* what it still has to store: the events of each board
  wfeb,          \* the board it is storing events for
  good_events,   \* events of that board that are in time order
  msg,           \* messages received
  gpc,           \* where the framework thread is
  gfeb,          \* the board it is looking at
  i_gps,         \* the reference it found
  run            \* runs started

worker == <<wpc, groups, wfeb, good_events, msg>>
getter == <<gpc, gfeb, i_gps>>
vars == <<buffer, timebuffer, droppedbuffer, last_timenow, worker, getter, run>>

\* An event: the message it came in, its place among the events of its board,
\* and whether it is a GPS reference.
Events == [m : Nat, i : Nat, ref : BOOLEAN]
PollStarted(m) == 2 * m
PollFinished(m) == 2 * m + 1

\* Inserting at the end of a boost::circular_buffer that is full overwrites the
\* elements at the front.
Push(q, new) == LET all == q \o new IN
  IF Len(all) > CAP THEN SubSeq(all, Len(all) - CAP + 1, Len(all)) ELSE all
EraseBegin(q, n) == SubSeq(q, n + 1, Len(q))
Copies(n, x) == [i \in 1 .. n |-> x]

\* The mutex of a board is held by the worker from the end of its wait to the
\* insertion of the events.  The framework thread locks for one action only.
Locked(f) == wpc \in {"times", "dropped", "events"} /\ wfeb = f

Init ==
  /\ buffer = [f \in Febs |-> <<>>]
  /\ timebuffer = [f \in Febs |-> <<>>]
  /\ droppedbuffer = [f \in Febs |-> <<>>]
  /\ last_timenow = [f \in Febs |-> 0]
  /\ wpc = "get" /\ groups = [f \in Febs |-> <<>>]
  /\ wfeb = 1 /\ good_events = 0 /\ msg = 0
  /\ gpc = "scan" /\ gfeb = 1 /\ i_gps = 0
  /\ run = 1

-----------------------------------------------------------------------------
(* The worker thread.                                                       *)

\* A message of the driver: it polls board after board, so the events of one
\* board stand together, in the order of the boards.
Group(m, n, refs) == [i \in 1 .. n |-> [m |-> m, i |-> i, ref |-> i \in refs]]
GroupsOf(m) ==
  UNION {{Group(m, n, refs) : refs \in SUBSET (1 .. n)} : n \in 0 .. MaxGroup}

\* GetZMQData returns a message, and GetData starts to sort its events.
GetZMQData ==
  /\ wpc = "get" /\ msg < MaxMessages
  /\ msg' = msg + 1
  /\ groups' \in [Febs -> GroupsOf(msg')]
  /\ \A f \in Febs \ {1} : Len(groups'[f]) <= MaxOthers
  /\ \E f \in Febs : groups'[f] # <<>>
  /\ wpc' = "wait"
  /\ UNCHANGED <<buffer, timebuffer, droppedbuffer, last_timenow, wfeb,
                 good_events, getter, run>>

\* The subscriber's queue was full and ZeroMQ dropped a message.
LoseMessage ==
  /\ wpc = "get" /\ msg < MaxMessages
  /\ msg' = msg + 1
  /\ UNCHANGED <<buffer, timebuffer, droppedbuffer, last_timenow, wpc, groups,
                 wfeb, good_events, getter, run>>

\* Mutant: the capacity is not awaited.
HasCapacity_Ignored(f, n) == TRUE
HasCapacity(f, n) == CAP - Len(buffer[f]) >= n

\* InsertIntoFEBBuffer, first part: wait for room, without the mutex, then take
\* it and find how many events come before the first one out of order.
StartInsert ==
  /\ wpc = "wait"
  /\ \E f \in Febs :
       /\ groups[f] # <<>> /\ \A g \in 1 .. f - 1 : groups[g] = <<>>
       /\ HasCapacity(f, Len(groups[f]))
       /\ wfeb' = f
       /\ good_events' \in 1 .. Len(groups[f])
  /\ wpc' = "times"
  /\ UNCHANGED <<buffer, timebuffer, droppedbuffer, last_timenow, groups, msg,
                 getter, run>>

\* Mutants: times for all the events of the board, not for the good ones; one
\* zero too many.
TimesInserted_All == Len(groups[wfeb])
TimesInserted == good_events
ZerosInserted_OneMore == good_events
ZerosInserted == good_events - 1

\* Second part: three insertions in this order, since the framework thread
\* takes the number of events from the last one.  First the times of the poll
\* that ended with this message...
InsertTimes ==
  /\ wpc = "times"
  /\ LET last == last_timenow[wfeb]
         times == [first |-> IF last = 0 THEN PollStarted(msg) ELSE last,
                   second |-> PollFinished(msg)]
     IN timebuffer' = [timebuffer EXCEPT
                         ![wfeb] = Push(@, Copies(TimesInserted, times))]
  /\ wpc' = "dropped"
  /\ UNCHANGED <<buffer, droppedbuffer, last_timenow, groups, wfeb,
                 good_events, msg, getter, run>>

\* ... then the numbers of events dropped, all of them after the last good one;
\* m records for the properties what message a number is about...
InsertDropped ==
  /\ wpc = "dropped"
  /\ LET zeros == Copies(ZerosInserted, [m |-> msg, n |-> 0])
         last == [m |-> msg, n |-> Len(groups[wfeb]) - good_events]
     IN droppedbuffer' = [droppedbuffer EXCEPT
                            ![wfeb] = Push(Push(@, zeros), <<last>>)]
  /\ wpc' = "events"
  /\ UNCHANGED <<buffer, timebuffer, last_timenow, groups, wfeb, good_events,
                 msg, getter, run>>

\* ... and the events.  The mutex is released, and the next board follows.
InsertEvents ==
  /\ wpc = "events"
  /\ buffer' = [buffer EXCEPT
                  ![wfeb] = Push(@, SubSeq(groups[wfeb], 1, good_events))]
  /\ last_timenow' = [last_timenow EXCEPT ![wfeb] = PollFinished(msg)]
  /\ groups' = [groups EXCEPT ![wfeb] = <<>>]
  /\ wpc' = IF \E f \in Febs : groups'[f] # <<>> THEN "wait" ELSE "get"
  /\ UNCHANGED <<timebuffer, droppedbuffer, wfeb, good_events, msg, getter, run>>

-----------------------------------------------------------------------------
(* The thread of the DAQ framework: getNext_ calls FillFragment for a board  *)
(* until it returns false, then for the next one.                            *)

\* Where the first GPS reference is, among the events there are now.
References(f) == {n \in DOMAIN buffer[f] : /\ buffer[f][n].ref
                                          /\ \A i \in 1 .. n - 1 : ~buffer[f][i].ref}
Ready(f) == Len(buffer[f]) >= 3 /\ References(f) # {}

\* Mutant: one board for ever.
NextFeb_Same(f) == f
NextFeb(f) == (f % NFebs) + 1

\* FillFragment returns false: too few events, or no reference.
NoFragment ==
  /\ gpc = "scan" /\ ~Ready(gfeb)
  /\ gfeb' = NextFeb(gfeb)
  /\ UNCHANGED <<buffer, timebuffer, droppedbuffer, last_timenow, worker,
                 gpc, i_gps, run>>

\* FillFragment finds a reference and builds fragments from the events, the
\* times and the numbers of dropped events up to it, without the mutex.
FindReference ==
  /\ gpc = "scan" /\ Ready(gfeb)
  /\ i_gps' \in References(gfeb)
  /\ gpc' = "build"
  /\ UNCHANGED <<buffer, timebuffer, droppedbuffer, last_timenow, worker,
                 gfeb, run>>

\* Mutant: the reference itself is left in the buffer.
Used_NotReference == i_gps - 1
Used == i_gps

\* EraseFromFEBBuffer, under the mutex.
EraseFromFEBBuffer ==
  /\ gpc = "build" /\ ~Locked(gfeb)
  /\ buffer' = [buffer EXCEPT ![gfeb] = EraseBegin(@, Used)]
  /\ timebuffer' = [timebuffer EXCEPT ![gfeb] = EraseBegin(@, Used)]
  /\ droppedbuffer' = [droppedbuffer EXCEPT ![gfeb] = EraseBegin(@, Used)]
  /\ gpc' = "scan"
  /\ UNCHANGED <<last_timenow, worker, gfeb, i_gps, run>>

-----------------------------------------------------------------------------
\* stop() and start(): the worker has returned from GetData and the framework
\* thread from getNext_.  FEBBuffer::Init forgets droppedbuffer.
Restart ==
  /\ run < MaxRuns
  /\ wpc = "get" /\ gpc = "scan" /\ gfeb = 1
  /\ buffer' = [f \in Febs |-> <<>>]
  /\ timebuffer' = [f \in Febs |-> <<>>]
  /\ last_timenow' = [f \in Febs |-> 0]
  /\ run' = run + 1
  /\ UNCHANGED <<droppedbuffer, worker, getter>>

InsertIntoFEBBuffer == StartInsert \/ InsertTimes \/ InsertDropped \/ InsertEvents
GetData == GetZMQData \/ LoseMessage \/ InsertIntoFEBBuffer
FillFragment == NoFragment \/ FindReference \/ EraseFromFEBBuffer

Next == GetData \/ FillFragment \/ Restart

Spec == Init /\ [][Next]_vars

\* Both threads run.  Nothing makes a message arrive or the run end.
FairSpec == Spec /\ WF_vars(InsertIntoFEBBuffer) /\ WF_vars(FillFragment)

-----------------------------------------------------------------------------
(* Properties.                                                              *)

Times == [first : Nat, second : Nat]
Drops == [m : Nat, n : Nat]

\* Every variable has its type, and no buffer exceeds its capacity.
TypeOK ==
  /\ buffer \in [Febs -> Seq(Events)]
  /\ timebuffer \in [Febs -> Seq(Times)]
  /\ droppedbuffer \in [Febs -> Seq(Drops)]
  /\ \A f \in Febs : /\ Len(buffer[f]) <= CAP
                     /\ Len(timebuffer[f]) <= CAP
                     /\ Len(droppedbuffer[f]) <= CAP
  /\ last_timenow \in [Febs -> Nat]
  /\ wpc \in {"get", "wait", "times", "dropped", "events"}
  /\ groups \in [Febs -> Seq(Events)]
  /\ wfeb \in Febs
  /\ good_events \in Nat
  /\ msg \in Nat
  /\ gpc \in {"scan", "build"}
  /\ gfeb \in Febs
  /\ i_gps \in Nat
  /\ run \in Nat

\* Whatever the worker is doing, an event the framework thread can see has its
\* times at the same place of timebuffer, and the interval covers the poll the
\* event was read in, also when messages were lost.
TimesOfEvents ==
  \A f \in Febs : \A n \in DOMAIN buffer[f] :
    /\ n \in DOMAIN timebuffer[f]
    /\ timebuffer[f][n].first <= PollStarted(buffer[f][n].m)
    /\ timebuffer[f][n].second = PollFinished(buffer[f][n].m)

\* In the first run, the number of events dropped found beside an event is
\* about the message the event came in.
DroppedOfEvents == run = 1 =>
  \A f \in Febs : \A n \in DOMAIN buffer[f] :
    n \in DOMAIN droppedbuffer[f] /\ droppedbuffer[f][n].m = buffer[f][n].m

\* The reference found without the mutex is still the first one, and everything
\* up to it is still there, when the buffers are erased under it.
ReferenceStays == gpc = "build" => i_gps \in References(gfeb)

\* The buffers are queues: the wait for capacity keeps the worker from
\* overwriting events, and a batch ends with its only reference.
Queues == INSTANCE EventQueues WITH queue <- buffer
QueuesSpec == Queues!Spec

\* A reference with at least two other events is used, whatever else arrives,
\* unless a restart discards it.
ReferenceUsed ==
  \A f \in Febs : Ready(f) ~> (gpc = "build" /\ gfeb = f) \/ buffer[f] = <<>>
=============================================================================
