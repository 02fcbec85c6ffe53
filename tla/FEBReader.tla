------------------------------- MODULE FEBReader -------------------------------
(***************************************************************************)
(* The board reader that sits on the link of the boards itself             *)
(* (BernFEB_GeneratorBase, BernFEBData).                                   *)
(*                                                                         *)
(* A worker thread polls board after board.  It copies the packets of a    *)
(* board into one array that all boards share (GetFEBData), and from there *)
(* into the circular buffers of the board (InsertIntoFEBBuffer).  The      *)
(* framework starts and stops the worker, and its other thread looks for a *)
(* GPS reference in the buffers, without their mutex, makes fragments and  *)
(* erases what it used (FillFragment).                                     *)
(*                                                                         *)
(* An event is known by its board, its poll and its place in the poll; the *)
(* poll stands for the time of the insertion, too.                         *)
(***************************************************************************)
EXTENDS Integers, Sequences, FiniteSets

CONSTANTS
  NFebs,      \* number of boards expected (FEBIDs)
  Others,     \* other boards that may answer on the link
  CAP,        \* FEBBufferCapacity
  DTP,        \* FEBDTPBufferCapacity
  WIDTH,      \* 2^32: an unsigned int
  MaxPacket,  \* bound: events in a packet
  MaxPolls,   \* bound: polls of boards
  MaxRuns     \* bound: runs

ASSUME NFebsAssumption == NFebs \in Nat \ {0} /\ Others \cap (1 .. NFebs) = {}
ASSUME CapacityAssumption == CAP \in Nat \ {0} /\ DTP \in Nat \ {0}
ASSUME WIDTHAssumption == WIDTH \in Nat \ {0} /\ DTP < WIDTH  \* DTP is one, too
ASSUME BoundsAssumption ==
  MaxPacket \in Nat \ {0} /\ MaxPolls \in Nat /\ MaxRuns \in Nat

FEBIDs == 1 .. NFebs

VARIABLES
  pc,           \* where the worker thread is
  feb,          \* the board it is at
  dtp,          \* FEBDTPBufferUPtr
  nevents,      \* events copied into it for this board
  good_events,  \* events of them that are in the order of their times
  poll,         \* polls so far
  buffer, timebuffer, droppedbuffer,  \* circular buffers of each board
  gpc,          \* where the thread that makes fragments is
  gfeb, i_gps,  \* the board it is looking at, the reference it found
  cpc,          \* what the framework has commanded
  run,          \* runs started
  daqon,        \* whether the driver has started its DAQ
  brought,      \* history: the events each poll brought, 0 if it timed out
  processed     \* history: the events the driver has stored as well

buffers == <<buffer, timebuffer, droppedbuffer>>
reading == <<feb, dtp, nevents, good_events, poll>>
framework == <<cpc, run, daqon>>
getter == <<gpc, gfeb, i_gps>>
history == <<brought, processed>>
vars == <<pc, reading, buffers, getter, framework, history>>

Event(b, p, n, r) == [feb |-> b, poll |-> p, no |-> n, ref |-> r]

\* Inserting at the end of a full boost::circular_buffer overwrites its front.
Push(q, new) == LET all == q \o new IN
  IF Len(all) > CAP THEN SubSeq(all, Len(all) - CAP + 1, Len(all)) ELSE all
EraseBegin(q, n) == SubSeq(q, n + 1, Len(q))
Copies(n, x) == [i \in 1 .. n |-> x]

\* new[] leaves events that nobody sent in the array.
Init ==
  /\ pc = "off" /\ feb = 1
  /\ dtp = [i \in 1 .. DTP |-> Event(0, 0, i, FALSE)]
  /\ nevents = 0 /\ good_events = 0 /\ poll = 0
  /\ buffer = [b \in FEBIDs |-> <<>>]
  /\ timebuffer = [b \in FEBIDs |-> <<>>]
  /\ droppedbuffer = [b \in FEBIDs |-> <<>>]
  /\ gpc = "scan" /\ gfeb = 1 /\ i_gps = 0
  /\ cpc = "constructing" /\ run = 0 /\ daqon = FALSE
  /\ brought = <<>> /\ processed = {}

-----------------------------------------------------------------------------
(* The framework's commands.                                                *)

\* PingFEBs, called by the constructor: as many boards must answer as are
\* expected, each of them one that is.  Otherwise an exception ends the
\* construction, and the framework tries again.
RightFEBs(clients) == Cardinality(clients) = NFebs /\ clients \subseteq FEBIDs

Construct ==
  /\ cpc = "constructing"
  /\ \E clients \in SUBSET (FEBIDs \cup Others) :
       cpc' = IF RightFEBs(clients) THEN "stopped" ELSE "constructing"
  /\ UNCHANGED <<pc, reading, buffers, getter, run, daqon, history>>

\* start(): FEBBuffer::Init clears all but droppedbuffer.  ConfigureStart does
\* not look at what startDAQ returns.
start ==
  /\ cpc = "stopped" /\ gpc = "scan" /\ run < MaxRuns
  /\ buffer' = [b \in FEBIDs |-> <<>>]
  /\ timebuffer' = [b \in FEBIDs |-> <<>>]
  /\ daqon' \in BOOLEAN
  /\ cpc' = "running" /\ run' = run + 1 /\ gfeb' = 1
  /\ pc' = "setup"
  /\ UNCHANGED <<reading, droppedbuffer, gpc, i_gps, history>>

\* stop() and stopNoMutex(): the worker is told to stop; when it has ended,
\* ConfigureStop stops the DAQ.
stop ==
  /\ cpc = "running"
  /\ cpc' = "stopping"
  /\ UNCHANGED <<pc, reading, buffers, getter, run, daqon, history>>

ConfigureStop ==
  /\ cpc = "stopping" /\ pc = "off"
  /\ cpc' = "stopped" /\ daqon' = FALSE
  /\ UNCHANGED <<pc, reading, buffers, getter, run, history>>

-----------------------------------------------------------------------------
(* The worker thread: GetData again and again.                              *)

\* The flag is tested between two calls.  polldata_setup refuses unless the DAQ
\* is on.
GetDataSetup ==
  /\ pc = "setup"
  /\ pc' = IF cpc = "stopping" THEN "off" ELSE IF daqon THEN "board" ELSE pc
  /\ feb' = 1
  /\ UNCHANGED <<dtp, nevents, good_events, poll, buffers, getter, framework, history>>

\* timer.check_time: it is too early to poll this board again.
Skip ==
  /\ pc = "board" /\ feb <= NFebs
  /\ feb' = feb + 1
  /\ UNCHANGED <<pc, dtp, nevents, good_events, poll, buffers, getter, framework, history>>

\* GetFEBData, up to the first packet.
pollfeb ==
  /\ pc = "board" /\ feb <= NFebs /\ poll < MaxPolls
  /\ poll' = poll + 1 /\ brought' = Append(brought, 0)
  /\ nevents' = 0
  /\ pc' = "receive"
  /\ UNCHANGED <<feb, dtp, good_events, buffers, getter, framework, processed>>

Packet(n, refs) == [i \in 1 .. n |-> Event(feb, poll, nevents + i, i \in refs)]

\* The events of a packet are copied behind those there are, and given to the
\* driver.  The capacity of the array is tested after they were copied; the
\* exception ends the worker thread.
ReceiveData ==
  /\ pc = "receive"
  /\ \E n \in 1 .. MaxPacket : \E refs \in SUBSET (1 .. n) :
       /\ dtp' = [i \in 1 .. DTP |->
                    IF i - nevents \in 1 .. n THEN Packet(n, refs)[i - nevents] ELSE dtp[i]]
       /\ IF nevents + n > DTP
          THEN pc' = "off" /\ UNCHANGED <<nevents, processed>>
          ELSE /\ nevents' = nevents + n
               /\ processed' = processed \cup {dtp'[nevents + i] : i \in 1 .. n}
               /\ UNCHANGED pc
  /\ UNCHANGED <<feb, good_events, poll, buffers, getter, framework, brought>>

\* The end mark.
ReceiveEnd ==
  /\ pc = "receive"
  /\ brought' = [brought EXCEPT ![poll] = nevents]
  /\ pc' = "wait"
  /\ UNCHANGED <<reading, buffers, getter, framework, processed>>

\* What GetFEBData returns after a timeout.  Mutant: the events it has got.
AfterTimeout_Kept == nevents
AfterTimeout == 0

ReceiveNothing ==
  /\ pc = "receive"
  /\ nevents' = AfterTimeout
  /\ pc' = "wait"
  /\ UNCHANGED <<feb, dtp, good_events, poll, buffers, getter, framework, history>>

\* A packet of another kind, or of a size that is not one of events.
ReceiveBad ==
  /\ pc = "receive"
  /\ pc' = "off"
  /\ UNCHANGED <<reading, buffers, getter, framework, history>>

-----------------------------------------------------------------------------
(* InsertIntoFEBBuffer: the mutex of the board is held from the end of the   *)
(* wait to the insertion of the events.                                      *)

Locked(b) == pc \in {"times", "dropped", "events"} /\ feb = b

\* Mutant: one place stays free.
HasCapacity_Less == CAP - Len(buffer[feb]) > nevents
HasCapacity == CAP - Len(buffer[feb]) >= nevents

WaitForCapacity == pc = "wait" /\ ~HasCapacity /\ UNCHANGED vars

\* The loop that looks for an event out of order begins behind the first event,
\* also when there is none.  Mutant: it looks at one event too many.
Good_OneMore == 1 .. IF nevents < DTP THEN nevents + 1 ELSE nevents
Good == IF nevents = 0 THEN {1} ELSE 1 .. nevents

StartInsert ==
  /\ pc = "wait" /\ HasCapacity
  /\ good_events' \in Good
  /\ pc' = "times"
  /\ UNCHANGED <<feb, dtp, nevents, poll, buffers, getter, framework, history>>

\* Mutant: a time for each event of the poll.
TimesInserted_All == nevents
TimesInserted == good_events

InsertTimes ==
  /\ pc = "times"
  /\ timebuffer' = [timebuffer EXCEPT ![feb] = Push(@, Copies(TimesInserted, poll))]
  /\ pc' = "dropped"
  /\ UNCHANGED <<reading, buffer, droppedbuffer, getter, framework, history>>

InsertDropped ==
  /\ pc = "dropped"
  /\ droppedbuffer' =
       [droppedbuffer EXCEPT
          ![feb] = Push(Push(@, Copies(good_events - 1, 0)),
                        <<(nevents - good_events) % WIDTH>>)]
  /\ pc' = "events"
  /\ UNCHANGED <<reading, buffer, timebuffer, getter, framework, history>>

InsertEvents ==
  /\ pc = "events"
  /\ buffer' = [buffer EXCEPT ![feb] = Push(@, SubSeq(dtp, 1, good_events))]
  /\ pc' = "board" /\ feb' = feb + 1
  /\ nevents' = 0 /\ good_events' = 0
  /\ UNCHANGED <<dtp, poll, timebuffer, droppedbuffer, getter, framework, history>>

\* After the last board: the driver publishes, and GetData returns.
GetDataComplete ==
  /\ pc = "board" /\ feb > NFebs
  /\ pc' = "setup"
  /\ UNCHANGED <<reading, buffers, getter, framework, history>>

-----------------------------------------------------------------------------
(* getNext_: FillFragment for a board until it returns false, then for the   *)
(* next one.                                                                 *)

References(b) == {n \in DOMAIN buffer[b] : /\ buffer[b][n].ref
                                          /\ \A i \in 1 .. n - 1 : ~buffer[b][i].ref}
Ready(b) == Len(buffer[b]) >= 3 /\ References(b) # {}

NoFragment ==
  /\ gpc = "scan" /\ cpc # "constructing" /\ ~Ready(gfeb)
  /\ gfeb' = (gfeb % NFebs) + 1
  /\ UNCHANGED <<pc, reading, buffers, gpc, i_gps, framework, history>>

\* The time up to the reference is rounded to seconds: there are none to cut into
\* windows, or there is at least one.
FindReference ==
  /\ gpc = "scan" /\ cpc # "constructing" /\ Ready(gfeb)
  /\ i_gps' \in References(gfeb)
  /\ gpc' \in {"erase", "windows"}
  /\ UNCHANGED <<pc, reading, buffers, gfeb, framework, history>>

\* The loop over the windows of these seconds changes neither end of its window:
\* it adds a fragment and goes on.
AddFragment == gpc = "windows" /\ UNCHANGED vars

\* Mutant: the reference itself is left in the buffers of times.
TimesErased_Less == i_gps - 1
TimesErased == i_gps

EraseFromFEBBuffer ==
  /\ gpc = "erase" /\ ~Locked(gfeb)
  /\ buffer' = [buffer EXCEPT ![gfeb] = EraseBegin(@, i_gps)]
  /\ timebuffer' = [timebuffer EXCEPT ![gfeb] = EraseBegin(@, TimesErased)]
  /\ droppedbuffer' = [droppedbuffer EXCEPT ![gfeb] = EraseBegin(@, i_gps)]
  /\ gpc' = "scan" /\ i_gps' = 0
  /\ UNCHANGED <<pc, reading, gfeb, framework, history>>

-----------------------------------------------------------------------------
GetFEBData == pollfeb \/ ReceiveData \/ ReceiveEnd \/ ReceiveNothing \/ ReceiveBad
InsertIntoFEBBuffer ==
  WaitForCapacity \/ StartInsert \/ InsertTimes \/ InsertDropped \/ InsertEvents
GetData == GetDataSetup \/ Skip \/ GetFEBData \/ InsertIntoFEBBuffer \/ GetDataComplete
FillFragment == NoFragment \/ FindReference \/ AddFragment \/ EraseFromFEBBuffer
Commands == Construct \/ start \/ stop \/ ConfigureStop

Next == GetData \/ FillFragment \/ Commands

Spec == Init /\ [][Next]_vars

\* The threads run, and a command that was given is carried out.  Nothing has to
\* be commanded, and no packet has to come: then the driver's receive times out.
FairSpec == Spec /\ WF_vars(GetData) /\ WF_vars(ConfigureStop)

-----------------------------------------------------------------------------
(* Properties.                                                              *)

\* FillFragment, without the mutex, finds a time and a number of dropped events
\* beside every event it sees, whatever the worker is doing.
VisibleHaveTimes ==
  \A b \in FEBIDs : /\ Len(buffer[b]) <= Len(timebuffer[b])
                     /\ Len(buffer[b]) <= Len(droppedbuffer[b])

\* A poll without events needs no room, yet inserts one: into a full board, whose
\* oldest event is overwritten, and whose buffers disagree meanwhile.
Overwriting(b) == Locked(b) /\ nevents = 0 /\ Len(buffer[b]) = CAP

\* In the first run, what a poll has put into the buffers and the number of
\* events dropped beside its last event add up to what the poll brought, modulo
\* 2^32: also for a poll that brought nothing, which inserts one old event and
\* counts minus one.
DropsAddUp == run = 1 =>
  \A b \in FEBIDs : ~Overwriting(b) => \A n \in DOMAIN buffer[b] :
    LET p == timebuffer[b][n]
        isLast == n = Len(buffer[b]) \/ timebuffer[b][n + 1] # p
    IN IF isLast THEN (buffer[b][n].no + droppedbuffer[b][n]) % WIDTH = brought[p]
                 ELSE droppedbuffer[b][n] = 0

\* Only the first event a poll inserts may be a stale one of the array that the
\* boards share; the others are the poll's own, in their order, and the driver
\* has them as well.
OnlyFirstIsStale ==
  \A b \in FEBIDs : ~Overwriting(b) =>
    \A n \in DOMAIN buffer[b] : buffer[b][n].no > 1 =>
      /\ buffer[b][n].feb = b /\ buffer[b][n].poll = timebuffer[b][n]
      /\ buffer[b][n] \in processed
      /\ (n > 1 /\ timebuffer[b][n - 1] = timebuffer[b][n])
           => buffer[b][n - 1].no = buffer[b][n].no - 1

\* A stop returns, unless the worker waits for capacity: of a full board without
\* a reference, or of one whose fragments never end.
StopUnlessFull ==
  cpc = "stopping" ~>
    cpc = "stopped" \/ (pc = "wait" /\ Len(buffer[feb]) + nevents > CAP)

\* "The order here is important.  The buffer with events needs to be last, as
\* that's what is used later for the filling process": with this order the
\* reference found without the mutex is still there when the buffers are erased
\* up to it.
ReferenceStays == gpc # "scan" => i_gps \in References(gfeb)
=============================================================================
