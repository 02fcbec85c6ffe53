--------------------------------- MODULE Polling ---------------------------------
(***************************************************************************)
(* Polling the boards for data (polldata and the functions it calls,       *)
(* FEBDRV.cc).                                                             *)
(*                                                                         *)
(* The driver asks one board after the other for its events.  A board      *)
(* sends packets of events and an end mark; any of them may be lost, and a *)
(* reply to something else may come in between.  With each event come the  *)
(* numbers of events lost in the board's CPU and FPGA; here a number is    *)
(* known by the event it came with, and what is added to a counter is      *)
(* appended to a sequence.  The buffers of getnextevent are those of       *)
(* module EventBuffers; here there is room for an event or there is not.   *)
(***************************************************************************)
EXTENDS Integers, Sequences, SequencesExt

CONSTANTS
  NFebs,       \* boards in the list of clients
  HEAD,        \* words of an event read before getnextevent: 3 of 4 bytes
  EVENT,       \* words of an event: 19
  MaxEvents    \* bound: events a board has for one poll

ASSUME NFebsAssumption == NFebs \in Nat \ {0}
ASSUME EVENTAssumption == HEAD \in Nat \ {0} /\ EVENT \in Nat /\ HEAD < EVENT
ASSUME MaxEventsAssumption == MaxEvents \in Nat

Febs == 1 .. NFebs
Nothing == 0  \* no event: the counters are 0 at first
Garbage == MaxEvents + 1  \* words of the middle of an event, taken for its beginning

VARIABLES
  pc,          \* where polldata is
  f,           \* the board being polled
  link,        \* packets on their way
  rpkt,        \* the last packet received
  numbytes,    \* 0 after a timeout, else positive
  jj,          \* words of it processed
  overwritten, \* the event the number was last read from
  lostperpoll_cpu, lostperpoll_fpga,  \* for each board, the numbers added
  stored,      \* for each board, the events stored
  overrun,     \* history: getnextevent found no room in this poll
  received     \* history: for each board, the events received in this poll

counters == <<lostperpoll_cpu, lostperpoll_fpga, stored>>
history == <<overrun, received>>
vars == <<pc, f, link, rpkt, numbytes, jj, overwritten, counters, history>>

Packet(src, cmd, events) == [src |-> src, CMD |-> cmd, events |-> events]
None == [b \in Febs |-> <<>>]

Init ==
  /\ pc = "idle" /\ f = 1
  /\ link = <<>>
  /\ \E src \in Febs : rpkt = Packet(src, "OK", <<>>)
  /\ numbytes = 1 /\ jj = 0
  /\ overwritten = Nothing
  /\ lostperpoll_cpu = None /\ lostperpoll_fpga = None /\ stored = None
  /\ overrun = FALSE /\ received = None

-----------------------------------------------------------------------------
(* The link.                                                                *)

\* What may come from a board that is asked for its events: all or some of its
\* packets, perhaps after a late reply.
Numbers(m, n) == [i \in 1 .. n - m |-> m + i]
Answers(b) ==
  {prefix \o data \o end :
     prefix \in {<<>>, <<Packet(b, "OK", <<>>)>>},
     data \in {<<>>}
       \cup {<<Packet(b, "DATA_CDR", Numbers(m, n))>> : m \in 0 .. MaxEvents, n \in 1 .. MaxEvents}
       \cup {<<Packet(b, "DATA_CDR", Numbers(0, m)), Packet(b, "DATA_CDR", Numbers(m, n))>> :
               m \in 1 .. MaxEvents, n \in 1 .. MaxEvents},
     end \in {<<>>, <<Packet(b, "EOF_CDR", <<>>)>>}}

-----------------------------------------------------------------------------
(* polldata.                                                                *)

\* The counters of the poll are set to 0.  Mutant: one is not.
Zeroes_Kept(counter) == counter
Zeroes(counter) == None

polldata_setup ==
  /\ pc = "idle"
  /\ pc' = "poll" /\ f' = 1
  /\ overwritten' = Nothing
  /\ lostperpoll_cpu' = Zeroes(lostperpoll_cpu) /\ lostperpoll_fpga' = None
  /\ stored' = None
  /\ overrun' = FALSE /\ received' = None
  /\ UNCHANGED <<link, rpkt, numbytes, jj>>

\* pollfeb: what is still to be received is thrown away, and the code of the
\* last packet forgotten.  Mutant: it is not.
Cleared_Kept(p) == p
Cleared(p) == [p EXCEPT !.CMD = "none"]

pollfeb ==
  /\ pc = "poll"
  /\ link' \in Answers(f)
  /\ numbytes' = 1
  /\ rpkt' = Cleared(rpkt)
  /\ pc' = "receive"
  /\ UNCHANGED <<f, jj, overwritten, counters, history>>

\* The loop on the packets of a board.  Mutant: a timeout does not end it.
More_NoTimeout == rpkt.CMD # "EOF_CDR"
More == numbytes > 0 /\ rpkt.CMD # "EOF_CDR"

\* recvandprocessL2pack: a packet of events is processed, others are skipped.
Receive ==
  /\ pc = "receive" /\ More /\ link # <<>>
  /\ rpkt' = Head(link) /\ link' = Tail(link)
  /\ numbytes' = 1
  /\ IF rpkt'.CMD = "DATA_CDR"
     THEN /\ pc' = "process" /\ jj' = 0
          /\ received' = [received EXCEPT ![rpkt'.src] = @ \o rpkt'.events]
     ELSE UNCHANGED <<pc, jj, received>>
  /\ UNCHANGED <<f, overwritten, counters, overrun>>

TimedOut ==
  /\ pc = "receive" /\ More /\ link = <<>>
  /\ numbytes' = 0
  /\ UNCHANGED <<pc, f, link, rpkt, jj, overwritten, counters, history>>

\* processL2pack, one turn of its loop: the event that begins at jj.
datalen == EVENT * Len(rpkt.events)
This == IF jj % EVENT = 0 THEN rpkt.events[jj \div EVENT + 1] ELSE Garbage

\* Words of an event.  Mutant: the numbers are counted twice.
Stride_Wrong == EVENT + HEAD
Stride == EVENT

ReadHead ==
  /\ overwritten' = This
  /\ lostperpoll_fpga' = [lostperpoll_fpga EXCEPT ![rpkt.src] = Append(@, This)]

\* There is room for the event.
Store ==
  /\ pc = "process" /\ jj < datalen
  /\ ReadHead
  /\ stored' = [stored EXCEPT ![rpkt.src] = Append(@, This)]
  /\ jj' = jj + Stride
  /\ UNCHANGED <<pc, f, link, rpkt, numbytes, lostperpoll_cpu, history>>

\* There is none: the loop goes on behind the words read.
NoRoom ==
  /\ pc = "process" /\ jj < datalen
  /\ ReadHead
  /\ jj' = jj + HEAD
  /\ overrun' = TRUE
  /\ UNCHANGED <<pc, f, link, rpkt, numbytes, lostperpoll_cpu, stored, received>>

Processed ==
  /\ pc = "process" /\ jj >= datalen
  /\ pc' = "receive"
  /\ UNCHANGED <<f, link, rpkt, numbytes, jj, overwritten, counters, history>>

\* updateoverwritten: the last number read is charged to the board that sent the
\* last packet.
Charge == [lostperpoll_cpu EXCEPT ![rpkt.src] =
             IF overwritten = Nothing THEN @ ELSE Append(@, overwritten)]

MoreBoards == f < NFebs

updateoverwritten ==
  /\ pc = "receive" /\ ~More
  /\ lostperpoll_cpu' = Charge
  /\ pc' = IF MoreBoards THEN "poll" ELSE "done"
  /\ f' = IF MoreBoards THEN f + 1 ELSE f
  /\ UNCHANGED <<link, rpkt, numbytes, jj, overwritten, lostperpoll_fpga, stored, history>>

\* polldata_complete; the replies to what the main loop sends next are received
\* before it polls again.
polldata_complete ==
  /\ pc = "done"
  /\ pc' = "idle"
  /\ \E src \in Febs : rpkt' = Packet(src, "OK", <<>>)
  /\ UNCHANGED <<f, link, numbytes, jj, overwritten, counters, history>>

Next ==
  \/ polldata_setup \/ pollfeb \/ Receive \/ TimedOut
  \/ Store \/ NoRoom \/ Processed \/ updateoverwritten \/ polldata_complete

Spec == Init /\ [][Next]_vars

\* The driver's only thread runs.
FairSpec == Spec /\ WF_vars(Next)

-----------------------------------------------------------------------------
(* Properties.                                                              *)

Event == 0 .. Garbage

\* Every variable has its type.
TypeOK ==
  /\ pc \in {"idle", "poll", "receive", "process", "done"}
  /\ f \in Febs
  /\ \A i \in DOMAIN link : link[i].src \in Febs
  /\ rpkt.src \in Febs /\ rpkt.CMD \in {"OK", "DATA_CDR", "EOF_CDR", "none"}
  /\ numbytes \in {0, 1} /\ jj \in Nat
  /\ overwritten \in Event
  /\ lostperpoll_cpu \in [Febs -> Seq(Event)]
  /\ lostperpoll_fpga \in [Febs -> Seq(Event)]
  /\ stored \in [Febs -> Seq(Event)]
  /\ received \in [Febs -> Seq(Event)]
  /\ overrun \in BOOLEAN

\* As long as there is room, every event received is stored once, as it came,
\* for the board it came from, however it was packed.
EveryEventStored ==
  ~overrun /\ pc \in {"poll", "done", "idle"} => stored = received

\* Then the events lost in the FPGA are charged once, to the board that reported
\* them.
FpgaLostCharged ==
  ~overrun /\ pc \in {"poll", "done", "idle"} => lostperpoll_fpga = received

\* If in addition every board had events, the events overwritten in its CPU are
\* charged once to each, as its last event reports them.
CpuLostCharged ==
  ~overrun /\ pc = "done" /\ (\A b \in Febs : received[b] # <<>>) =>
    \A b \in Febs : lostperpoll_cpu[b] = <<Last(received[b])>>

\* A board is left only when nothing is to come from it: the next command
\* throws no events away.
NothingThrownAway == pc = "poll" => link = <<>>

\* A poll ends.
PollEnds == pc = "poll" ~> pc = "idle"
=============================================================================
