----------------------------- MODULE DriverStatus -----------------------------
(***************************************************************************)
(* What the driver tells about itself and its boards: how it is            *)
(* initialized (FEBDRV::Init), the list of boards and of their versions    *)
(* (pingclients), driver_state, and the statistics it publishes in every   *)
(* turn of its main loop (sendstats, sendstats2).                          *)
(*                                                                         *)
(* Here a reply comes while the driver waits for it or never; what replies *)
(* mean to a command is in DriverCommands, what data do is in Polling.     *)
(***************************************************************************)
EXTENDS Naturals, Sequences, FiniteSets, SequencesExt

CONSTANT Febs  \* the boards

ASSUME FebsAssumption == IsFiniteSet(Febs) /\ Febs # {}

NFebs == Cardinality(Febs)

\* What Init opens, in this order.
Sockets == <<"link", "responder", "publisher", "pubstats", "pubstats2">>

VARIABLES
  dpc,           \* where the driver is
  sockets,       \* the sockets that can be used
  next,          \* the socket Init opens next
  up,            \* the boards that answer
  macs,          \* list of detected clients
  verstr,        \* list of their version strings: the board each one is of
  FEB_present,   \* the boards found by the last ping
  GLOB_daqon,
  driver_state,
  f,             \* the client a loop is at
  ds,            \* the status packet being composed
  lastReplied,   \* history: the last client of sendstats has replied
  stable         \* history: no client has left the list or changed its place since
                 \* the list was empty

clients == <<macs, verstr, FEB_present>>
history == <<lastReplied, stable>>
vars == <<dpc, sockets, next, up, clients, GLOB_daqon, driver_state, f, ds, history>>

nclients == Len(macs)
NoPacket == [status |-> "NONE", febs |-> <<>>]

Init ==
  /\ dpc = "Init" /\ sockets = {} /\ next = 1
  /\ up \in SUBSET Febs
  /\ macs = <<>> /\ verstr = [n \in 1 .. NFebs |-> "NONE"] /\ FEB_present = {}
  /\ GLOB_daqon = FALSE /\ driver_state = "OK"
  /\ f = 1 /\ ds = NoPacket
  /\ lastReplied = TRUE /\ stable = TRUE

-----------------------------------------------------------------------------
\* A board is switched on or off, or its cable is pulled.
BoardChanges ==
  /\ \E b \in Febs : up' = IF b \in up THEN up \ {b} ELSE up \cup {b}
  /\ UNCHANGED <<dpc, sockets, next, clients, GLOB_daqon, driver_state, f, ds, history>>

-----------------------------------------------------------------------------
(* FEBDRV::Init and initif.                                                 *)

\* After the last socket the boards are looked for.
Open ==
  /\ dpc = "Init" /\ next <= Len(Sockets)
  /\ sockets' = sockets \cup {Sockets[next]}
  /\ next' = next + 1
  /\ dpc' = IF next = Len(Sockets) THEN "ping" ELSE "Init"
  /\ UNCHANGED <<up, clients, GLOB_daqon, driver_state, f, ds, history>>

\* A step fails and Init returns.  The socket may be of use all the same: it may
\* be bound to one of two addresses.  The main loop begins in any case.
OpenFails ==
  /\ dpc = "Init" /\ next <= Len(Sockets)
  /\ sockets' \in {sockets, sockets \cup {Sockets[next]}}
  /\ driver_state' = "INITERR"
  /\ dpc' = "ping"
  /\ UNCHANGED <<next, up, clients, GLOB_daqon, f, ds, history>>

-----------------------------------------------------------------------------
(* The link: sendcommand and one reply.                                     *)

\* recvfromfeb sets the state when it times out; sendcommand has set it to OK
\* before (flushlink).  Without a link setsockopt fails, and the state stays.
\* Mutant: flushlink does not reset the state.
AfterReply_NotReset(replied) == IF replied THEN driver_state ELSE "RECVERROR"
AfterReply(replied) ==
  IF replied \/ "link" \notin sockets THEN "OK" ELSE "RECVERROR"

Replies(b) == {FALSE} \cup {r \in {TRUE} : b \in up /\ "link" \in sockets}

-----------------------------------------------------------------------------
(* The main loop.                                                           *)

\* The replies make the list anew, in their order.  A version string is kept at
\* the place of a board that was not present before.
\* Mutants: the boards of before count as present, too; the list is not begun
\* anew.
Listed_Kept(replies) == macs \o SelectSeq(replies, LAMBDA b : ~Contains(macs, b))
Listed(replies) == replies
Version_Never(replies, n) == verstr[n]
Version(replies, n) ==
  IF n <= Len(replies) /\ replies[n] \notin FEB_present THEN replies[n] ELSE verstr[n]

Orders(S) == {s \in [1 .. Cardinality(S) -> S] : ToSet(s) = S}

\* Nothing is done while the DAQ is on.  The main loop sets the state to OK.
pingclients ==
  /\ dpc = "ping"
  /\ IF GLOB_daqon
     THEN UNCHANGED <<clients, stable>>
     ELSE \E S \in SUBSET (IF "link" \in sockets THEN up ELSE {}) : \E replies \in Orders(S) :
            /\ macs' = Listed(replies)
            /\ verstr' = [n \in 1 .. NFebs |-> Version(replies, n)]
            /\ FEB_present' = S
            /\ stable' = (nclients = 0 \/ (stable /\ IsPrefix(macs, replies)))
  /\ driver_state' = "OK"
  /\ dpc' = "request"
  /\ UNCHANGED <<sockets, next, up, GLOB_daqon, f, ds, lastReplied>>

\* A request is carried out if there are clients; it starts or stops the DAQ or
\* does something else, and may leave any state behind.
Request ==
  /\ dpc = "request" /\ "responder" \in sockets
  /\ IF nclients = 0 THEN UNCHANGED <<GLOB_daqon, driver_state>>
     ELSE /\ GLOB_daqon' \in BOOLEAN
          /\ driver_state' \in {"OK", "RECVERROR", "SENDERROR"}
  /\ dpc' = "ping"
  /\ UNCHANGED <<sockets, next, up, clients, f, ds, history>>

NoRequest ==
  /\ dpc = "request"
  /\ dpc' = IF GLOB_daqon THEN "polldata" ELSE "sendstats"
  /\ f' = 1
  /\ UNCHANGED <<sockets, next, up, clients, GLOB_daqon, driver_state, ds, history>>

\* polldata, one board: it may run out of event buffers.
polldata ==
  /\ dpc = "polldata" /\ f <= nclients
  /\ driver_state' \in {"OK", "RECVERROR", "BUFOVERRUN"}
  /\ f' = f + 1
  /\ UNCHANGED <<dpc, sockets, next, up, clients, GLOB_daqon, ds, history>>

polldataEnds ==
  /\ dpc = "polldata" /\ f > nclients
  /\ dpc' = "sendstats" /\ f' = 1
  /\ UNCHANGED <<sockets, next, up, clients, GLOB_daqon, driver_state, ds, history>>

-----------------------------------------------------------------------------
(* Statistics: as text, then as a packet.                                   *)

sendstats ==
  /\ dpc = "sendstats" /\ f <= nclients
  /\ \E replied \in Replies(macs[f]) :
       driver_state' = AfterReply(replied) /\ lastReplied' = replied
  /\ f' = f + 1
  /\ UNCHANGED <<dpc, sockets, next, up, clients, GLOB_daqon, ds, stable>>

\* The packet takes its status before the boards are asked for their rates once
\* more.
sendstats2Begins ==
  /\ dpc = "sendstats" /\ f > nclients
  /\ ds' = [status |-> driver_state, febs |-> <<>>]
  /\ dpc' = "sendstats2" /\ f' = 1
  /\ UNCHANGED <<sockets, next, up, clients, GLOB_daqon, driver_state, history>>

sendstats2 ==
  /\ dpc = "sendstats2" /\ f <= nclients
  /\ \E replied \in Replies(macs[f]) :
       /\ driver_state' = AfterReply(replied)
       /\ ds' = [ds EXCEPT !.febs =
                   Append(@, [mac |-> macs[f], fwcpu |-> verstr[f], connected |-> replied])]
  /\ f' = f + 1
  /\ UNCHANGED <<dpc, sockets, next, up, clients, GLOB_daqon, history>>

\* The packet is published, if there is a socket.
sendstats2Ends ==
  /\ dpc = "sendstats2" /\ f > nclients
  /\ ds' = NoPacket /\ f' = 1
  /\ dpc' = "ping"
  /\ UNCHANGED <<sockets, next, up, clients, GLOB_daqon, driver_state, history>>

-----------------------------------------------------------------------------
Driver ==
  \/ Open \/ OpenFails \/ pingclients \/ Request \/ NoRequest
  \/ polldata \/ polldataEnds
  \/ sendstats \/ sendstats2Begins \/ sendstats2 \/ sendstats2Ends

Next == Driver \/ BoardChanges

Spec == Init /\ [][Next]_vars

\* The driver runs; no board has to change.
FairSpec == Spec /\ WF_vars(Driver)

-----------------------------------------------------------------------------
(* Properties.                                                              *)

\* Whatever went wrong before - an initialization that failed, no event buffer, a
\* packet that could not be sent - the status that is published only tells whether
\* the last board of the list answered when its rate was asked for the first time.
PublishedStatus ==
  dpc = "sendstats2" =>
    ds.status = IF nclients > 0 /\ "link" \in sockets /\ ~lastReplied
                THEN "RECVERROR" ELSE "OK"

\* As long as no client leaves the list or changes its place, the version published
\* with a board is its own, and so it is again after the list was empty; it is not
\* otherwise, since versions are kept by place.
VersionIsOwn ==
  (dpc = "sendstats2" /\ stable) => \A n \in DOMAIN ds.febs : ds.febs[n].fwcpu = ds.febs[n].mac

\* A board that is gone leaves the list once the DAQ is off, so that it does not
\* make all later commands to all boards fail.
GoneBoardsLeave ==
  \A b \in Febs : <>[](b \notin up /\ ~GLOB_daqon) => <>[](~Contains(macs, b))
=============================================================================
