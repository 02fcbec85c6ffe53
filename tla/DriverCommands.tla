----------------------------- MODULE DriverCommands -----------------------------
(***************************************************************************)
(* The commands of the FEB driver and their replies (FEBDRV.cc, main loop  *)
(* of febdrv.cc).                                                          *)
(*                                                                         *)
(* The driver sends a command to one board or to all of them, counts the   *)
(* replies until none comes for a while, and goes on to the next command.  *)
(* A reply says what it confirms only by one code, which most commands     *)
(* share, so a reply that comes late may be taken for another one.  The    *)
(* link may lose a command, or a reply, and delay replies.                 *)
(*                                                                         *)
(* Polling the boards for data (polldata) is left to other modules.        *)
(***************************************************************************)
EXTENDS Naturals, Sequences, FiniteSets

CONSTANTS
  Febs,      \* the boards on the link, named by the last byte of their MAC
  Broadcast, \* 255
  Configs,   \* what a client may ask a board to be configured with
  Requests,  \* the commands clients send
  WIDTH,     \* 256, the values of a uint8_t
  Prompt,    \* whether no reply comes after the driver gave up waiting
  MaxCopies  \* bound: equal replies on their way

ASSUME FebsAssumption == IsFiniteSet(Febs) /\ Broadcast \notin Febs
ASSUME RequestsAssumption ==
  Requests \subseteq {"DAQ_BEG", "DAQ_END", "BIAS_ON", "BIAS_OF", "SETCONF"}
ASSUME WIDTHAssumption == WIDTH \in Nat \ {0}
ASSUME PromptAssumption == Prompt \in BOOLEAN
ASSUME MaxCopiesAssumption == MaxCopies \in Nat \ {0}

VARIABLES
  stage,       \* where the main loop is: the command it waits replies for
  req,         \* the request being served
  rv,          \* and its result
  nreplies,    \* replies counted
  macs,        \* list of detected clients; nclients is its length
  FEB_daqon, FEB_biason,  \* sets of boards
  FEB_configured,
  bufSCR, bufPMR,  \* configuration to be sent to each board
  GLOB_daqon,
  stats,       \* what the statistics say of the last board asked
  link,        \* how many of each reply are still to be received
  board,       \* what each board was told
  repliers     \* history: the boards whose replies were counted

client == <<req, rv, nreplies, repliers>>
tables == <<macs, FEB_daqon, FEB_biason, FEB_configured,
            bufSCR, bufPMR, GLOB_daqon>>
wire == <<link, board>>
vars == <<stage, client, tables, stats, wire>>

nclients == Len(macs)
Clients == {macs[k] : k \in DOMAIN macs}
Macs == Febs \cup {Broadcast}
Codes == {"OK", "OK_SCR", "OK_PMR", "ERR"}
Replies == Febs \X Codes
Silence == [p \in Replies |-> 0]
NoRequest == [cmd |-> "none", mac |-> Broadcast, prev |-> 0]
NoStats == [mac |-> Broadcast, connected |-> FALSE, from |-> Broadcast]

Init ==
  /\ stage = "top"
  /\ req = NoRequest /\ rv = 0 /\ nreplies = 0 /\ repliers = {}
  /\ macs = <<>>
  /\ FEB_daqon = {} /\ FEB_biason = {}
  /\ FEB_configured = [f \in Febs |-> 0]
  /\ bufSCR = [f \in Febs |-> "zeroes"] /\ bufPMR = [f \in Febs |-> "zeroes"]
  /\ GLOB_daqon = FALSE
  /\ stats = NoStats
  /\ link = Silence
  /\ board = [f \in Febs |-> [enabled |-> FALSE, hv |-> FALSE,
                              scr |-> "none", pmr |-> "none"]]

-----------------------------------------------------------------------------
(* The link.                                                                *)

\* What a command does to a board that obeys it.
Effect(s, f) ==
  CASE s = "init0" -> [board[f] EXCEPT !.enabled = FALSE]
    [] s = "init2" -> [board[f] EXCEPT !.enabled = TRUE]
    [] s = "hvon"  -> [board[f] EXCEPT !.hv = TRUE]
    [] s = "hvof"  -> [board[f] EXCEPT !.hv = FALSE]
    [] s = "scr"   -> [board[f] EXCEPT !.scr = bufSCR'[f]]
    [] s = "pmr1"  -> [board[f] EXCEPT !.pmr = bufPMR[f]]
    [] OTHER       -> board[f]

\* The code of the reply that confirms a command.
Confirmed(s) == CASE s = "scr" -> "OK_SCR"
                  [] s \in {"pmr", "pmr1"} -> "OK_PMR"
                  [] OTHER -> "OK"

To(mac) == IF mac = Broadcast THEN Febs ELSE {mac}

\* What becomes of a command for one board: it is lost, refused, obeyed, or
\* obeyed though the reply is lost.
Fates == {"lost", "refused", "obeyed", "unheard"}

\* flushlink reads until the link is silent for a while; what is late may stay.
\* Mutant: it reads nothing.
Flushed_Kept == {link}
Flushed == IF Prompt THEN {Silence}
           ELSE {left \in [Replies -> 0 .. MaxCopies] :
                   \A p \in Replies : left[p] <= link[p]}

\* sendcommand: flushlink, then one packet.
sendcommand(s, mac) ==
  \E fate \in [To(mac) -> Fates], left \in Flushed :
    LET replies == {<<f, Confirmed(s)>> : f \in {g \in To(mac) : fate[g] = "obeyed"}}
                     \cup {<<f, "ERR">> : f \in {g \in To(mac) : fate[g] = "refused"}}
    IN /\ link' = [p \in Replies |-> left[p] + IF p \in replies THEN 1 ELSE 0]
       /\ \A p \in Replies : link'[p] <= MaxCopies
       /\ board' = [f \in Febs |->
                       IF f \in To(mac) /\ fate[f] \in {"obeyed", "unheard"}
                       THEN Effect(s, f) ELSE board[f]]

\* recvfromfeb returns a packet, or none when it has waited long enough.
Received(src, cmd) ==
  /\ link[<<src, cmd>>] > 0
  /\ link' = [link EXCEPT ![<<src, cmd>>] = @ - 1]
  /\ board' = board
Waited == Prompt => link = Silence
TimedOut == Waited /\ UNCHANGED wire

-----------------------------------------------------------------------------
(* pingclients, at the top of the main loop.                                *)

pingNotAllowed ==
  /\ stage = "top" /\ GLOB_daqon
  /\ stage' = "request"
  /\ UNCHANGED <<client, tables, stats, wire>>

pingclients ==
  /\ stage = "top" /\ ~GLOB_daqon
  /\ macs' = <<>>
  /\ sendcommand("ping", Broadcast)
  /\ stage' = "ping"
  /\ UNCHANGED <<client, FEB_daqon, FEB_biason,
                 FEB_configured, bufSCR, bufPMR, GLOB_daqon, stats>>

\* Every FEB_OK is a client; version strings are left out.
PingReply ==
  /\ stage = "ping"
  /\ \E src \in Febs, cmd \in Codes :
       /\ Received(src, cmd)
       /\ macs' = IF cmd = "OK" THEN Append(macs, src) ELSE macs
  /\ UNCHANGED <<stage, client, FEB_daqon, FEB_biason,
                 FEB_configured, bufSCR, bufPMR, GLOB_daqon, stats>>

PingDone ==
  /\ stage = "ping" /\ TimedOut
  /\ stage' = "request"
  /\ UNCHANGED <<client, macs, FEB_daqon, FEB_biason, FEB_configured,
                 bufSCR, bufPMR, GLOB_daqon, stats>>

-----------------------------------------------------------------------------
(* Requests of clients.                                                     *)

Serve(cmd, mac) ==
  /\ stage = "request" /\ cmd \in Requests
  /\ req' = [cmd |-> cmd, mac |-> mac,
              prev |-> IF mac = Broadcast THEN 0 ELSE FEB_configured[mac]]
  /\ UNCHANGED <<nreplies, repliers>>

\* No client board, or arguments configu refuses: broadcast, wrong length.
Refuse ==
  \E cmd \in Requests, mac \in Macs :
    /\ Serve(cmd, mac)
    /\ nclients = 0 \/ cmd = "SETCONF"
    /\ rv' = 0 /\ stage' = "answer"
    /\ UNCHANGED <<tables, stats, wire>>

stopDAQ ==
  \E mac \in Macs :
    /\ Serve("DAQ_END", mac) /\ nclients > 0
    /\ GLOB_daqon' = FALSE
    /\ rv' = 1 /\ stage' = "answer"
    /\ UNCHANGED <<macs, FEB_daqon, FEB_biason,
                   FEB_configured, bufSCR, bufPMR, stats, wire>>

\* startDAQ, biasON and biasOFF begin with a command.
Begin(cmd, s) ==
  \E mac \in Macs :
    /\ Serve(cmd, mac) /\ nclients > 0
    /\ sendcommand(s, mac)
    /\ stage' = s
    /\ UNCHANGED <<rv, tables, stats>>
startDAQ == Begin("DAQ_BEG", "init0")
biasON == Begin("BIAS_ON", "hvon")
biasOFF == Begin("BIAS_OF", "hvof")

\* configu and the beginning of sendconfig.  FEB_configured is 0 until the
\* end, which adds one to the value it had.
configu ==
  \E mac \in Febs, c \in Configs :
    /\ Serve("SETCONF", mac) /\ nclients > 0
    /\ bufSCR' = [bufSCR EXCEPT ![mac] = c]
    /\ bufPMR' = [bufPMR EXCEPT ![mac] = c]
    /\ FEB_configured' = [FEB_configured EXCEPT ![mac] = 0]
    /\ sendcommand("scr", mac)
    /\ stage' = "scr"
    /\ UNCHANGED <<rv, macs, FEB_daqon, FEB_biason, GLOB_daqon,
                   stats>>

-----------------------------------------------------------------------------
(* The loops that count replies, and what follows them.                     *)

Loops == {"init0", "init1", "init2", "hvon", "hvof", "scr", "pmr"}

Answer(r) == rv' = r /\ stage' = "answer"

\* A reply with the right code is counted, and noted for the board it names.
CountReply ==
  /\ stage \in Loops
  /\ \E src \in Febs :
       /\ Received(src, Confirmed(stage))
       /\ nreplies' = nreplies + 1
       /\ repliers' = repliers \cup {src}
       /\ FEB_daqon' = IF stage = "init2" THEN FEB_daqon \cup {src} ELSE FEB_daqon
       /\ FEB_biason' = CASE stage = "hvon" -> FEB_biason \cup {src}
                          [] stage = "hvof" -> FEB_biason \ {src}
                          [] OTHER -> FEB_biason
  /\ UNCHANGED <<stage, req, rv, macs, FEB_configured,
                 bufSCR, bufPMR, GLOB_daqon, stats>>

\* Any other code ends the request at once, whatever is still to be received.
WrongReply ==
  /\ stage \in Loops
  /\ \E src \in Febs, cmd \in Codes \ {Confirmed(stage)} : Received(src, cmd)
  /\ Answer(0)
  /\ UNCHANGED <<req, nreplies, repliers, tables, stats>>

\* Whether enough boards replied when no more replies come; the first command
\* of startDAQ may have no reply.  Mutants: one reply is enough; a single board need
\* not reply.
Enough_None == req.mac = Broadcast => nreplies = nclients
Enough_One == nreplies > 0 \/ stage = "init0"
Enough == /\ nreplies > 0 \/ stage = "init0"
          /\ req.mac = Broadcast => nreplies = nclients

TooFew ==
  /\ stage \in Loops /\ TimedOut /\ ~Enough
  /\ Answer(0)
  /\ UNCHANGED <<req, nreplies, repliers, tables, stats>>

\* startDAQ: stop, reset, enable.  Mutant: the reset is repeated.
NextInit_Same(s) == "init1"
NextInit(s) == IF s = "init0" THEN "init1" ELSE "init2"

StartDAQGoesOn ==
  /\ stage \in {"init0", "init1"} /\ Waited /\ Enough
  /\ stage' = NextInit(stage)
  /\ sendcommand(NextInit(stage), req.mac)
  /\ nreplies' = 0 /\ repliers' = {}
  /\ UNCHANGED <<req, rv, tables, stats>>

StartDAQDone ==
  /\ stage = "init2" /\ TimedOut /\ Enough
  /\ GLOB_daqon' = TRUE
  /\ Answer(1)
  /\ UNCHANGED <<req, nreplies, repliers, macs, FEB_daqon,
                 FEB_biason, FEB_configured, bufSCR, bufPMR, stats>>

BiasDone ==
  /\ stage \in {"hvon", "hvof"} /\ TimedOut /\ Enough
  /\ Answer(1)
  /\ UNCHANGED <<req, nreplies, repliers, tables, stats>>

\* sendconfig goes on to the probe register; nreplies is not reset.
SendPMR ==
  /\ stage = "scr" /\ Waited /\ Enough
  /\ sendcommand("pmr1", req.mac)
  /\ stage' = "pmr1"
  /\ UNCHANGED <<client, tables, stats>>

\* The first reply only has to come: its code is not looked at.
FirstPMRReply ==
  /\ stage = "pmr1"
  /\ \E src \in Febs, cmd \in Codes : Received(src, cmd)
  /\ stage' = "pmr"
  /\ UNCHANGED <<client, tables, stats>>

NoPMRReply ==
  /\ stage = "pmr1" /\ TimedOut
  /\ Answer(0)
  /\ UNCHANGED <<req, nreplies, repliers, tables, stats>>

\* FEB_configured counts configurations, in a byte.
Incremented(n) == (n + 1) % WIDTH

ConfigDone ==
  /\ stage = "pmr" /\ TimedOut /\ Enough
  /\ FEB_configured' = [FEB_configured EXCEPT ![req.mac] = Incremented(req.prev)]
  /\ Answer(1)
  /\ UNCHANGED <<req, nreplies, repliers, macs, FEB_daqon,
                 FEB_biason, bufSCR, bufPMR, GLOB_daqon, stats>>

\* The reply is sent to the client, and the main loop starts again.
Reply ==
  /\ stage = "answer"
  /\ stage' = "top"
  /\ req' = NoRequest /\ rv' = 0 /\ nreplies' = 0 /\ repliers' = {}
  /\ UNCHANGED <<tables, stats, wire>>

-----------------------------------------------------------------------------
(* No request: the rate of every client is asked for (sendstats; sendstats2 *)
(* does the same once more).                                                *)

\* nreplies counts the boards asked.
AskRate ==
  /\ stage \in {"request", "rate"} /\ nreplies < nclients
  /\ sendcommand("rate", macs[nreplies + 1])
  /\ nreplies' = nreplies + 1
  /\ stage' = "rated"
  /\ stats' = NoStats
  /\ UNCHANGED <<req, rv, repliers, tables>>

\* One packet is awaited.  Without one, the rate is that of some packet
\* received earlier.
ReadRate ==
  /\ stage = "rated"
  /\ \/ \E src \in Febs, cmd \in Codes :
          /\ Received(src, cmd)
          /\ stats' = [mac |-> macs[nreplies], connected |-> TRUE, from |-> src]
     \/ /\ TimedOut
        /\ \E src \in Macs :
             stats' = [mac |-> macs[nreplies], connected |-> FALSE, from |-> src]
  /\ stage' = "rate"
  /\ UNCHANGED <<client, tables>>

StatsDone ==
  /\ stage \in {"request", "rate"} /\ nreplies = nclients
  /\ stage' = "top" /\ nreplies' = 0 /\ stats' = NoStats
  /\ UNCHANGED <<req, rv, repliers, tables, wire>>

-----------------------------------------------------------------------------
Next ==
  \/ pingNotAllowed \/ pingclients \/ PingReply \/ PingDone
  \/ Refuse \/ stopDAQ \/ startDAQ \/ biasON \/ biasOFF \/ configu
  \/ CountReply \/ WrongReply \/ TooFew
  \/ StartDAQGoesOn \/ StartDAQDone \/ BiasDone
  \/ SendPMR \/ FirstPMRReply \/ NoPMRReply \/ ConfigDone \/ Reply
  \/ AskRate \/ ReadRate \/ StatsDone

Spec == Init /\ [][Next]_vars

\* The main loop runs as long as the driver does.
LiveSpec == Spec /\ WF_vars(Next)

-----------------------------------------------------------------------------
(* Properties.                                                              *)

\* Every variable has its type; FEB_configured fits a byte.
TypeOK ==
  /\ stage \in Loops \cup {"top", "ping", "request", "answer", "pmr1", "rate", "rated"}
  /\ req \in [cmd : Requests \cup {"none"}, mac : Macs, prev : 0 .. WIDTH - 1]
  /\ rv \in {0, 1} /\ nreplies \in Nat /\ repliers \subseteq Febs
  /\ macs \in Seq(Febs)
  /\ FEB_daqon \subseteq Febs /\ FEB_biason \subseteq Febs
  /\ FEB_configured \in [Febs -> 0 .. WIDTH - 1]
  /\ bufSCR \in [Febs -> Configs \cup {"zeroes"}]
  /\ bufPMR \in [Febs -> Configs \cup {"zeroes"}]
  /\ GLOB_daqon \in BOOLEAN
  /\ stats \in [mac : Macs, connected : BOOLEAN, from : Macs]
  /\ link \in [Replies -> 0 .. MaxCopies]
  /\ board \in [Febs -> [enabled : BOOLEAN, hv : BOOLEAN,
                         scr : Configs \cup {"zeroes", "none"},
                         pmr : Configs \cup {"zeroes", "none"}]]

\* No board is twice in the list of clients: the replies that an interrupted
\* command left behind are not taken for replies to the ping.
ClientsDistinct == Cardinality(Clients) = nclients

\* The boards a request was meant for.
Targets == IF req.mac = Broadcast THEN Clients ELSE {req.mac}
Served(cmd) == stage = "answer" /\ req.cmd = cmd /\ rv = 1

\* When only clients replied, a DAQ_BEG answered with OK has enabled every
\* board it was meant for, though each of its three commands and each of their
\* replies may be lost, and the driver only counts.
DaqBegun ==
  Served("DAQ_BEG") /\ repliers \subseteq Clients =>
    \A f \in Targets : board[f].enabled /\ f \in FEB_daqon

\* Likewise an OK to BIAS_ON or BIAS_OF means that the bias of every board it
\* was meant for is switched, and shown so.
BiasSwitched ==
  repliers \subseteq Clients =>
    /\ Served("BIAS_ON") => \A f \in Targets : board[f].hv /\ f \in FEB_biason
    /\ Served("BIAS_OF") => \A f \in Targets : ~board[f].hv /\ f \notin FEB_biason

\* An OK to SETCONF means that the board has the slow control register it was
\* sent, not that of an earlier request that failed half way.
SlowControlSet == Served("SETCONF") => board[req.mac].scr = bufSCR[req.mac]

\* The rate shown for a connected board is its own, whatever an interrupted
\* request left to be received.
RateIsOwn == stats.connected => stats.from = stats.mac

\* Every request is answered: no loop over replies goes on for ever, however
\* many are lost.
RequestAnswered == req.cmd # "none" ~> stage = "top"
=============================================================================
