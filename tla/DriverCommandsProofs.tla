-------------------------- MODULE DriverCommandsProofs --------------------------
(***************************************************************************)
(* Proofs about DriverCommands, for any set of boards and of requests: as  *)
(* long as no reply comes after the driver gave up waiting, the list of    *)
(* clients is right and an OK means what it says.                          *)
(***************************************************************************)
EXTENDS DriverCommands, FiniteSetTheorems, TLAPS

Texts == Configs \cup {"zeroes", "none"}
Boards == [enabled : BOOLEAN, hv : BOOLEAN, scr : Texts, pmr : Texts]

\* With Prompt the link never holds two equal replies.
Types ==
  /\ Prompt
  /\ req.mac \in Macs
  /\ nreplies \in Nat /\ repliers \subseteq Febs
  /\ macs \in Seq(Febs)
  /\ bufSCR \in [Febs -> Texts] /\ bufPMR \in [Febs -> Texts]
  /\ link \in [Replies -> 0 .. 1]
  /\ board \in [Febs -> Boards]

\* Replies are counted from none.
Counts ==
  /\ stage \in {"top", "ping", "request"} => nreplies = 0
  /\ stage \in {"top", "ping", "request", "rate", "rated"} => repliers = {}
  /\ stage \in {"top", "ping", "request", "rate", "rated", "pmr", "pmr1", "answer"} \cup Loops

\* A client of the list has given its reply to the ping.
Pinged ==
  /\ \A m, n \in 1 .. Len(macs) : macs[m] = macs[n] => m = n
  /\ stage = "ping" => \A n \in 1 .. Len(macs) : link[<<macs[n], "OK">>] = 0

\* Each command is sent for its request.
Command ==
  /\ stage \in {"init0", "init1", "init2"} => req.cmd = "DAQ_BEG"
  /\ stage = "hvon" => req.cmd = "BIAS_ON"
  /\ stage = "hvof" => req.cmd = "BIAS_OF"
  /\ stage \in {"scr", "pmr1", "pmr"} => req.cmd = "SETCONF" /\ req.mac \in Febs

Obeyed(f) ==
  /\ stage = "init2" => board[f].enabled
  /\ stage = "hvon" => board[f].hv
  /\ stage = "hvof" => ~board[f].hv
  /\ stage = "scr" => board[f].scr = bufSCR[f]

Shown(f) ==
  /\ stage = "init2" => f \in FEB_daqon
  /\ stage = "hvon" => f \in FEB_biason
  /\ stage = "hvof" => f \notin FEB_biason

\* The loops whose replies are all to one command.
Counting == Loops \ {"pmr"}

\* What is counted, and what can be, are replies of different boards that have
\* obeyed the command.
Confirms == stage \in Counting =>
  /\ nreplies = Cardinality(repliers)
  /\ \A f \in repliers : /\ link[<<f, Confirmed(stage)>>] = 0
                         /\ f \in To(req.mac) /\ Obeyed(f) /\ Shown(f)
  /\ \A f \in Febs : link[<<f, Confirmed(stage)>>] > 0 => f \in To(req.mac) /\ Obeyed(f)

\* The slow control register was confirmed before the probe register is sent.
Configured == stage \in {"pmr1", "pmr"} => board[req.mac].scr = bufSCR[req.mac]

\* Only the board that was asked for its rate replies.
Asked == stage = "rated" =>
  /\ nreplies \in 1 .. nclients
  /\ \A f \in Febs, c \in Codes : link[<<f, c>>] > 0 => f = macs[nreplies]

Answered == DaqBegun /\ BiasSwitched /\ SlowControlSet

Inv ==
  Types /\ Counts /\ Pinged /\ Command /\ Confirms /\ Configured /\ Asked /\ Answered /\ RateIsOwn

-----------------------------------------------------------------------------
(* The link.                                                                *)

LEMMA Effects ==
  ASSUME Types, NEW s, NEW f \in Febs, bufSCR' \in [Febs -> Texts]
  PROVE  /\ Effect(s, f) \in Boards
         /\ s = "init2" => Effect(s, f).enabled
         /\ s = "hvon" => Effect(s, f).hv
         /\ s = "hvof" => ~Effect(s, f).hv
         /\ s = "scr" => Effect(s, f).scr = bufSCR'[f]
         /\ s # "scr" => Effect(s, f).scr = board[f].scr
  <1>1. board[f] \in Boards /\ bufSCR'[f] \in Texts /\ bufPMR[f] \in Texts
    BY DEF Types
  <1>2. CASE s = "init0"
    BY <1>1, <1>2 DEF Effect, Boards
  <1>3. CASE s = "init2"
    BY <1>1, <1>3 DEF Effect, Boards
  <1>4. CASE s = "hvon"
    BY <1>1, <1>4 DEF Effect, Boards
  <1>5. CASE s = "hvof"
    BY <1>1, <1>5 DEF Effect, Boards
  <1>6. CASE s = "scr"
    BY <1>1, <1>6 DEF Effect, Boards
  <1>7. CASE s = "pmr1"
    BY <1>1, <1>7 DEF Effect, Boards
  <1>8. CASE s \notin {"init0", "init2", "hvon", "hvof", "scr", "pmr1"}
    <2>1. Effect(s, f) = board[f]
      BY <1>8 DEF Effect
    <2> QED
      BY <1>1, <1>8, <2>1
  <1> QED
    BY <1>2, <1>3, <1>4, <1>5, <1>6, <1>7, <1>8

LEMMA ConfirmedIsCode == \A s : Confirmed(s) \in Codes /\ Confirmed(s) # "ERR"
  BY DEF Confirmed, Codes

\* After a command was sent, only those it was sent to can reply, and who confirms
\* it has obeyed.
LEMMA Sent ==
  ASSUME Types, NEW s, NEW mac \in Macs, sendcommand(s, mac), bufSCR' \in [Febs -> Texts]
  PROVE  /\ link' \in [Replies -> 0 .. 1] /\ board' \in [Febs -> Boards]
         /\ \A f \in Febs, c \in Codes : link'[<<f, c>>] > 0 =>
              f \in To(mac) /\ (c = Confirmed(s) => board'[f] = Effect(s, f))
         /\ \A f \in Febs : board'[f] = board[f] \/ board'[f] = Effect(s, f)
  <1> DEFINE R(fate) == {<<f, Confirmed(s)>> : f \in {g \in To(mac) : fate[g] = "obeyed"}}
                          \cup {<<f, "ERR">> : f \in {g \in To(mac) : fate[g] = "refused"}}
  <1>1. Flushed = {Silence}
    BY DEF Types, Flushed
  <1>2. PICK fate \in [To(mac) -> Fates] :
          /\ link' = [p \in Replies |-> Silence[p] + IF p \in R(fate) THEN 1 ELSE 0]
          /\ board' = [f \in Febs |->
                         IF f \in To(mac) /\ fate[f] \in {"obeyed", "unheard"}
                         THEN Effect(s, f) ELSE board[f]]
    BY <1>1 DEF sendcommand
  <1>3. link' = [p \in Replies |-> IF p \in R(fate) THEN 1 ELSE 0]
    BY <1>2 DEF Silence
  <1>4. link' \in [Replies -> 0 .. 1]
    BY <1>3
  <1>5. board' \in [Febs -> Boards]
    BY <1>2, Effects DEF Types
  <1>6. ASSUME NEW f \in Febs, NEW c \in Codes, link'[<<f, c>>] > 0
        PROVE  f \in To(mac) /\ (c = Confirmed(s) => board'[f] = Effect(s, f))
    <2>1. <<f, c>> \in R(fate)
      BY <1>3, <1>6 DEF Replies
    <2>2. \/ f \in To(mac) /\ fate[f] = "obeyed" /\ c = Confirmed(s)
          \/ f \in To(mac) /\ c = "ERR"
      BY <2>1
    <2> QED
      BY <1>2, <2>2, ConfirmedIsCode
  <1> QED
    BY <1>2, <1>4, <1>5, <1>6

\* Receiving takes a reply away.
LEMMA Taken ==
  ASSUME Types, NEW src \in Febs, NEW cmd \in Codes, Received(src, cmd)
  PROVE  /\ link' \in [Replies -> 0 .. 1] /\ board' = board
         /\ link[<<src, cmd>>] = 1 /\ link'[<<src, cmd>>] = 0
         /\ \A p \in Replies : link'[p] <= link[p]
         /\ \A p \in Replies : p # <<src, cmd>> => link'[p] = link[p]
  BY DEF Received, Types, Replies

-----------------------------------------------------------------------------
(* Steps of a kind.                                                         *)

LEMMA NotAnswered == stage # "answer" => Answered
  BY DEF Answered, DaqBegun, BiasSwitched, SlowControlSet, Served

\* A request fails.
LEMMA Failed ==
  ASSUME Inv, stage' = "answer", rv' = 0, req'.mac \in Macs,
         UNCHANGED <<nreplies, repliers, tables, stats, board>>,
         link' \in [Replies -> 0 .. 1]
  PROVE  Inv'
  <1>1. Types'
    BY DEF Inv, Types, tables
  <1>2. Pinged'
    BY DEF Inv, Pinged, tables
  <1>3. Answered'
    BY DEF Answered, DaqBegun, BiasSwitched, SlowControlSet, Served
  <1>4. Counts' /\ Command' /\ Confirms' /\ Configured' /\ Asked'
    BY DEF Counts, Command, Confirms, Configured, Asked, Counting, Loops
  <1>5. RateIsOwn'
    BY DEF Inv, RateIsOwn
  <1> QED
    BY <1>1, <1>2, <1>3, <1>4, <1>5 DEF Inv

\* A command is sent for a request, and no reply was counted yet.
LEMMA Begun ==
  ASSUME Inv, NEW s \in {"init0", "init1", "init2", "hvon", "hvof", "scr"}, NEW mac \in Macs,
         sendcommand(s, mac), stage' = s, req'.mac = mac, nreplies' = 0, repliers' = {},
         UNCHANGED <<macs, stats>>, bufSCR' \in [Febs -> Texts], bufPMR' \in [Febs -> Texts],
         Command'
  PROVE  Inv'
  <1>1. /\ link' \in [Replies -> 0 .. 1] /\ board' \in [Febs -> Boards]
        /\ \A f \in Febs, c \in Codes : link'[<<f, c>>] > 0 =>
             f \in To(mac) /\ (c = Confirmed(s) => board'[f] = Effect(s, f))
    BY Sent DEF Inv
  <1>2. Types'
    BY <1>1 DEF Inv, Types
  <1>3. Counts'
    BY DEF Counts, Loops
  <1>4. Pinged'
    BY DEF Inv, Pinged
  <1>5. Confirms'
    <2>1. nreplies' = Cardinality(repliers')
      BY FS_EmptySet
    <2>2. ASSUME NEW f \in Febs, link'[<<f, Confirmed(s)>>] > 0
          PROVE  f \in To(mac) /\ Obeyed(f)'
      <3>1. f \in To(mac) /\ board'[f] = Effect(s, f)
        BY <1>1, <2>2, ConfirmedIsCode
      <3> QED
        BY <3>1, Effects DEF Inv, Obeyed
    <2> QED
      BY <2>1, <2>2 DEF Confirms, To
  <1>6. Configured' /\ Asked'
    BY DEF Configured, Asked
  <1>7. Answered'
    BY NotAnswered DEF Answered, DaqBegun, BiasSwitched, SlowControlSet, Served
  <1>8. RateIsOwn'
    BY DEF Inv, RateIsOwn
  <1> QED
    BY <1>2, <1>3, <1>4, <1>5, <1>6, <1>7, <1>8 DEF Inv

-----------------------------------------------------------------------------
(* The ping.                                                                *)

LEMMA InitInv == Init /\ Prompt => Inv
  <1> SUFFICES ASSUME Init, Prompt PROVE Inv
    OBVIOUS
  <1>1. Types
    <2>1. link \in [Replies -> 0 .. 1]
      BY DEF Init, Silence
    <2>2. board \in [Febs -> Boards] /\ bufSCR \in [Febs -> Texts] /\ bufPMR \in [Febs -> Texts]
      BY DEF Init, Boards, Texts
    <2>3. req.mac \in Macs
      BY DEF Init, NoRequest, Macs
    <2> QED
      BY <2>1, <2>2, <2>3 DEF Init, Types
  <1>2. Counts /\ Pinged /\ Command /\ Confirms /\ Configured /\ Asked
    BY DEF Init, Counts, Pinged, Command, Confirms, Configured, Asked, Counting, Loops
  <1>3. Answered
    BY NotAnswered DEF Init
  <1>4. RateIsOwn
    BY DEF Init, RateIsOwn, NoStats
  <1> QED
    BY <1>1, <1>2, <1>3, <1>4 DEF Inv

LEMMA PingInv == Inv /\ (pingNotAllowed \/ pingclients \/ PingReply \/ PingDone) => Inv'
  <1> SUFFICES ASSUME Inv, pingNotAllowed \/ pingclients \/ PingReply \/ PingDone PROVE Inv'
    OBVIOUS
  <1>1. /\ stage \in {"top", "ping"} /\ stage' \in {"ping", "request"}
        /\ UNCHANGED <<client, bufSCR, bufPMR, stats>>
    BY DEF pingNotAllowed, pingclients, PingReply, PingDone, tables
  <1>2. /\ link' \in [Replies -> 0 .. 1] /\ board' \in [Febs -> Boards] /\ macs' \in Seq(Febs)
        /\ Pinged'
    <2>1. CASE pingNotAllowed \/ PingDone
      <3>1. UNCHANGED <<macs, wire>> /\ stage' = "request"
        BY <2>1 DEF pingNotAllowed, PingDone, TimedOut, tables
      <3> QED
        BY <3>1 DEF Inv, Types, Pinged, wire
    <2>2. CASE pingclients
      <3>1. macs' = <<>> /\ sendcommand("ping", Broadcast) /\ Broadcast \in Macs
        BY <2>2 DEF pingclients, Macs
      <3>2. bufSCR' \in [Febs -> Texts]
        BY <1>1 DEF Inv, Types
      <3>3. link' \in [Replies -> 0 .. 1] /\ board' \in [Febs -> Boards]
        BY <3>1, <3>2, Sent DEF Inv
      <3> QED
        BY <3>1, <3>3 DEF Pinged
    <2>3. CASE PingReply
      <3>1. PICK src \in Febs, cmd \in Codes :
              /\ Received(src, cmd)
              /\ macs' = IF cmd = "OK" THEN Append(macs, src) ELSE macs
        BY <2>3 DEF PingReply
      <3>2. stage = "ping" /\ stage' = "ping"
        BY <2>3 DEF PingReply
      <3>3. /\ link' \in [Replies -> 0 .. 1] /\ board' = board
            /\ link[<<src, cmd>>] = 1 /\ link'[<<src, cmd>>] = 0
            /\ \A p \in Replies : link'[p] <= link[p]
        BY <3>1, Taken DEF Inv
      <3>4. \A n \in 1 .. Len(macs) : /\ macs[n] \in Febs /\ link[<<macs[n], "OK">>] = 0
                                      /\ <<macs[n], "OK">> \in Replies
        BY <3>2 DEF Inv, Types, Pinged, Replies, Codes
      <3>5. \A n \in 1 .. Len(macs) : link'[<<macs[n], "OK">>] = 0
        BY <3>3, <3>4 DEF Inv, Types
      <3>6. CASE cmd = "OK"
        <4>1. macs' = Append(macs, src) /\ macs \in Seq(Febs)
          BY <3>1, <3>6 DEF Inv, Types
        <4>2. /\ macs' \in Seq(Febs) /\ Len(macs') = Len(macs) + 1
              /\ macs'[Len(macs) + 1] = src
              /\ \A n \in 1 .. Len(macs) : macs'[n] = macs[n]
          BY <4>1
        <4>3. \A n \in 1 .. Len(macs) : macs[n] # src
          BY <3>3, <3>4, <3>6
        <4>4. \A m, n \in 1 .. Len(macs') : macs'[m] = macs'[n] => m = n
          BY <4>1, <4>2, <4>3 DEF Inv, Pinged
        <4>5. \A n \in 1 .. Len(macs') : link'[<<macs'[n], "OK">>] = 0
          <5> SUFFICES ASSUME NEW n \in 1 .. Len(macs') PROVE link'[<<macs'[n], "OK">>] = 0
            OBVIOUS
          <5>1. CASE n \in 1 .. Len(macs)
            BY <3>5, <4>2, <5>1
          <5>2. CASE n \notin 1 .. Len(macs)
            <6>1. n = Len(macs) + 1
              BY <4>1, <4>2, <5>2
            <6> QED
              BY <3>3, <3>6, <4>2, <6>1
          <5> QED
            BY <5>1, <5>2
        <4> QED
          BY <3>3, <4>2, <4>4, <4>5 DEF Inv, Types, Pinged
      <3>7. CASE cmd # "OK"
        BY <3>1, <3>2, <3>3, <3>5, <3>7 DEF Inv, Types, Pinged
      <3> QED
        BY <3>6, <3>7
    <2> QED
      BY <2>1, <2>2, <2>3
  <1>3. Types'
    BY <1>1, <1>2 DEF Inv, Types, client
  <1>4. Counts'
    BY <1>1 DEF Inv, Counts, client
  <1>5. Command' /\ Confirms' /\ Configured' /\ Asked'
    BY <1>1 DEF Command, Confirms, Configured, Asked, Counting, Loops
  <1>6. Answered'
    BY <1>1 DEF Answered, DaqBegun, BiasSwitched, SlowControlSet, Served
  <1>7. RateIsOwn'
    BY <1>1 DEF Inv, RateIsOwn
  <1> QED
    BY <1>2, <1>3, <1>4, <1>5, <1>6, <1>7 DEF Inv

-----------------------------------------------------------------------------
(* The requests.                                                            *)

LEMMA RequestInv == Inv /\ (Refuse \/ stopDAQ \/ startDAQ \/ biasON \/ biasOFF \/ configu) => Inv'
  <1> SUFFICES ASSUME Inv, Refuse \/ stopDAQ \/ startDAQ \/ biasON \/ biasOFF \/ configu
               PROVE  Inv'
    OBVIOUS
  <1>1. CASE Refuse
    BY <1>1, Failed DEF Refuse, Serve, tables, wire, Inv, Types
  <1>2. CASE stopDAQ
    <2>1. /\ stage' = "answer" /\ req'.cmd = "DAQ_END" /\ req'.mac \in Macs
          /\ UNCHANGED <<nreplies, repliers, macs, bufSCR, bufPMR, stats, wire>>
      BY <1>2 DEF stopDAQ, Serve
    <2>2. Types' /\ Pinged'
      BY <2>1 DEF Inv, Types, Pinged, wire
    <2>3. Counts' /\ Command' /\ Confirms' /\ Configured' /\ Asked'
      BY <2>1 DEF Counts, Command, Confirms, Configured, Asked, Counting, Loops
    <2>4. Answered'
      BY <2>1 DEF Answered, DaqBegun, BiasSwitched, SlowControlSet, Served
    <2>5. RateIsOwn'
      BY <2>1 DEF Inv, RateIsOwn
    <2> QED
      BY <2>2, <2>3, <2>4, <2>5 DEF Inv
  <1>3. ASSUME NEW cmd, NEW s, Begin(cmd, s),
               \/ cmd = "DAQ_BEG" /\ s = "init0"
               \/ cmd = "BIAS_ON" /\ s = "hvon"
               \/ cmd = "BIAS_OF" /\ s = "hvof"
        PROVE  Inv'
    <2>1. PICK mac \in Macs : /\ Serve(cmd, mac) /\ sendcommand(s, mac)
                             /\ stage' = s /\ UNCHANGED <<rv, tables, stats>>
      BY <1>3 DEF Begin
    <2>2. /\ req'.cmd = cmd /\ req'.mac = mac /\ stage = "request"
          /\ nreplies' = nreplies /\ repliers' = repliers
      BY <2>1 DEF Serve
    <2>3. nreplies' = 0 /\ repliers' = {}
      BY <2>2 DEF Inv, Counts
    <2>4. /\ bufSCR' \in [Febs -> Texts] /\ bufPMR' \in [Febs -> Texts]
          /\ UNCHANGED <<macs, stats>>
      BY <2>1 DEF Inv, Types, tables
    <2>5. Command'
      BY <1>3, <2>1, <2>2 DEF Command
    <2> QED
      BY <1>3, <2>1, <2>2, <2>3, <2>4, <2>5, Begun
  <1>4. CASE configu
    <2>1. PICK mac \in Febs, c \in Configs :
            /\ Serve("SETCONF", mac) /\ bufSCR' = [bufSCR EXCEPT ![mac] = c]
            /\ bufPMR' = [bufPMR EXCEPT ![mac] = c]
            /\ sendcommand("scr", mac) /\ stage' = "scr" /\ UNCHANGED <<macs, stats>>
      BY <1>4 DEF configu
    <2>2. /\ req'.cmd = "SETCONF" /\ req'.mac = mac /\ stage = "request"
          /\ nreplies' = nreplies /\ repliers' = repliers
      BY <2>1 DEF Serve
    <2>3. nreplies' = 0 /\ repliers' = {}
      BY <2>2 DEF Inv, Counts
    <2>4. bufSCR' \in [Febs -> Texts] /\ bufPMR' \in [Febs -> Texts] /\ mac \in Macs
      BY <2>1 DEF Inv, Types, Texts, Macs
    <2>5. Command'
      BY <2>1, <2>2 DEF Command
    <2> QED
      BY <2>1, <2>2, <2>3, <2>4, <2>5, Begun
  <1> QED
    BY <1>1, <1>2, <1>3, <1>4 DEF startDAQ, biasON, biasOFF

-----------------------------------------------------------------------------
(* The loops.                                                               *)

\* A list without repetitions is as long as the set of its boards is large.
LEMMA ClientsOnce ==
  ASSUME Inv
  PROVE  IsFiniteSet(Clients) /\ Cardinality(Clients) = nclients
  <1>1. Len(macs) \in Nat /\ DOMAIN macs = 1 .. Len(macs)
    BY DEF Inv, Types
  <1>2. macs \in Bijection(1 .. Len(macs), Clients)
    BY <1>1 DEF Inv, Types, Pinged, Clients, Bijection, Injection, Surjection, IsInjective
  <1>3. ExistsBijection(1 .. Len(macs), Clients)
    BY <1>2 DEF ExistsBijection
  <1>4. IsFiniteSet(1 .. Len(macs)) /\ Cardinality(1 .. Len(macs)) = Len(macs)
    <2>1. PICK n \in Nat : n = Len(macs)
      BY <1>1
    <2>2. IsFiniteSet(1 .. n) /\ Cardinality(1 .. n) = IF 1 > n THEN 0 ELSE n - 1 + 1
      BY FS_Interval
    <2>3. Cardinality(1 .. n) = n
      BY <2>2
    <2> QED
      BY <2>1, <2>2, <2>3
  <1> QED
    BY <1>3, <1>4, FS_Bijection DEF nclients

\* Replies counted are of different boards, so enough of them are of all clients.
LEMMA AllReplied ==
  ASSUME Inv, stage \in {"init2", "hvon", "hvof"}, Enough, repliers \subseteq Clients
  PROVE  Targets \subseteq repliers
  <1>1. nreplies = Cardinality(repliers) /\ nreplies > 0 /\ repliers \subseteq To(req.mac)
    BY DEF Inv, Confirms, Counting, Loops, Enough, Types
  <1>2. CASE req.mac = Broadcast
    <2>1. IsFiniteSet(Clients) /\ Cardinality(Clients) = nclients
      BY ClientsOnce
    <2>2. Cardinality(repliers) = Cardinality(Clients)
      BY <1>1, <1>2, <2>1 DEF Enough
    <2>3. repliers = Clients
      BY <2>1, <2>2, FS_Subset
    <2> QED
      BY <1>2, <2>3 DEF Targets
  <1>3. CASE req.mac # Broadcast
    <2>1. repliers # {}
      BY <1>1, FS_EmptySet
    <2> QED
      BY <1>1, <1>3, <2>1 DEF Targets, To
  <1> QED
    BY <1>2, <1>3

LEMMA CountInv == Inv /\ CountReply => Inv'
  <1> SUFFICES ASSUME Inv, CountReply PROVE Inv'
    OBVIOUS
  <1>1. PICK src \in Febs :
          /\ Received(src, Confirmed(stage))
          /\ nreplies' = nreplies + 1
          /\ repliers' = repliers \cup {src}
          /\ FEB_daqon' = IF stage = "init2" THEN FEB_daqon \cup {src} ELSE FEB_daqon
          /\ FEB_biason' = CASE stage = "hvon" -> FEB_biason \cup {src}
                             [] stage = "hvof" -> FEB_biason \ {src}
                             [] OTHER -> FEB_biason
    BY DEF CountReply
  <1>2. stage \in Loops /\ UNCHANGED <<stage, req, rv, macs, bufSCR, bufPMR, stats>>
    BY DEF CountReply
  <1>3. /\ link' \in [Replies -> 0 .. 1] /\ board' = board
        /\ link[<<src, Confirmed(stage)>>] = 1 /\ link'[<<src, Confirmed(stage)>>] = 0
        /\ \A p \in Replies : link'[p] <= link[p]
        /\ \A p \in Replies : p # <<src, Confirmed(stage)>> => link'[p] = link[p]
    BY <1>1, ConfirmedIsCode, Taken DEF Inv
  <1>4. Types'
    BY <1>1, <1>2, <1>3 DEF Inv, Types
  <1>5. Counts'
    BY <1>2 DEF Inv, Counts, Loops
  <1>6. Pinged'
    BY <1>2 DEF Inv, Pinged, Loops
  <1>7. Command' /\ Configured'
    BY <1>2, <1>3 DEF Inv, Command, Configured
  <1>8. Confirms'
    <2> SUFFICES ASSUME stage \in Counting PROVE Confirms'
      BY <1>2 DEF Confirms
    <2>1. /\ nreplies = Cardinality(repliers)
          /\ \A f \in repliers : /\ link[<<f, Confirmed(stage)>>] = 0
                                 /\ f \in To(req.mac) /\ Obeyed(f) /\ Shown(f)
          /\ \A f \in Febs : link[<<f, Confirmed(stage)>>] > 0 => f \in To(req.mac) /\ Obeyed(f)
      BY DEF Inv, Confirms
    <2>2. src \notin repliers /\ src \in To(req.mac) /\ Obeyed(src)
      BY <1>3, <2>1
    <2>3. nreplies' = Cardinality(repliers')
      <3>1. IsFiniteSet(repliers)
        BY FebsAssumption, FS_Subset DEF Inv, Types
      <3> QED
        BY <1>1, <2>1, <2>2, <3>1, FS_AddElement
    <2>4. \A f \in Febs : <<f, Confirmed(stage)>> \in Replies
      BY ConfirmedIsCode DEF Replies
    <2>5. \A f \in Febs : link'[<<f, Confirmed(stage)>>] > 0 => link[<<f, Confirmed(stage)>>] > 0
      BY <1>3, <2>4 DEF Inv, Types
    <2>6. \A f : Obeyed(f) => Obeyed(f)'
      BY <1>2, <1>3 DEF Obeyed
    <2>7. Shown(src)'
      BY <1>1, <1>2 DEF Shown
    <2>8. \A f \in repliers : Shown(f)'
      BY <1>1, <1>2, <2>1 DEF Shown
    <2>9. \A f \in repliers' : link'[<<f, Confirmed(stage)>>] = 0
      <3> SUFFICES ASSUME NEW f \in repliers, f # src PROVE link'[<<f, Confirmed(stage)>>] = 0
        BY <1>1, <1>3
      <3>1. f \in Febs /\ <<f, Confirmed(stage)>> # <<src, Confirmed(stage)>>
        BY DEF Inv, Types
      <3> QED
        BY <1>3, <2>1, <2>4, <3>1
    <2> QED
      BY <1>1, <1>2, <2>1, <2>2, <2>3, <2>5, <2>6, <2>7, <2>8, <2>9 DEF Confirms
  <1>9. Asked' /\ Answered'
    BY <1>2 DEF Asked, Answered, DaqBegun, BiasSwitched, SlowControlSet, Served, Loops
  <1>10. RateIsOwn'
    BY <1>2 DEF Inv, RateIsOwn
  <1> QED
    BY <1>4, <1>5, <1>6, <1>7, <1>8, <1>9, <1>10 DEF Inv

LEMMA FailedInv == Inv /\ (WrongReply \/ TooFew \/ NoPMRReply) => Inv'
  <1> SUFFICES ASSUME Inv, WrongReply \/ TooFew \/ NoPMRReply PROVE Inv'
    OBVIOUS
  <1>1. /\ stage' = "answer" /\ rv' = 0 /\ UNCHANGED <<req, nreplies, repliers, tables, stats>>
    BY DEF WrongReply, TooFew, NoPMRReply, Answer
  <1>2. link' \in [Replies -> 0 .. 1] /\ board' = board
    <2>1. CASE WrongReply
      <3>1. PICK src \in Febs, cmd \in Codes : Received(src, cmd)
        BY <2>1 DEF WrongReply
      <3> QED
        BY <3>1, Taken DEF Inv
    <2>2. CASE TooFew \/ NoPMRReply
      BY <2>2 DEF TooFew, NoPMRReply, TimedOut, wire, Inv, Types
    <2> QED
      BY <2>1, <2>2
  <1> QED
    BY <1>1, <1>2, Failed DEF Inv, Types

LEMMA StartDAQInv == Inv /\ StartDAQGoesOn => Inv'
  <1> SUFFICES ASSUME Inv, StartDAQGoesOn PROVE Inv'
    OBVIOUS
  <1>1. PICK s \in {"init1", "init2"} :
          s = NextInit(stage) /\ stage' = s /\ sendcommand(s, req.mac)
    BY DEF StartDAQGoesOn, NextInit
  <1>2. /\ stage \in {"init0", "init1"} /\ nreplies' = 0 /\ repliers' = {}
        /\ UNCHANGED <<req, macs, bufSCR, bufPMR, stats>>
    BY DEF StartDAQGoesOn, tables
  <1>3. Command'
    BY <1>1, <1>2 DEF Inv, Command
  <1>4. req.mac \in Macs /\ bufSCR' \in [Febs -> Texts] /\ bufPMR' \in [Febs -> Texts]
    BY <1>2 DEF Inv, Types
  <1> QED
    BY <1>1, <1>2, <1>3, <1>4, Begun

LEMMA DoneInv == Inv /\ (StartDAQDone \/ BiasDone \/ ConfigDone) => Inv'
  <1> SUFFICES ASSUME Inv, StartDAQDone \/ BiasDone \/ ConfigDone PROVE Inv'
    OBVIOUS
  <1>1. /\ stage \in {"init2", "hvon", "hvof", "pmr"} /\ stage' = "answer" /\ Enough
        /\ UNCHANGED <<req, nreplies, repliers, macs, FEB_daqon, FEB_biason, bufSCR, bufPMR,
                       stats, link, board>>
    BY DEF StartDAQDone, BiasDone, ConfigDone, Answer, TimedOut, tables, wire
  <1>2. Types' /\ Pinged'
    BY <1>1 DEF Inv, Types, Pinged
  <1>3. Counts' /\ Command' /\ Confirms' /\ Configured' /\ Asked'
    BY <1>1 DEF Counts, Command, Confirms, Configured, Asked, Counting, Loops
  <1>4. Targets' = Targets /\ Clients' = Clients
    BY <1>1 DEF Targets, Clients
  <1>5. ASSUME stage \in {"init2", "hvon", "hvof"}, repliers \subseteq Clients, NEW f \in Targets
        PROVE  Obeyed(f) /\ Shown(f)
    <2>1. f \in repliers
      BY <1>1, <1>5, AllReplied
    <2> QED
      BY <1>5, <2>1 DEF Inv, Confirms, Counting, Loops
  <1>6. DaqBegun'
    <2> SUFFICES ASSUME req.cmd = "DAQ_BEG", repliers \subseteq Clients, NEW f \in Targets
                 PROVE  board[f].enabled /\ f \in FEB_daqon
      BY <1>1, <1>4 DEF DaqBegun, Served
    <2>1. stage = "init2"
      BY <1>1 DEF Inv, Command
    <2> QED
      BY <1>5, <2>1 DEF Obeyed, Shown
  <1>7. BiasSwitched'
    <2>1. ASSUME req.cmd = "BIAS_ON", repliers \subseteq Clients, NEW f \in Targets
          PROVE  board[f].hv /\ f \in FEB_biason
      <3>1. stage = "hvon"
        BY <1>1, <2>1 DEF Inv, Command
      <3> QED
        BY <1>5, <2>1, <3>1 DEF Obeyed, Shown
    <2>2. ASSUME req.cmd = "BIAS_OF", repliers \subseteq Clients, NEW f \in Targets
          PROVE  ~board[f].hv /\ f \notin FEB_biason
      <3>1. stage = "hvof"
        BY <1>1, <2>2 DEF Inv, Command
      <3> QED
        BY <1>5, <2>2, <3>1 DEF Obeyed, Shown
    <2> QED
      BY <1>1, <1>4, <2>1, <2>2 DEF BiasSwitched, Served
  <1>8. SlowControlSet'
    <2> SUFFICES ASSUME req.cmd = "SETCONF" PROVE board[req.mac].scr = bufSCR[req.mac]
      BY <1>1 DEF SlowControlSet, Served
    <2>1. stage = "pmr"
      BY <1>1 DEF Inv, Command
    <2> QED
      BY <2>1 DEF Inv, Configured
  <1>9. RateIsOwn'
    BY <1>1 DEF Inv, RateIsOwn
  <1> QED
    BY <1>2, <1>3, <1>6, <1>7, <1>8, <1>9 DEF Inv, Answered

LEMMA PMRInv == Inv /\ (SendPMR \/ FirstPMRReply) => Inv'
  <1> SUFFICES ASSUME Inv, SendPMR \/ FirstPMRReply PROVE Inv'
    OBVIOUS
  <1>1. /\ stage \in {"scr", "pmr1"} /\ stage' \in {"pmr1", "pmr"}
        /\ UNCHANGED <<client, tables, stats>>
    BY DEF SendPMR, FirstPMRReply
  <1>2. req.mac \in Febs /\ req.mac \in Macs /\ bufSCR' = bufSCR /\ bufSCR' \in [Febs -> Texts]
    BY <1>1 DEF Inv, Command, Types, tables
  <1>3. /\ link' \in [Replies -> 0 .. 1] /\ board' \in [Febs -> Boards]
        /\ board'[req.mac].scr = bufSCR[req.mac]
    <2>1. CASE SendPMR
      <3>1. /\ link' \in [Replies -> 0 .. 1] /\ board' \in [Febs -> Boards]
            /\ \A f \in Febs : board'[f] = board[f] \/ board'[f] = Effect("pmr1", f)
        BY <1>2, <2>1, Sent DEF SendPMR, Inv
      <3>2. board'[req.mac].scr = board[req.mac].scr
        BY <1>2, <3>1, Effects DEF Inv
      <3>3. stage = "scr" /\ nreplies > 0
        BY <2>1 DEF SendPMR, Enough
      <3>4. nreplies = Cardinality(repliers)
        BY <3>3 DEF Inv, Confirms, Counting, Loops
      <3>5. PICK f \in repliers : TRUE
        BY <3>3, <3>4, FS_EmptySet
      <3>6. f \in To(req.mac) /\ Obeyed(f)
        BY <3>3, <3>5 DEF Inv, Confirms, Counting, Loops
      <3>7. f = req.mac
        BY <1>2, <3>6, FebsAssumption DEF To
      <3> QED
        BY <3>1, <3>2, <3>3, <3>6, <3>7 DEF Obeyed
    <2>2. CASE FirstPMRReply
      <3>1. PICK src \in Febs, cmd \in Codes : Received(src, cmd)
        BY <2>2 DEF FirstPMRReply
      <3>2. link' \in [Replies -> 0 .. 1] /\ board' = board
        BY <3>1, Taken DEF Inv
      <3>3. stage = "pmr1"
        BY <2>2 DEF FirstPMRReply
      <3> QED
        BY <3>2, <3>3 DEF Inv, Types, Configured
    <2> QED
      BY <2>1, <2>2
  <1>4. Types'
    BY <1>1, <1>3 DEF Inv, Types, client, tables
  <1>5. Counts' /\ Confirms' /\ Asked'
    BY <1>1 DEF Counts, Confirms, Asked, Counting, Loops
  <1>6. Pinged' /\ Command'
    BY <1>1 DEF Inv, Pinged, Command, client, tables
  <1>7. Configured'
    BY <1>1, <1>3 DEF Configured, client, tables
  <1>8. Answered'
    BY <1>1 DEF Answered, DaqBegun, BiasSwitched, SlowControlSet, Served
  <1>9. RateIsOwn'
    BY <1>1 DEF Inv, RateIsOwn
  <1> QED
    BY <1>4, <1>5, <1>6, <1>7, <1>8, <1>9 DEF Inv

-----------------------------------------------------------------------------
(* The answer, and the statistics.                                          *)

LEMMA RateInv == Inv /\ (Reply \/ AskRate \/ ReadRate \/ StatsDone) => Inv'
  <1> SUFFICES ASSUME Inv, Reply \/ AskRate \/ ReadRate \/ StatsDone PROVE Inv'
    OBVIOUS
  <1>1. /\ stage' \in {"top", "rate", "rated"} /\ UNCHANGED tables
        /\ stage' = "top" => nreplies' = 0
        /\ repliers' \in {repliers, {}} /\ nreplies' \in Nat
        /\ repliers' = {}
        /\ req' \in {req, NoRequest}
    BY DEF Reply, AskRate, ReadRate, StatsDone, client, Inv, Types, Counts
  <1>2. /\ link' \in [Replies -> 0 .. 1] /\ board' \in [Febs -> Boards]
        /\ Asked' /\ RateIsOwn'
    <2>1. CASE Reply \/ StatsDone
      BY <2>1 DEF Reply, StatsDone, wire, Inv, Types, Asked, RateIsOwn, NoStats
    <2>2. CASE AskRate
      <3>1. /\ sendcommand("rate", macs[nreplies + 1]) /\ nreplies < nclients
            /\ nreplies' = nreplies + 1 /\ stage' = "rated" /\ stats' = NoStats /\ macs' = macs
            /\ bufSCR' = bufSCR
        BY <2>2 DEF AskRate, tables
      <3>2. nreplies + 1 \in 1 .. Len(macs) /\ macs[nreplies + 1] \in Febs
        BY <3>1 DEF Inv, Types, nclients
      <3>3. macs[nreplies + 1] \in Macs /\ To(macs[nreplies + 1]) = {macs[nreplies + 1]}
        BY <3>2, FebsAssumption DEF Macs, To
      <3>4. /\ link' \in [Replies -> 0 .. 1] /\ board' \in [Febs -> Boards]
            /\ \A f \in Febs, c \in Codes : link'[<<f, c>>] > 0 => f \in To(macs[nreplies + 1])
        BY <3>1, <3>3, Sent DEF Inv, Types
      <3>5. Asked'
        BY <3>1, <3>2, <3>3, <3>4 DEF Asked, nclients
      <3>6. RateIsOwn'
        BY <3>1 DEF RateIsOwn, NoStats
      <3> QED
        BY <3>4, <3>5, <3>6
    <2>3. CASE ReadRate
      <3>1. stage = "rated" /\ stage' = "rate"
        BY <2>3 DEF ReadRate
      <3>2. CASE \E src \in Febs, cmd \in Codes :
                   /\ Received(src, cmd)
                   /\ stats' = [mac |-> macs[nreplies], connected |-> TRUE, from |-> src]
        <4>1. PICK src \in Febs, cmd \in Codes :
                /\ Received(src, cmd)
                /\ stats' = [mac |-> macs[nreplies], connected |-> TRUE, from |-> src]
          BY <3>2
        <4>2. /\ link' \in [Replies -> 0 .. 1] /\ board' = board /\ link[<<src, cmd>>] = 1
          BY <4>1, Taken DEF Inv
        <4>3. src = macs[nreplies]
          BY <3>1, <4>2 DEF Inv, Asked
        <4> QED
          BY <3>1, <4>1, <4>2, <4>3 DEF Inv, Types, Asked, RateIsOwn
      <3>3. CASE /\ TimedOut
                 /\ \E src \in Macs :
                      stats' = [mac |-> macs[nreplies], connected |-> FALSE, from |-> src]
        BY <3>1, <3>3 DEF TimedOut, wire, Inv, Types, Asked, RateIsOwn
      <3> QED
        BY <2>3, <3>2, <3>3 DEF ReadRate
    <2> QED
      BY <2>1, <2>2, <2>3
  <1>3. Types'
    BY <1>1, <1>2 DEF Inv, Types, tables, NoRequest, Macs
  <1>4. Counts' /\ Command' /\ Confirms' /\ Configured'
    BY <1>1 DEF Counts, Command, Confirms, Configured, Counting, Loops
  <1>5. Pinged'
    BY <1>1 DEF Inv, Pinged, tables
  <1>6. Answered'
    BY <1>1 DEF Answered, DaqBegun, BiasSwitched, SlowControlSet, Served
  <1> QED
    BY <1>2, <1>3, <1>4, <1>5, <1>6 DEF Inv

LEMMA NextInv == Inv /\ [Next]_vars => Inv'
  <1> SUFFICES ASSUME Inv, [Next]_vars PROVE Inv'
    OBVIOUS
  <1>1. CASE UNCHANGED vars
    <2>1. UNCHANGED <<stage, req, rv, nreplies, repliers, macs, FEB_daqon, FEB_biason, bufSCR,
                      bufPMR, stats, link, board>>
      BY <1>1 DEF vars, client, tables, wire
    <2>2. Types' /\ Counts' /\ Pinged' /\ Command' /\ Configured' /\ Asked'
      BY <2>1 DEF Inv, Types, Counts, Pinged, Command, Configured, Asked, nclients
    <2>3. Confirms'
      BY <2>1 DEF Inv, Confirms, Obeyed, Shown
    <2>4. Answered' /\ RateIsOwn'
      BY <2>1 DEF Inv, Answered, DaqBegun, BiasSwitched, SlowControlSet, Served, Targets, Clients,
                  RateIsOwn
    <2> QED
      BY <2>2, <2>3, <2>4 DEF Inv
  <1>2. CASE Next
    BY <1>2, PingInv, RequestInv, CountInv, FailedInv, StartDAQInv, DoneInv, PMRInv, RateInv
       DEF Next
  <1> QED
    BY <1>1, <1>2

LEMMA AlwaysInv == Spec /\ Prompt => []Inv
  BY InitInv, NextInv, PTL DEF Spec

-----------------------------------------------------------------------------
(* The theorems.                                                            *)

\* However requests were interrupted before, the ping counts every board once.
THEOREM PingCountsOnce == Spec /\ Prompt => []ClientsDistinct
  <1>1. Inv => ClientsDistinct
    BY ClientsOnce DEF ClientsDistinct
  <1> QED
    BY <1>1, AlwaysInv, PTL

\* An OK to DAQ_BEG means that all its targets were enabled, though the driver only
\* counts replies: those it counts are of different boards that have obeyed.
THEOREM DaqIsBegun == Spec /\ Prompt => []DaqBegun
  <1>1. Inv => DaqBegun
    BY DEF Inv, Answered
  <1> QED
    BY <1>1, AlwaysInv, PTL

\* The same for the bias.
THEOREM BiasIsSwitched == Spec /\ Prompt => []BiasSwitched
  <1>1. Inv => BiasSwitched
    BY DEF Inv, Answered
  <1> QED
    BY <1>1, AlwaysInv, PTL

\* An OK to SETCONF is never that to an earlier request's register.
THEOREM SlowControlIsSet == Spec /\ Prompt => []SlowControlSet
  <1>1. Inv => SlowControlSet
    BY DEF Inv, Answered
  <1> QED
    BY <1>1, AlwaysInv, PTL

\* The statistics of a connected board come from a reply of that board.
THEOREM RatesAreOwn == Spec /\ Prompt => []RateIsOwn
  <1>1. Inv => RateIsOwn
    BY DEF Inv
  <1> QED
    BY <1>1, AlwaysInv, PTL
=============================================================================
