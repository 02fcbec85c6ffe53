--------------------------- MODULE DriverStatusProofs ---------------------------
(***************************************************************************)
(* Proofs about DriverStatus, for any set of boards: what the published    *)
(* status says, and whose version is published with a board.               *)
(***************************************************************************)
EXTENDS DriverStatus, FiniteSetTheorems, TLAPS

States == {"OK", "INITERR", "RECVERROR", "SENDERROR", "BUFOVERRUN"}

-----------------------------------------------------------------------------
(* The status.                                                              *)

LinkUp == "link" \in sockets

\* What the last client of the list has left behind when it was asked.
AfterLast == IF nclients > 0 /\ LinkUp /\ ~lastReplied THEN "RECVERROR" ELSE "OK"

\* The main loop sets the state to OK before a request, and only a request or a
\* board that is polled changes it; with no clients neither does.
StatusInv ==
  /\ macs \in Seq(Febs) /\ f \in Nat \ {0} /\ up \subseteq Febs
  /\ lastReplied \in BOOLEAN
  /\ dpc = "request" => driver_state = "OK"
  /\ dpc \in {"polldata", "sendstats"} /\ nclients = 0 => driver_state = "OK"
  /\ dpc = "sendstats" /\ f > 1 => driver_state = AfterLast
  /\ PublishedStatus

LEMMA OrdersAreLists ==
  ASSUME NEW S \in SUBSET Febs, NEW replies \in Orders(S)
  PROVE  /\ replies \in Seq(Febs) /\ Len(replies) = Cardinality(S) /\ Cardinality(S) \in Nat
         /\ \A b : Contains(replies, b) <=> b \in S
         /\ \A m, n \in 1 .. Len(replies) : replies[m] = replies[n] => m = n
  <1>1. Cardinality(S) \in Nat
    BY FebsAssumption, FS_Subset, FS_CardinalityType
  <1>2. replies \in [1 .. Cardinality(S) -> S] /\ ToSet(replies) = S
    BY DEF Orders
  <1>3. replies \in Seq(Febs) /\ Len(replies) = Cardinality(S)
    BY <1>1, <1>2
  <1>4. \A b : Contains(replies, b) <=> b \in S
    BY <1>1, <1>2, <1>3 DEF Contains, ToSet
  <1>5. \A m, n \in 1 .. Len(replies) : replies[m] = replies[n] => m = n
    <2>1. replies \in Surjection(1 .. Cardinality(S), S)
      BY <1>1, <1>2 DEF Surjection, ToSet
    <2>2. IsFiniteSet(1 .. Cardinality(S)) /\ Cardinality(1 .. Cardinality(S)) = Cardinality(S)
      BY <1>1, FS_Interval
    <2>3. replies \in Injection(1 .. Cardinality(S), S)
      BY <2>1, <2>2, FS_SurjSameCardinalityImpliesInj
    <2> QED
      BY <1>3, <2>3 DEF Injection, IsInjective
  <1> QED
    BY <1>1, <1>3, <1>4, <1>5

LEMMA StatusInit == Init => StatusInv
  BY DEF Init, StatusInv, PublishedStatus, nclients

LEMMA StatusNext == StatusInv /\ [Next]_vars => StatusInv'
  <1> SUFFICES ASSUME StatusInv, [Next]_vars PROVE StatusInv'
    OBVIOUS
  <1> USE DEF StatusInv, PublishedStatus, AfterLast, LinkUp, nclients
  <1>1. CASE Open \/ OpenFails
    BY <1>1 DEF Open, OpenFails, clients, history
  <1>2. CASE pingclients
    <2>1. macs' \in Seq(Febs)
      <3>1. CASE GLOB_daqon
        BY <1>2, <3>1 DEF pingclients, clients
      <3>2. CASE ~GLOB_daqon
        <4>1. PICK S \in SUBSET Febs : macs' \in Orders(S)
          BY <1>2, <3>2 DEF pingclients, Listed
        <4> QED
          BY <4>1, OrdersAreLists
      <3> QED
        BY <3>1, <3>2
    <2>2. /\ dpc' = "request" /\ driver_state' = "OK"
          /\ f' = f /\ lastReplied' = lastReplied /\ up' = up
      BY <1>2 DEF pingclients
    <2> QED
      BY <2>1, <2>2
  <1>3. CASE Request \/ NoRequest
    BY <1>3 DEF Request, NoRequest, clients, history
  <1>4. CASE polldata \/ polldataEnds
    BY <1>4 DEF polldata, polldataEnds, clients, history
  <1>5. CASE sendstats
    <2>1. PICK replied \in BOOLEAN :
            driver_state' = AfterReply(replied) /\ lastReplied' = replied
      BY <1>5 DEF sendstats, Replies
    <2>2. /\ dpc = "sendstats" /\ f <= nclients /\ f' = f + 1
          /\ UNCHANGED <<dpc, sockets, macs, up>>
      BY <1>5 DEF sendstats, clients
    <2>3. nclients > 0
      BY <2>2
    <2>4. driver_state' = AfterLast'
      BY <2>1, <2>2, <2>3 DEF AfterReply
    <2>5. ~(nclients' = 0) /\ dpc' = "sendstats"
      BY <2>2, <2>3
    <2> QED
      BY <2>1, <2>2, <2>4, <2>5
  <1>6. CASE sendstats2Begins \/ sendstats2Ends
    BY <1>6 DEF sendstats2Begins, sendstats2Ends, clients, history
  <1>7. CASE sendstats2
    BY <1>7 DEF sendstats2, clients, history
  <1>8. CASE BoardChanges \/ UNCHANGED vars
    BY <1>8 DEF BoardChanges, vars, clients, history
  <1> QED
    BY <1>1, <1>2, <1>3, <1>4, <1>5, <1>6, <1>7, <1>8 DEF Next, Driver

\* The published status is about the last client only.
THEOREM StatusIsOfLastClient == Spec => []PublishedStatus
  <1>1. StatusInv => PublishedStatus
    BY DEF StatusInv
  <1> QED
    BY <1>1, StatusInit, StatusNext, PTL DEF Spec

-----------------------------------------------------------------------------
(* The versions.                                                            *)

Strings == Febs \cup {"NONE"}

PacketFebs == [mac : Febs, fwcpu : Strings, connected : BOOLEAN]

\* The boards present are those of the list, each once, and as long as the list
\* only grew at its end the version at a place is that of the board there.
VersionInv ==
  /\ macs \in Seq(Febs) /\ Len(macs) <= NFebs
  /\ \A m, n \in 1 .. Len(macs) : macs[m] = macs[n] => m = n
  /\ verstr \in [1 .. NFebs -> Strings]
  /\ \A b : Contains(macs, b) <=> b \in FEB_present
  /\ up \subseteq Febs /\ f \in Nat \ {0}
  /\ ds.febs \in Seq(PacketFebs) /\ ds = [status |-> ds.status, febs |-> ds.febs]
  /\ stable => \A n \in 1 .. Len(macs) : verstr[n] = macs[n]
  /\ VersionIsOwn

LEMMA NumberOfBoards == NFebs \in Nat
  BY FebsAssumption, FS_CardinalityType DEF NFebs

LEMMA VersionInit == Init => VersionInv
  <1> SUFFICES ASSUME Init PROVE VersionInv
    OBVIOUS
  <1>1. <<>> \in Seq(Febs) /\ <<>> \in Seq(PacketFebs)
    OBVIOUS
  <1>2. verstr \in [1 .. NFebs -> Strings]
    BY DEF Init, Strings
  <1>3. \A b : Contains(macs, b) <=> b \in FEB_present
    BY DEF Init, Contains
  <1>4. ds.febs = <<>> /\ ds = [status |-> ds.status, febs |-> ds.febs]
    BY DEF Init, NoPacket
  <1>5. dpc # "sendstats2" /\ macs = <<>> /\ up \subseteq Febs /\ f = 1
    BY DEF Init
  <1> QED
    BY <1>1, <1>2, <1>3, <1>4, <1>5, NumberOfBoards DEF VersionInv, VersionIsOwn

\* A ping that made the list anew.
LEMMA PingedVersions ==
  ASSUME VersionInv, NEW S \in SUBSET Febs, NEW replies \in Orders(S),
         macs' = replies, verstr' = [n \in 1 .. NFebs |-> Version(replies, n)],
         FEB_present' = S,
         stable' = (nclients = 0 \/ (stable /\ IsPrefix(macs, replies)))
  PROVE  /\ macs' \in Seq(Febs) /\ Len(macs') <= NFebs
         /\ \A m, n \in 1 .. Len(macs') : macs'[m] = macs'[n] => m = n
         /\ verstr' \in [1 .. NFebs -> Strings]
         /\ \A b : Contains(macs', b) <=> b \in FEB_present'
         /\ stable' => \A n \in 1 .. Len(macs') : verstr'[n] = macs'[n]
  <1> USE NumberOfBoards DEF VersionInv
  <1>1. /\ replies \in Seq(Febs) /\ Len(replies) = Cardinality(S)
        /\ \A b : Contains(replies, b) <=> b \in S
        /\ \A m, n \in 1 .. Len(replies) : replies[m] = replies[n] => m = n
    BY OrdersAreLists
  <1>2. Len(replies) <= NFebs
    BY <1>1, FebsAssumption, FS_Subset DEF NFebs
  <1>3. ASSUME NEW n \in 1 .. NFebs PROVE Version(replies, n) \in Strings
    BY <1>1 DEF Version, Strings
  <1>4. ASSUME stable', NEW n \in 1 .. Len(replies) PROVE Version(replies, n) = replies[n]
    <2> SUFFICES ASSUME replies[n] \in FEB_present PROVE verstr[n] = replies[n]
      BY DEF Version
    <2>1. PICK m \in 1 .. Len(macs) : macs[m] = replies[n]
      BY DEF Contains
    <2>2. stable /\ Len(macs) <= Len(replies) /\ SubSeq(macs, 1, Len(macs)) = SubSeq(replies, 1, Len(macs))
      <3>1. nclients = 0 \/ (stable /\ IsPrefix(macs, replies))
        BY <1>4, Zenon
      <3>2. nclients # 0
        BY <2>1 DEF nclients
      <3>3. stable /\ IsPrefix(macs, replies)
        BY <3>1, <3>2, Zenon
      <3> QED
        BY <3>3 DEF IsPrefix
    <2>3. macs[m] = replies[m]
      <3>1. SubSeq(macs, 1, Len(macs))[m] = macs[m]
        OBVIOUS
      <3>2. SubSeq(replies, 1, Len(macs))[m] = replies[m]
        BY <1>1, <2>2
      <3> QED
        BY <2>2, <3>1, <3>2
    <2>4. m = n
      <3>1. m \in 1 .. Len(replies) /\ replies[m] = replies[n]
        BY <1>1, <2>1, <2>2, <2>3
      <3> QED
        BY <1>1, <3>1, Zenon
    <2> QED
      BY <2>1, <2>2, <2>4
  <1>5. \A n \in 1 .. Len(macs') : verstr'[n] = Version(replies, n) /\ macs'[n] = replies[n]
    BY <1>1, <1>2
  <1> QED
    BY <1>1, <1>2, <1>3, <1>4, <1>5

LEMMA VersionNext == VersionInv /\ [Next]_vars => VersionInv'
  <1> SUFFICES ASSUME VersionInv, [Next]_vars PROVE VersionInv'
    OBVIOUS
  <1>1. CASE Open \/ OpenFails \/ Request \/ NoRequest \/ polldata \/ polldataEnds \/ sendstats
    <2>1. /\ dpc' # "sendstats2" /\ up' = up /\ f' \in {f, f + 1, 1} /\ ds' = ds
          /\ stable' = stable /\ UNCHANGED clients
      BY <1>1 DEF Open, OpenFails, Request, NoRequest, polldata, polldataEnds, sendstats, history
    <2> QED
      BY <2>1 DEF VersionInv, VersionIsOwn, clients
  <1>2. CASE pingclients
    <2>1. dpc' = "request" /\ up' = up /\ f' = f /\ ds' = ds
      BY <1>2 DEF pingclients
    <2>2. CASE GLOB_daqon
      <3>1. UNCHANGED <<clients, stable>>
        BY <1>2, <2>2 DEF pingclients
      <3> QED
        BY <2>1, <3>1 DEF VersionInv, VersionIsOwn, clients
    <2>3. CASE ~GLOB_daqon
      <3>1. PICK S \in SUBSET Febs : \E replies \in Orders(S) :
              /\ macs' = replies
              /\ verstr' = [n \in 1 .. NFebs |-> Version(replies, n)]
              /\ FEB_present' = S
              /\ stable' = (nclients = 0 \/ (stable /\ IsPrefix(macs, replies)))
        BY <1>2, <2>3 DEF pingclients, Listed, VersionInv
      <3>2. PICK replies \in Orders(S) :
              /\ macs' = replies
              /\ verstr' = [n \in 1 .. NFebs |-> Version(replies, n)]
              /\ FEB_present' = S
              /\ stable' = (nclients = 0 \/ (stable /\ IsPrefix(macs, replies)))
        BY <3>1
      <3>3. /\ macs' \in Seq(Febs) /\ Len(macs') <= NFebs
            /\ \A m, n \in 1 .. Len(macs') : macs'[m] = macs'[n] => m = n
            /\ verstr' \in [1 .. NFebs -> Strings]
            /\ \A b : Contains(macs', b) <=> b \in FEB_present'
            /\ stable' => \A n \in 1 .. Len(macs') : verstr'[n] = macs'[n]
        BY <3>2, PingedVersions
      <3> QED
        BY <2>1, <3>3 DEF VersionInv, VersionIsOwn
    <2> QED
      BY <2>2, <2>3
  <1>3. CASE sendstats2Begins
    <2>1. /\ ds' = [status |-> driver_state, febs |-> <<>>] /\ f' = 1 /\ up' = up
          /\ stable' = stable /\ UNCHANGED clients
      BY <1>3 DEF sendstats2Begins, history
    <2>2. ds'.febs = <<>> /\ <<>> \in Seq(PacketFebs) /\ ds' = [status |-> ds'.status, febs |-> ds'.febs]
      BY <2>1
    <2> QED
      BY <2>1, <2>2 DEF VersionInv, VersionIsOwn, clients
  <1>4. CASE sendstats2
    <2>1. PICK replied \in BOOLEAN :
            ds' = [ds EXCEPT !.febs =
                     Append(@, [mac |-> macs[f], fwcpu |-> verstr[f], connected |-> replied])]
      BY <1>4 DEF sendstats2, Replies
    <2>2. /\ dpc = "sendstats2" /\ dpc' = dpc /\ f <= nclients /\ f' = f + 1 /\ up' = up
          /\ stable' = stable /\ UNCHANGED clients
      BY <1>4 DEF sendstats2, history
    <2> DEFINE new == [mac |-> macs[f], fwcpu |-> verstr[f], connected |-> replied]
    <2>3. f \in 1 .. Len(macs) /\ f \in 1 .. NFebs
      BY <2>2, NumberOfBoards DEF VersionInv, nclients
    <2>4. new \in PacketFebs
      BY <2>3 DEF VersionInv, PacketFebs
    <2>5. /\ ds'.febs = Append(ds.febs, new) /\ ds' = [status |-> ds'.status, febs |-> ds'.febs]
          /\ ds.febs \in Seq(PacketFebs)
      BY <2>1 DEF VersionInv
    <2>6. ds'.febs \in Seq(PacketFebs)
      BY <2>4, <2>5
    <2>7. ASSUME stable, NEW n \in DOMAIN ds'.febs
          PROVE  ds'.febs[n].fwcpu = ds'.febs[n].mac
      <3> HIDE DEF new
      <3>1. CASE n \in DOMAIN ds.febs
        <4>1. ds'.febs[n] = ds.febs[n]
          BY <2>4, <2>5, <3>1
        <4> QED
          BY <2>2, <2>7, <3>1, <4>1 DEF VersionInv, VersionIsOwn
      <3>2. CASE n \notin DOMAIN ds.febs
        <4>1. ds'.febs[n] = new
          BY <2>4, <2>5, <2>7, <3>2
        <4>2. verstr[f] = macs[f]
          BY <2>3, <2>7 DEF VersionInv
        <4> QED
          BY <4>1, <4>2 DEF new
      <3> QED
        BY <3>1, <3>2
    <2> QED
      BY <2>2, <2>5, <2>6, <2>7 DEF VersionInv, VersionIsOwn, clients
  <1>5. CASE sendstats2Ends
    <2>1. ds' = NoPacket /\ f' = 1 /\ dpc' = "ping" /\ up' = up /\ stable' = stable
          /\ UNCHANGED clients
      BY <1>5 DEF sendstats2Ends, history
    <2>2. ds'.febs = <<>> /\ <<>> \in Seq(PacketFebs) /\ ds' = [status |-> ds'.status, febs |-> ds'.febs]
      BY <2>1 DEF NoPacket
    <2> QED
      BY <2>1, <2>2 DEF VersionInv, VersionIsOwn, clients
  <1>6. CASE BoardChanges \/ UNCHANGED vars
    <2>1. up' \subseteq Febs /\ UNCHANGED <<dpc, clients, f, ds, stable>>
      BY <1>6 DEF BoardChanges, vars, history, VersionInv
    <2> QED
      BY <2>1 DEF VersionInv, VersionIsOwn, clients
  <1> QED
    BY <1>1, <1>2, <1>3, <1>4, <1>5, <1>6 DEF Next, Driver

\* Boards that are switched on one after the other, and never off again while the
\* list is made anew with each ping, are published with their own versions.
THEOREM VersionsAreOwn == Spec => []VersionIsOwn
  <1>1. VersionInv => VersionIsOwn
    BY DEF VersionInv
  <1> QED
    BY <1>1, VersionInit, VersionNext, PTL DEF Spec
=============================================================================
