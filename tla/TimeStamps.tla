------------------------------ MODULE TimeStamps ------------------------------
(***************************************************************************)
(* What becomes of the time of an event: a board sends it as a Gray code   *)
(* with two bits more, the driver decodes it (GrayToBin, processL2pack),   *)
(* and so does the BernFEB reader for itself (BernFEBTimeStamp::Time).     *)
(* A reader then accepts the events of a poll up to the first one out of   *)
(* order (InsertIntoFEBBuffer), and counts the turns of the clock from one *)
(* GPS reference to the next (FillFragment).                               *)
(***************************************************************************)
EXTENDS Integers

CONSTANTS
  LOG,            \* a word has 2^LOG bits (5)
  RAW,            \* bits of a time (30)
  DRIFT,          \* what the driver adds to a time (5)
  max_time_diff,  \* MaxTimeDiffs of the board
  MaxWraps        \* bound: turns of the clock without a reference

Power[n \in Nat] == IF n = 0 THEN 1 ELSE 2 * Power[n - 1]

WORD == Power[LOG]
WRAP == Power[RAW]  \* 0x40000000

ASSUME WidthAssumption == LOG \in Nat /\ RAW \in 3 .. WORD - 2
ASSUME DriftAssumption == DRIFT \in Nat /\ DRIFT < WRAP
ASSUME BoundsAssumption == max_time_diff \in Nat /\ MaxWraps \in Nat

VARIABLES
  raw,            \* the event that was sent last: its time, as it came
  last,           \* the event that was accepted last, or NoEvent
  last_time,      \* FillFragment's: the time before, 0 behind a reference
  n_wraparounds,  \* FillFragment's: turns since the reference
  corrected       \* correctedtimebuffer of that event

timevars == <<raw, last, last_time, n_wraparounds, corrected>>

NoEvent == [time |-> -1, ref |-> FALSE, over |-> FALSE]

-----------------------------------------------------------------------------
(* Words.  A word is the set of the places of its ones.                     *)

Words == SUBSET (0 .. WORD - 1)
Times == SUBSET (0 .. RAW - 1)

ShiftedRight(n, places) == {i \in 0 .. WORD - 1 : i + places \in n}
ShiftedLeft(n, places) == {i \in 0 .. WORD - 1 : i - places \in n}
Xor(m, n) == (m \ n) \cup (n \ m)
Low(t) == t \cap {0, 1}

\* The number a word stands for.
Number(n) ==
  LET sum[k \in Nat] ==
        IF k = 0 THEN 0 ELSE sum[k - 1] + (IF k - 1 \in n THEN Power[k - 1] ELSE 0)
  IN sum[WORD]

-----------------------------------------------------------------------------
(* Decoding.                                                                *)

\* The bits of the binary number, from the highest one on.  Mutant: the bits are
\* not combined.
Binary_Pairs(n) == [i \in Nat |-> (WORD - 1 - i \in n) # (WORD - i \in n)]
Binary(n) ==
  LET b[i \in Nat] ==
        IF i = 0 THEN WORD - 1 \in n
        ELSE IF WORD - 1 - i \in n THEN ~b[i - 1] ELSE b[i - 1]
  IN b

GrayToBin(n) == LET b == Binary(n) IN {p \in 0 .. WORD - 1 : b[WORD - 1 - p]}

\* processL2pack: the lowest two bits are not part of the code.
DriverTime(t) == Number(ShiftedLeft(GrayToBin(ShiftedRight(t, 2)), 2) \cup Low(t)) + DRIFT

\* BernFEBTimeStamp::Time, for words of any length: the shifts are WORD/2, ..., 2, 1.
Folded(n) ==
  LET temp[k \in Nat] ==
        IF k = 0 THEN n
        ELSE Xor(temp[k - 1], ShiftedRight(temp[k - 1], Power[LOG - k]))
  IN temp[LOG]

Time(t) == ShiftedLeft(Folded(ShiftedRight(t, 2)), 2) \cup Low(t)

-----------------------------------------------------------------------------
(* The order of the events of a board.                                      *)

\* The loop of InsertIntoFEBBuffer: this event is accepted behind the last one.
\* Mutant: an event out of order is not dropped.
InOrder_Always(this) == TRUE
InOrder(this) ==
  IF this.time <= last.time THEN last.ref \/ this.over
  ELSE this.time - last.time <= max_time_diff

\* FillFragment: a turn of the clock is counted, unless the event is a reference.
Wraps(this) ==
  IF ~this.ref /\ this.time < last_time /\ this.over THEN n_wraparounds + 1 ELSE n_wraparounds

Corrected(this) == this.time + Wraps(this) * WRAP

Accept(this) ==
  /\ Wraps(this) <= MaxWraps
  /\ last' = this
  /\ corrected' = Corrected(this)
  /\ last_time' = IF this.ref THEN 0 ELSE this.time
  /\ n_wraparounds' = IF this.ref THEN 0 ELSE Wraps(this)

Sent(t, ref, over) == [time |-> DriverTime(t), ref |-> ref, over |-> over]

\* The first event of a poll is accepted whatever its time is.
FirstEvent(t, ref, over) ==
  /\ last = NoEvent
  /\ raw' = t /\ Accept(Sent(t, ref, over))

NextEvent(t, ref, over) ==
  /\ last # NoEvent /\ InOrder(Sent(t, ref, over))
  /\ raw' = t /\ Accept(Sent(t, ref, over))

\* The poll is over, or the rest of it is dropped.
EndOfPoll ==
  /\ last # NoEvent
  /\ last' = NoEvent
  /\ UNCHANGED <<raw, last_time, n_wraparounds, corrected>>

TimeInit ==
  /\ raw = {} /\ last = NoEvent
  /\ last_time = 0 /\ n_wraparounds = 0 /\ corrected = 0

TimeNext ==
  \/ \E t \in Times, ref, over \in BOOLEAN :
       FirstEvent(t, ref, over) \/ NextEvent(t, ref, over)
  \/ EndOfPoll

TimeSpec == TimeInit /\ [][TimeNext]_timevars

-----------------------------------------------------------------------------
(* Properties.                                                              *)

\* Driver and reader give the same time to an event, but for the driver's
\* correction of the drift, and it is the time whose Gray code the board sent.
DecodersAgree ==
  /\ DriverTime(raw) = Number(Time(raw)) + DRIFT
  /\ LET t == ShiftedRight(Time(raw), 2) IN Xor(t, ShiftedRight(t, 1)) = ShiftedRight(raw, 2)

\* The test of the order (when events come) and the count of the turns (when
\* fragments are made) fit together: within a poll the corrected times never go
\* back, unless the clock was reset by a reference or a reference is itself
\* marked as an overflow, whose turn is not counted.
CorrectedInOrder ==
  [][(last # NoEvent /\ last' # NoEvent /\ ~last.ref /\ ~(last'.ref /\ last'.over))
       => corrected' >= corrected]_timevars
=============================================================================
