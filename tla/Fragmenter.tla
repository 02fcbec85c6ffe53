------------------------------- MODULE Fragmenter -------------------------------
(***************************************************************************)
(* Time windows and fragments of a ZMQ board reader (FillFragment of       *)
(* BernZMQ_GeneratorBase).                                                 *)
(*                                                                         *)
(* A board's clock is set to 0 by the GPS pulse that begins a second and   *)
(* counts up to WRAP.  An event recorded at a pulse, the reference, tells  *)
(* the reader how fast the clock was.  The reader divides the seconds      *)
(* between two references into windows of SequenceTimeWindowSize and makes *)
(* one fragment of the events of each; boards are put together later by    *)
(* the sequence id of the window.  Which second it was is told by the      *)
(* times of the computer stored beside the reference.                      *)
(*                                                                         *)
(* Module FEBBuffers has the buffers the events come from and the thread   *)
(* that fills them; here the events up to a reference are given at once.   *)
(* One board is followed.                                                  *)
(***************************************************************************)
EXTENDS Integers, Sequences, FiniteSets, SequencesExt

CONSTANTS
  SEC,            \* ticks of a second                  (10^9 ns)
  MSEC,           \* ticks of a millisecond             (10^6 ns)
  WRAP,           \* ticks after which a clock wraps    (0x40000000 ns)
  WindowSizes,    \* what SequenceTimeWindowSize may be
  MaxDrift,       \* bound: ticks a clock gains or loses in a second
  MaxEvents,      \* bound: events before a reference
  MaxReferences   \* bound: references

ASSUME TicksAssumption ==
  /\ MSEC \in Nat \ {0} /\ SEC \in Nat \ {0} /\ SEC % MSEC = 0
  /\ MaxDrift \in Nat /\ MaxDrift < SEC
  /\ WRAP \in Nat /\ SEC + MaxDrift < WRAP
\* Initialize refuses windows of less than a millisecond.
ASSUME WindowSizesAssumption == WindowSizes \subseteq MSEC .. SEC
ASSUME BoundsAssumption == MaxEvents \in Nat /\ MaxReferences \in Nat

VARIABLES
  pc,               \* where FillFragment is
  pulse,            \* second of the last reference
  references,       \* how many there were
  SequenceTimeWindowSize,
  SeqIDMinimumSec,
  events,           \* ticks of the board from the last reference to each event
  correctedtimebuffer,
  seconds,          \* seconds between the two references
  poll,             \* seconds of the times stored beside the reference
  frag_begin, frag_end,  \* the window
  i_b, i_e,         \* events used by the windows before it, and by it
  frags,            \* fragments made up to this reference
  last              \* history: end and id of the last fragment up to the one before

input == <<pulse, references, events, correctedtimebuffer, seconds, poll>>
fragvars == <<pc, input, SequenceTimeWindowSize, SeqIDMinimumSec, frag_begin,
              frag_end, i_b, i_e, frags, last>>

Moment(s, ns) == [s |-> s, ns |-> ns]
START == 20  \* some second after the tenth
None == [end |-> Moment(0, 0), seq_id |-> -1]

FragInit ==
  /\ pc = "search"
  /\ pulse = START /\ references = 0
  /\ SequenceTimeWindowSize \in WindowSizes
  /\ SeqIDMinimumSec = 0
  /\ events = <<>> /\ correctedtimebuffer = <<>>
  /\ seconds = 0 /\ poll = [first |-> 0, second |-> 0]
  /\ frag_begin = Moment(0, 0) /\ frag_end = Moment(0, 0)
  /\ i_b = 0 /\ i_e = 0 /\ frags = <<>>
  /\ last = None

-----------------------------------------------------------------------------
(* The events, and their times.                                             *)

\* A pulse may be missed.  The clock of a board is a little fast or slow.
Ticks(n) == n * SEC - MaxDrift .. n * SEC + MaxDrift
Ascending(k, times) ==
  {s \in [1 .. k -> times] : \A i \in 1 .. k - 1 : s[i] < s[i + 1]}
EventsUpTo(n) ==
  UNION {{Append(s, r) : s \in Ascending(k, 1 .. n * SEC - MaxDrift - 1), r \in Ticks(n)} :
         k \in 0 .. MaxEvents}

\* What the board reports.
Time(t) == t % WRAP
IsOverflow(t) == t >= WRAP

\* The search counts a wrap when the time goes back, but not at the reference.
Wraparounds(evts, i) ==
  Cardinality({j \in 2 .. i : /\ j < Len(evts)
                              /\ Time(evts[j]) < Time(evts[j - 1])
                              /\ IsOverflow(evts[j])})
Corrected(evts) == [i \in DOMAIN evts |-> Time(evts[i]) + WRAP * Wraparounds(evts, i)]

\* How much time passed, to the nearest second; its difference from the clock.
elapsed_secs(time) == time \div SEC + (IF 2 * (time % SEC) > SEC THEN 1 ELSE 0)
time_correction == LET time == Last(correctedtimebuffer) IN
                     elapsed_secs(time) * SEC - time

\* The second the windows begin with.  The reference was read in a poll of the
\* board that contains the pulse, or in the next one.  Mutant: no difference.
FirstSecond_Stored(p, elapsed) == p.first
FirstSecond(p, elapsed) == IF p.second - p.first = elapsed - 1 THEN p.first - 1 ELSE p.first

first_time_sec == FirstSecond(poll, elapsed_secs(Last(correctedtimebuffer)))

-----------------------------------------------------------------------------
(* FillFragment.                                                            *)

\* The poll has these times in the usual case, and the search has counted right.
Usual == /\ elapsed_secs(Last(correctedtimebuffer)) = seconds
         /\ poll.second - poll.first = 1 \/ (poll.first = poll.second /\ seconds = 1)

\* Mutant: every reference begins the count anew.
Minimum_Always(s) == s - 10
Minimum(s) == IF SeqIDMinimumSec = 0 THEN s - 10 ELSE SeqIDMinimumSec

\* There is no reference yet.
NoReference == pc = "search" /\ UNCHANGED fragvars

\* There is one.  The polls last less than a second; messages may have been lost
\* before it, and then the first time is older.
Search ==
  /\ pc = "search" /\ references < MaxReferences
  /\ references' = references + 1
  /\ \E n \in {1, 2}, late \in 0 .. 2 :
       /\ seconds' = n /\ pulse' = pulse + n
       /\ events' \in EventsUpTo(n)
       /\ poll' = [first |-> pulse + n - late, second |-> pulse + n]
  /\ correctedtimebuffer' = Corrected(events')
  /\ frag_begin' = Moment(first_time_sec', 0)
  /\ frag_end' = Moment(first_time_sec', SequenceTimeWindowSize)
  /\ SeqIDMinimumSec' = Minimum(first_time_sec')
  /\ pc' = "windows"
  /\ UNCHANGED <<SequenceTimeWindowSize, i_b, i_e, frags, last>>

\* The loop over the windows looks at the end of a window before the carry.
Carry(t) == IF t.ns >= SEC THEN Moment(t.s + 1, t.ns % SEC) ELSE t

OpenWindow ==
  /\ pc = "windows" /\ frag_end.s < poll.second
  /\ frag_begin' = Carry(frag_begin) /\ frag_end' = Carry(frag_end)
  /\ pc' = "events"
  /\ UNCHANGED <<input, SequenceTimeWindowSize, SeqIDMinimumSec, i_b, i_e, frags, last>>

\* The time of an event, multiplied by a factor of the clock, is compared with
\* the end of the window: time * SEC / (SEC - time_correction) > limit.  The
\* floating-point product of equal numbers may be greater.
\* Mutant: the limit forgets the seconds.
limit_Nanoseconds == frag_end.ns
limit == (frag_end.s - first_time_sec) * SEC + frag_end.ns
Excess == correctedtimebuffer[i_e + 1] * SEC - limit * (SEC - time_correction)

TakeEvent ==
  /\ pc = "events" /\ i_e < Len(events)
  /\ Excess <= 0
  /\ i_e' = i_e + 1
  /\ UNCHANGED <<pc, input, SequenceTimeWindowSize, SeqIDMinimumSec, frag_begin,
                 frag_end, i_b, frags, last>>

EndOfWindow == i_e < Len(events) =>
  Excess > 0 \/ (Excess = 0 /\ time_correction # 0)

seq_id == (frag_begin.s - SeqIDMinimumSec) * (SEC \div MSEC) + frag_begin.ns \div MSEC

CloseWindow ==
  /\ pc = "events" /\ EndOfWindow
  /\ frags' = Append(frags, [begin |-> frag_begin, end |-> frag_end,
                             seq_id |-> seq_id, from |-> i_b + 1, to |-> i_e])
  /\ i_b' = i_e
  /\ frag_begin' = [frag_begin EXCEPT !.ns = @ + SequenceTimeWindowSize]
  /\ frag_end' = [frag_end EXCEPT !.ns = @ + SequenceTimeWindowSize]
  /\ pc' = "windows"
  /\ UNCHANGED <<input, SequenceTimeWindowSize, SeqIDMinimumSec, i_e, last>>

\* The events up to the reference are erased, whether they are in a fragment or
\* not, and what is local to FillFragment is forgotten.
WindowsDone == pc = "windows" /\ frag_end.s >= poll.second

EraseFromFEBBuffer ==
  /\ WindowsDone
  /\ events' = <<>> /\ correctedtimebuffer' = <<>>
  /\ seconds' = 0 /\ poll' = [first |-> 0, second |-> 0]
  /\ frag_begin' = Moment(0, 0) /\ frag_end' = Moment(0, 0)
  /\ i_b' = 0 /\ i_e' = 0 /\ frags' = <<>>
  /\ last' = IF frags # <<>> /\ Usual
             THEN [end |-> Last(frags).end, seq_id |-> Last(frags).seq_id] ELSE None
  /\ pc' = "search"
  /\ UNCHANGED <<pulse, references, SequenceTimeWindowSize, SeqIDMinimumSec>>

-----------------------------------------------------------------------------
FragNext == NoReference \/ Search \/ OpenWindow \/ TakeEvent \/ CloseWindow \/ EraseFromFEBBuffer

FragSpec == FragInit /\ [][FragNext]_fragvars

-----------------------------------------------------------------------------
(* Properties.                                                              *)

Moments == [s : Nat, ns : 0 .. 2 * SEC]
Windows == [s : Nat, ns : 0 .. SEC - 1]

\* Every variable has its type; the nanoseconds of a window are less than a
\* second.
FragTypeOK ==
  /\ pc \in {"search", "windows", "events"}
  /\ pulse \in Nat /\ references \in Nat
  /\ SequenceTimeWindowSize \in WindowSizes /\ SeqIDMinimumSec \in Nat
  /\ events \in Seq(Nat) /\ correctedtimebuffer \in Seq(Nat)
  /\ seconds \in 0 .. 2 /\ poll \in [first : Nat, second : Nat]
  /\ frag_begin \in Moments /\ frag_end \in Moments
  /\ i_b \in 0 .. i_e /\ i_e \in 0 .. Len(events)
  /\ frags \in Seq([begin : Windows, end : Windows, seq_id : Nat, from : Nat, to : Nat])

Done == WindowsDone /\ Usual
Ticked(t) == (t.s - (pulse - seconds)) * SEC + t.ns

\* When no pulse was missed, every event before the reference is in a fragment,
\* and its time, measured between the two references, is in the fragment's window;
\* so is the reference, if its clock needs no correction.
EventsInTheirWindow == Done /\ seconds = 1 =>
  \A i \in DOMAIN events : i < Len(events) \/ time_correction = 0 =>
    \E k \in DOMAIN frags :
      /\ frags[k].from <= i /\ i <= frags[k].to
      /\ Ticked(frags[k].begin) * Last(events) <= events[i] * SEC
      /\ events[i] * SEC <= Ticked(frags[k].end) * Last(events)

\* The windows cover the seconds between two references without a gap, and the
\* windows of a reference continue those of the one before it; also after a missed
\* pulse; they end with the second if a second is a number of windows.
SecondsAdjoin == Done =>
  /\ frags # <<>>
  /\ \A k \in 1 .. Len(frags) - 1 : frags[k + 1].begin = frags[k].end
  /\ frags[1].begin = Moment(pulse - seconds, 0)
  /\ SEC % SequenceTimeWindowSize = 0 =>
       /\ Last(frags).end = Moment(pulse, 0)
       /\ last # None => last.end = frags[1].begin

\* No sequence id is used twice, and later windows have greater ones.
SequenceIdsIncrease ==
  /\ \A k \in 1 .. Len(frags) - 1 : frags[k].seq_id < frags[k + 1].seq_id
  /\ Done => last.seq_id < frags[1].seq_id
=============================================================================
