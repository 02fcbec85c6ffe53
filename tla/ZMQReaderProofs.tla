---------------------------- MODULE ZMQReaderProofs ----------------------------
(***************************************************************************)
(* Proofs of the safety properties of two parts of the ZMQ board reader    *)
(* that share no variable.                                                 *)
(*                                                                         *)
(* WorkerThread: the invariant says, for each place of the framework       *)
(* thread, what the thread of the current run and the other one may be     *)
(* doing, and whose future is held.                                        *)
(*                                                                         *)
(* Fragmenter: the invariant follows the windows from the search to the    *)
(* reference, and then the events in them.                                 *)
(***************************************************************************)
EXTENDS WorkerThread, Fragmenter, SequenceTheorems, FiniteSetTheorems, TLAPS

-----------------------------------------------------------------------------
(* The worker thread.                                                       *)

Other == Next2(thread)
Over(t) == worker[t] \in {"return", "ended"}
Beginning == {"init", "clear", "launch", "assign"}

OtherThread ==
  IF fpc \in Beginning
  THEN Over(Other) /\ result # thread /\ (result = 0 => worker[Other] = "ended")
  ELSE worker[Other] = "ended" /\ result # Other /\ (result = 0 => worker[thread] = "ended")

ThisThread ==
  /\ fpc \in {"init", "clear", "launch"} => worker[thread] = "ended"
  /\ fpc \in {"close", "stopped"} => Over(thread)
  /\ fpc \in {"assign", "running"} =>
       (worker[thread] \in {"leave", "return", "ended"} => thread \in threw)
  /\ ~Over(thread) => socket = "open"

Flag ==
  /\ fpc \in {"assign", "running", "stop", "set"} /\ stop_running => Over(thread)
  /\ fpc = "launch" => ~stop_running
  /\ fpc \in {"wait", "close"} => stop_running

Calls ==
  /\ fpc \in {"stop", "set", "wait", "close"} => calls \in {1, 2}
  /\ fpc \in {"running", "set", "wait"} => result = thread
  /\ fpc = "stop" => result = thread \/ stop_running
  /\ fpc \in {"clear", "launch"} => socket = "open"

IInv == TypeOK /\ OtherThread /\ ThisThread /\ Flag /\ Calls

\* There are two threads.
LEMMA TwoThreads ==
  /\ \A t \in Threads : Next2(t) \in Threads /\ Next2(t) # t /\ Next2(Next2(t)) = t
  /\ \A s, t \in Threads : s = t \/ s = Next2(t)
  /\ 0 \notin Threads
BY DEF Threads, Next2

LEMMA InitInv == Init => IInv
<1> SUFFICES ASSUME Init PROVE IInv
  OBVIOUS
<1>1. TypeOK
  <2>1. 0 \in 0 .. MaxData
    BY MaxDataAssumption
  <2>2. worker \in [Threads -> {"test", "receive", "insert", "leave", "return", "ended"}]
    BY DEF Init
  <2>3. QED
    BY <2>1, <2>2 DEF Init, TypeOK, Threads
<1>2. worker[thread] = "ended" /\ worker[Other] = "ended" /\ result # Other
  BY TwoThreads DEF Init, Threads, Other, Next2
<1>3. QED
  BY <1>1, <1>2 DEF Init, IInv, OtherThread, ThisThread, Flag, Calls, Over, Beginning

\* The steps of the framework thread.
LEMMA FrameworkInv ==
  ASSUME IInv, start \/ Starting \/ stop \/ Stopping PROVE IInv'
<1> USE TwoThreads DEF IInv, OtherThread, ThisThread, Flag, Calls, Over, Beginning, Other
<1>0. thread \in Threads /\ Other \in Threads /\ Other # thread /\ worker \in [Threads -> {"test",
        "receive", "insert", "leave", "return", "ended"}]
  BY DEF TypeOK
<1>1. CASE start
  <2>1. thread' = Other /\ Other' = thread
    BY <1>0, <1>1 DEF start
  <2>2. TypeOK'
    BY <1>0, <1>1, <2>1 DEF start, TypeOK
  <2>3. QED
    BY <1>0, <1>1, <2>1, <2>2 DEF start
<1>2. CASE ConfigureStart
  BY <1>0, <1>2, MaxDataAssumption DEF ConfigureStart, GoTo, TypeOK
<1>3. CASE ClearStop
  BY <1>0, <1>3 DEF ClearStop, GoTo, TypeOK
<1>4. CASE Launch
  <2>1. worker'[thread] = "test" /\ worker'[Other] = worker[Other]
    BY <1>0, <1>4 DEF Launch, Does
  <2>2. TypeOK'
    BY <1>0, <1>4 DEF Launch, GoTo, Does, TypeOK
  <2>3. QED
    BY <1>0, <1>4, <2>1, <2>2 DEF Launch, GoTo
<1>5. CASE Assign
  <2>1. worker[Other] = "ended"
    BY <1>0, <1>5 DEF Assign, Ready, TypeOK
  <2>2. TypeOK'
    BY <1>0, <1>5 DEF Assign, GoTo, TypeOK
  <2>3. QED
    BY <1>0, <1>5, <2>1, <2>2 DEF Assign, GoTo
<1>6. CASE stop
  BY <1>0, <1>6 DEF stop, TypeOK
<1>7. CASE TestStop
  BY <1>0, <1>7 DEF TestStop, NotRunning, GoTo, TypeOK
<1>8. CASE SetStop
  BY <1>0, <1>8 DEF SetStop, GoTo, TypeOK
<1>9. CASE Join
  BY <1>0, <1>9 DEF Join, Joined, Ready, GoTo, TypeOK
<1>10. CASE ConfigureStop
  BY <1>0, <1>10, MaxDataAssumption DEF ConfigureStop, More, TypeOK
<1>11. QED
  BY <1>1, <1>2, <1>3, <1>4, <1>5, <1>6, <1>7, <1>8, <1>9, <1>10 DEF Starting, Stopping

\* The steps of a worker thread.
LEMMA RunInv ==
  ASSUME IInv, NEW t \in Threads, Run(t) PROVE IInv'
<1> USE TwoThreads DEF IInv, OtherThread, ThisThread, Flag, Calls, Over, Beginning, Other
<1>0. thread \in Threads /\ Other \in Threads /\ Other # thread /\ worker \in [Threads -> {"test",
        "receive", "insert", "leave", "return", "ended"}]
  BY DEF TypeOK
<1>1. UNCHANGED <<fpc, calls, thread, result, socket>>
  BY DEF Run, Test, GetZMQData, Insert, LastStore, Return, framework
<1>2. CASE t = Other
  <2>1. Return(t)
    BY <1>0, <1>2 DEF Run, Test, GetZMQData, Insert, LastStore
  <2>2. worker'[Other] = "ended" /\ worker'[thread] = worker[thread]
    BY <1>0, <1>2, <2>1 DEF Return, Does
  <2>3. TypeOK'
    BY <1>0, <1>1, <2>1 DEF Return, Does, TypeOK
  <2>4. QED
    BY <1>0, <1>1, <1>2, <2>1, <2>2, <2>3 DEF Return
<1>3. CASE t = thread
  <2>1. worker'[Other] = worker[Other]
    <3>1. PICK what : Does(t, what)
      BY DEF Run, Test, GetZMQData, Insert, LastStore, Return
    <3>2. QED
      BY <1>0, <1>3, <3>1 DEF Does
  <2>2. TypeOK'
    <3>1. worker' \in [Threads -> {"test", "receive", "insert", "leave", "return", "ended"}]
      BY <1>0 DEF Run, Test, GetZMQData, Insert, LastStore, Return, Does
    <3>2. stop_running' \in BOOLEAN /\ threw' \subseteq Threads
      BY DEF Run, Test, GetZMQData, Insert, LastStore, Return, TypeOK
    <3>3. data' \in 0 .. MaxData
      <4>1. CASE GetZMQData(t)
        BY <4>1, MaxDataAssumption DEF GetZMQData, TypeOK
      <4>2. CASE ~GetZMQData(t)
        BY <4>2 DEF Run, Test, Insert, LastStore, Return, TypeOK
      <4>3. QED
        BY <4>1, <4>2
    <3>4. QED
      BY <1>1, <3>1, <3>2, <3>3 DEF TypeOK
  <2>3. CASE Test(t)
    BY <1>0, <1>1, <1>3, <2>1, <2>2, <2>3 DEF Test, MustStop, Does
  <2>4. CASE GetZMQData(t)
    <3>1. \/ worker'[t] = "insert" /\ threw' = threw
          \/ worker'[t] = "leave" /\ t \in threw'
      BY <1>0, <2>4 DEF GetZMQData, Does
    <3>2. worker[t] = "receive" /\ stop_running' = stop_running
      BY <2>4 DEF GetZMQData
    <3>3. QED
      BY <1>0, <1>1, <1>3, <2>1, <2>2, <3>1, <3>2
  <2>5. CASE Insert(t)
    BY <1>0, <1>1, <1>3, <2>1, <2>2, <2>5 DEF Insert, Does
  <2>6. CASE LastStore(t)
    BY <1>0, <1>1, <1>3, <2>1, <2>2, <2>6 DEF LastStore, Does
  <2>7. CASE Return(t)
    BY <1>0, <1>1, <1>3, <2>1, <2>2, <2>7 DEF Return, Does
  <2>8. QED
    BY <2>3, <2>4, <2>5, <2>6, <2>7 DEF Run
<1>4. QED
  BY <1>0, <1>2, <1>3

LEMMA PublishInv == ASSUME IInv, Publish PROVE IInv'
BY MaxDataAssumption DEF Publish, framework, IInv, TypeOK, OtherThread, ThisThread, Flag, Calls,
     Over, Beginning, Other

\* The invariant holds in every state.
LEMMA Invariance == Spec => []IInv
<1>1. IInv /\ [Next]_vars => IInv'
  <2> SUFFICES ASSUME IInv, [Next]_vars PROVE IInv'
    OBVIOUS
  <2>1. CASE UNCHANGED vars
    BY <2>1 DEF vars, framework, IInv, TypeOK, OtherThread, ThisThread, Flag, Calls, Over,
         Beginning, Other
  <2>2. CASE Next
    BY <2>2, FrameworkInv, RunInv, PublishInv DEF Next
  <2>3. QED
    BY <2>1, <2>2
<1>2. QED
  BY <1>1, InitInv, PTL DEF Spec

\* Every variable keeps its type.
THEOREM TypeCorrect == Spec => []TypeOK
<1>1. IInv => TypeOK
  BY DEF IInv
<1>2. QED
  BY <1>1, Invariance, PTL

\* A thread is launched only after the thread before the last one has ended.
THEOREM LaunchedThreadIsFree == Spec => []ThreadIsFree
<1>1. IInv => ThreadIsFree
  BY DEF IInv, ThisThread, ThreadIsFree
<1>2. QED
  BY <1>1, Invariance, PTL

\* At most one thread calls the functor, and it is that of the current run.
THEOREM OneThreadInFunctor == Spec => []OneWorker
<1>1. IInv => OneWorker
  BY TwoThreads DEF IInv, TypeOK, OtherThread, OneWorker, Active, Over, Other
<1>2. QED
  BY <1>1, Invariance, PTL

\* No thread uses the buffers while they are made anew.
THEOREM BuffersMadeInPeace == Spec => []BuffersQuiet
<1>1. IInv => BuffersQuiet
  BY TwoThreads DEF IInv, TypeOK, OtherThread, ThisThread, BuffersQuiet, Active, Over, Other,
       Beginning
<1>2. QED
  BY <1>1, Invariance, PTL

\* The socket a thread receives from is open.
THEOREM SocketOpenInUse == Spec => []SocketInUse
<1>1. IInv => SocketInUse
  BY TwoThreads DEF IInv, TypeOK, OtherThread, ThisThread, SocketInUse, Over, Other
<1>2. QED
  BY <1>1, Invariance, PTL

\* stop() never waits on a future without a state.
THEOREM FutureUsable == Spec => []FutureHasState
<1>1. IInv => FutureHasState
  BY DEF IInv, Calls, FutureHasState
<1>2. QED
  BY <1>1, Invariance, PTL

\* What sets the flag late does not stop the next run.
THEOREM NoStartIsLost == Spec => []StartIsNotLost
<1>1. IInv => StartIsNotLost
  BY DEF IInv, ThisThread, Flag, Over, StartIsNotLost
<1>2. QED
  BY <1>1, Invariance, PTL

-----------------------------------------------------------------------------
(* Time windows and fragments.                                              *)

Later(t) == [t EXCEPT !.ns = @ + SequenceTimeWindowSize]
Begin == Carry(frag_begin)
Id(t) == (t.s - SeqIDMinimumSec) * (SEC \div MSEC) + t.ns \div MSEC

\* The second a reference belongs to, and that of the first sequence id.
Seconds ==
  /\ pulse >= START
  /\ SeqIDMinimumSec = 0 => pulse = START
  /\ SeqIDMinimumSec # 0 => SeqIDMinimumSec \in START - 12 .. START - 8
  /\ pc = "search" => seconds = 0 /\ i_b = 0 /\ i_e = 0 /\ frags = <<>>
  /\ pc # "search" => /\ SeqIDMinimumSec # 0
                      /\ poll.second = pulse /\ seconds \in {1, 2}
                      /\ first_time_sec \in Nat /\ first_time_sec >= START - 2

\* A window ends a step after it begins, whether the seconds are carried yet.
Window ==
  /\ pc = "windows" => frag_end = Later(Begin)
  /\ pc = "events" => /\ frag_begin = Begin /\ frag_end = Carry(Later(Begin))
                      /\ frag_begin.s < poll.second
  /\ pc # "search" => /\ Begin.s >= first_time_sec
                      /\ SEC % SequenceTimeWindowSize = 0 =>
                           Begin.ns % SequenceTimeWindowSize = 0

\* The fragments made are those of the windows before this one.
Made ==
  /\ \A k \in 1 .. Len(frags) :
       /\ frags[k].end = Carry(Later(frags[k].begin))
       /\ frags[k].seq_id = Id(frags[k].begin)
  /\ \A k \in 1 .. Len(frags) - 1 : frags[k + 1].begin = frags[k].end
  /\ pc # "search" /\ frags = <<>> => Begin = Moment(first_time_sec, 0)
  /\ pc # "search" /\ frags # <<>> =>
       /\ frags[1].begin = Moment(first_time_sec, 0)
       /\ frags[Len(frags)].end = Begin
       /\ frags[Len(frags)].begin.s < poll.second

\* The last fragment up to the reference before ended with that reference.
Before == last # None =>
  /\ last \in [end : Moments, seq_id : Int]
  /\ SeqIDMinimumSec # 0
  /\ last.seq_id < (pulse - seconds - SeqIDMinimumSec) * (SEC \div MSEC)
  /\ SEC % SequenceTimeWindowSize = 0 => last.end = Moment(pulse - seconds, 0)

WInv == FragTypeOK /\ Seconds /\ Window /\ Made /\ Before

\* Between two pulses a second apart the clock does not wrap, and the reference
\* comes last.
Measured == pc # "search" /\ seconds = 1 =>
  /\ correctedtimebuffer = events /\ events # <<>>
  /\ \A i \in 1 .. Len(events) - 1 : /\ events[i] < events[i + 1]
                                     /\ events[i] < events[Len(events)]

\* An event is not before the beginning, not after the end of a window.
NotBefore(i, t) == Ticked(t) * Last(events) <= events[i] * SEC
NotAfter(i, t) == events[i] * SEC <= Ticked(t) * Last(events)
InFragment(i) == \E k \in DOMAIN frags :
  /\ frags[k].from <= i /\ i <= frags[k].to
  /\ NotBefore(i, frags[k].begin) /\ NotAfter(i, frags[k].end)

\* Where the events are that were looked at.
Taken == pc # "search" /\ seconds = 1 /\ Usual =>
  /\ \A i \in 1 .. i_b : InFragment(i)
  /\ \A i \in i_b + 1 .. i_e : NotBefore(i, Begin) /\ NotAfter(i, frag_end)
  /\ i_e < Len(events) => NotBefore(i_e + 1, Begin)
  /\ pc = "windows" => /\ i_b = i_e
                       /\ frags # <<>> /\ i_e < Len(events) =>
                            ~NotAfter(i_e + 1, Begin) \/ time_correction # 0

EInv == WInv /\ Measured /\ Taken

\* Quotients and remainders.
LEMMA Division ==
  ASSUME NEW n \in Nat, NEW d \in Nat \ {0}
  PROVE  /\ n \div d \in Nat
         /\ n % d \in 0 .. d - 1
         /\ n = d * (n \div d) + (n % d)
  BY Z3

LEMMA QuotientsOrdered ==
  ASSUME NEW d \in Nat \ {0}, NEW x \in Int, NEW y \in Int,
         NEW r \in 0 .. d - 1, NEW s \in 0 .. d - 1,
         d * x + r <= d * y + s
  PROVE  x <= y
  BY Z3

LEMMA OneTimesMore ==
  ASSUME NEW d \in Int, NEW x \in Int
  PROVE  d * (x + 1) = d * x + d /\ (x + 1) * d = x * d + d /\ x * d \in Int /\ x * d = d * x
  BY Z3

LEMMA Reduced ==
  ASSUME NEW d \in Nat \ {0}, NEW n \in d .. 2 * d - 1
  PROVE  n % d = n - d
  BY Z3

\* A window that is not shorter than a millisecond ends in a later one.
LEMMA QuotientGrows ==
  ASSUME NEW d \in Nat \ {0}, NEW a \in Nat, NEW b \in Nat, b >= d
  PROVE  a \div d < (a + b) \div d
  <1>1. PICK x \in Nat, r \in 0 .. d - 1 : x = a \div d /\ a = d * x + r
    BY Division
  <1>2. PICK y \in Nat, s \in 0 .. d - 1 : y = (a + b) \div d /\ a + b = d * y + s
    BY a + b \in Nat, Division
  <1>3. d * (x + 1) = d * x + d /\ d * x \in Int /\ d * y \in Int
    BY OneTimesMore, x \in Int, y \in Int, d \in Int
  <1>4. d * (x + 1) + r <= d * y + s
    BY <1>1, <1>2, <1>3
  <1>5. x + 1 <= y
    BY <1>4, QuotientsOrdered, x + 1 \in Int, y \in Int, Zenon
  <1> QED
    BY <1>1, <1>2, <1>5

LEMMA QuotientSmall ==
  ASSUME NEW d \in Nat \ {0}, NEW k \in Nat, NEW a \in Nat, a < d * k
  PROVE  a \div d < k
  <1>1. PICK x \in Nat, r \in 0 .. d - 1 : x = a \div d /\ a = d * x + r
    BY Division
  <1>2. d * k \in Int /\ d * x \in Int
    BY OneTimesMore, x \in Int, k \in Int, d \in Int
  <1>3. CASE k <= x
    <2>1. PICK m \in Nat : m = x - k
      BY <1>3
    <2>2. d * (k + m) = d * k + d * m /\ d * m \in Nat
      BY Z3
    <2> QED
      BY <1>1, <1>2, <2>1, <2>2
  <1> QED
    BY <1>1, <1>3

LEMMA QuotientCarried ==
  ASSUME NEW d \in Nat \ {0}, NEW k \in Nat, NEW a \in Nat
  PROVE  (a + d * k) \div d = (a \div d) + k /\ d * k \in Nat
  <1>1. PICK x \in Nat, r \in 0 .. d - 1 : x = a \div d /\ a = d * x + r
    BY Division
  <1>2. d * k \in Nat /\ d * (x + k) = d * x + d * k /\ d * x \in Nat
    BY Z3
  <1>3. PICK y \in Nat, s \in 0 .. d - 1 :
          y = (a + d * k) \div d /\ a + d * k = d * y + s
    BY <1>2, a + d * k \in Nat, Division
  <1>4. d * (x + k) + r = d * y + s
    BY <1>1, <1>2, <1>3
  <1>5. d * (x + k) + r \in Int /\ d * y + s \in Int
    BY <1>1, <1>2, <1>3
  <1>6. d * (x + k) + r <= d * y + s /\ d * y + s <= d * (x + k) + r
    BY <1>4, <1>5
  <1>7. x + k <= y /\ y <= x + k
    BY <1>6, QuotientsOrdered, x + k \in Int, y \in Int, Zenon
  <1> QED
    BY <1>1, <1>2, <1>3, <1>7

\* Multiples of the length of a window.
LEMMA Multiples ==
  ASSUME NEW d \in Nat \ {0}, NEW k \in Nat
  PROVE  (d * k) % d = 0
  BY Z3

LEMMA Multiple ==
  ASSUME NEW d \in Nat \ {0}, NEW n \in Nat, n % d = 0
  PROVE  \E x \in Nat : n = d * x
  <1>1. n \div d \in Nat /\ n = d * (n \div d) + (n % d)
    BY Division
  <1>2. PICK x \in Nat : x = n \div d
    BY <1>1, Zenon
  <1>3. n = d * x + 0 /\ d * x \in Int
    BY <1>1, <1>2, OneTimesMore, d \in Int, x \in Int, Zenon
  <1> QED
    BY <1>3

LEMMA MultiplesDiffer ==
  ASSUME NEW d \in Nat \ {0}, NEW x \in Nat, NEW y \in Nat, d * y <= d * x
  PROVE  /\ d * x - d * y = d * (x - y) /\ d * x \in Nat /\ d * y \in Nat
         /\ x - y \in Nat
  BY Z3

LEMMA MultiplesApart ==
  ASSUME NEW d \in Nat \ {0}, NEW a \in Nat, a % d = 0,
         NEW b \in Nat, b <= a, b % d = 0
  PROVE  (a - b) % d = 0
  <1>1. PICK x \in Nat : a = d * x
    BY Multiple
  <1>2. PICK y \in Nat : b = d * y
    BY Multiple
  <1>3. d * y <= d * x
    BY <1>1, <1>2
  <1>4. d * x - d * y = d * (x - y) /\ x - y \in Nat
    BY <1>3, MultiplesDiffer
  <1>5. (d * (x - y)) % d = 0
    BY <1>4, Multiples
  <1> QED
    BY <1>1, <1>2, <1>4, <1>5, Zenon

LEMMA MultiplesNext ==
  ASSUME NEW d \in Nat \ {0}, NEW a \in Nat, a % d = 0
  PROVE  (a + d) % d = 0 /\ (a < d => a = 0)
  <1>1. PICK x \in Nat : a = d * x
    BY Multiple
  <1>2. d * (x + 1) = d * x + d
    BY OneTimesMore, d \in Int, x \in Int
  <1>3. (d * (x + 1)) % d = 0
    BY x + 1 \in Nat, Multiples
  <1>4. (a + d) % d = 0
    BY <1>1, <1>2, <1>3, Zenon
  <1>5. a < d => a % d = a
    BY Z3
  <1> QED
    BY <1>4, <1>5

\* Sizes.
LEMMA TickSizes ==
  /\ SEC \in Nat \ {0} /\ MSEC \in Nat \ {0} /\ MaxDrift \in Nat /\ MaxDrift < SEC
  /\ WRAP \in Nat \ {0} /\ SEC + MaxDrift < WRAP
  /\ SEC \div MSEC \in Nat /\ SEC = MSEC * (SEC \div MSEC)
  /\ \A w \in WindowSizes : w \in Nat \ {0} /\ MSEC <= w /\ w <= SEC
<1>1. SEC \in Nat \ {0} /\ MSEC \in Nat \ {0} /\ MaxDrift \in Nat /\ MaxDrift < SEC
  BY TicksAssumption
<1>2. WRAP \in Nat \ {0} /\ SEC + MaxDrift < WRAP
  BY TicksAssumption
<1>3. SEC \div MSEC \in Nat /\ SEC = MSEC * (SEC \div MSEC)
  <2>1. SEC \div MSEC \in Nat /\ SEC = MSEC * (SEC \div MSEC) + (SEC % MSEC)
    BY <1>1, Division
  <2>2. PICK x \in Nat : x = SEC \div MSEC
    BY <2>1, Zenon
  <2>3. SEC = MSEC * x + 0 /\ MSEC * x \in Int
    BY <1>1, <2>1, <2>2, OneTimesMore, MSEC \in Int, x \in Int, TicksAssumption, Zenon
  <2> QED
    BY <2>1, <2>2, <2>3
<1>4. \A w \in WindowSizes : w \in Nat \ {0} /\ MSEC <= w /\ w <= SEC
  BY <1>1, WindowSizesAssumption
<1> QED
  BY <1>1, <1>2, <1>3, <1>4

LEMMA Carried ==
  ASSUME NEW t \in Moments
  PROVE  Carry(t) \in Windows /\ (t.ns < SEC => Carry(t) = t)
<1>1. t.s \in Nat /\ t.ns \in Nat /\ t = [s |-> t.s, ns |-> t.ns]
  BY DEF Moments
<1>2. t.ns % SEC \in 0 .. SEC - 1
  BY <1>1, TickSizes, Division
<1> QED
  BY <1>1, <1>2, TickSizes DEF Carry, Moments, Windows, Moment

LEMMA NextWindow ==
  ASSUME SequenceTimeWindowSize \in WindowSizes, NEW t \in Windows
  PROVE  /\ Later(t) \in Moments /\ Carry(Later(t)) \in Windows
         /\ Carry(t) = t
         /\ Carry(Later(t)) = IF t.ns + SequenceTimeWindowSize >= SEC
                              THEN Moment(t.s + 1, t.ns + SequenceTimeWindowSize - SEC)
                              ELSE Moment(t.s, t.ns + SequenceTimeWindowSize)
<1>1. PICK w \in Nat : w = SequenceTimeWindowSize /\ w <= SEC
  BY TickSizes
<1>2. t.s \in Nat /\ t.ns \in 0 .. SEC - 1 /\ t = [s |-> t.s, ns |-> t.ns]
  BY DEF Windows
<1>3. Later(t) = Moment(t.s, t.ns + w)
  BY <1>1, <1>2 DEF Later, Moment
<1>4. Later(t) \in Moments /\ t \in Moments
  BY <1>1, <1>2, <1>3, TickSizes DEF Moments, Moment
<1>5. t.ns + w >= SEC => (t.ns + w) % SEC = t.ns + w - SEC
  BY <1>1, <1>2, TickSizes, t.ns + w >= SEC => t.ns + w \in SEC .. 2 * SEC - 1, Reduced
<1>6. Carry(Later(t)) = IF t.ns + w >= SEC THEN Moment(t.s + 1, t.ns + w - SEC)
                        ELSE Moment(t.s, t.ns + w)
  BY <1>3, <1>5 DEF Carry, Moment
<1>7. Carry(t) = t
  BY <1>2, <1>4, TickSizes, Carried
<1>8. Carry(Later(t)) \in Windows
  BY <1>4, Carried, Zenon
<1> QED
  BY <1>1, <1>4, <1>6, <1>7, <1>8, Zenon

\* Sequence ids.
LEMMA IdGrows ==
  ASSUME SequenceTimeWindowSize \in WindowSizes, SeqIDMinimumSec \in Nat, NEW t \in Windows
  PROVE  /\ Id(t) \in Int /\ Id(t) < Id(Carry(Later(t)))
         /\ Id(t) < (t.s + 1 - SeqIDMinimumSec) * (SEC \div MSEC)
         /\ t.s >= SeqIDMinimumSec => Id(t) \in Nat
<1>1. PICK w \in Nat : w = SequenceTimeWindowSize /\ MSEC <= w /\ w <= SEC
  BY TickSizes
<1>2. PICK a \in Nat : a = t.ns /\ a < SEC
  BY TickSizes DEF Windows
<1>3. PICK k \in Nat : k = SEC \div MSEC /\ SEC = MSEC * k
  BY TickSizes
<1>4. PICK x \in Int : x = t.s - SeqIDMinimumSec /\ t.s \in Nat
  BY DEF Windows
<1>5. PICK q \in Nat : q = a \div MSEC
  BY TickSizes, Division
<1>6. q < k
  BY <1>2, <1>3, <1>5, TickSizes, QuotientSmall
<1>7. x * k \in Int /\ (x + 1) * k = x * k + k
  BY OneTimesMore, x \in Int, k \in Int
<1>8. Id(t) = x * k + q
  BY <1>2, <1>3, <1>4, <1>5, Zenon DEF Id
<1>9. PICK p \in Nat : p = (a + w) \div MSEC /\ q < p
  <2>1. q < (a + w) \div MSEC
    BY <1>1, <1>5, TickSizes, QuotientGrows
  <2>2. (a + w) \div MSEC \in Nat
    BY a + w \in Nat, TickSizes, Division
  <2> QED
    BY <2>1, <2>2
<1>10. ASSUME a + w < SEC PROVE Id(t) < Id(Carry(Later(t)))
  <2>1. Carry(Later(t)) = Moment(t.s, a + w)
    BY <1>1, <1>2, <1>10, NextWindow, TickSizes
  <2>2. Carry(Later(t)).s = t.s /\ Carry(Later(t)).ns = a + w
    BY <2>1 DEF Moment
  <2>3. Id(Carry(Later(t))) = x * k + p
    BY <2>2, <1>3, <1>4, <1>9, Zenon DEF Id
  <2> QED
    BY <2>3, <1>7, <1>8, <1>9
<1>11. ASSUME a + w >= SEC PROVE Id(t) < Id(Carry(Later(t)))
  <2>1. Carry(Later(t)) = Moment(t.s + 1, a + w - SEC)
    BY <1>1, <1>2, <1>11, NextWindow, TickSizes
  <2>2. Carry(Later(t)).s - SeqIDMinimumSec = x + 1 /\ Carry(Later(t)).ns = a + w - SEC
    BY <2>1, <1>4 DEF Moment
  <2>3. PICK b \in Nat : b = a + w - SEC
    BY <1>11, TickSizes
  <2>4. (b + MSEC * k) \div MSEC = (b \div MSEC) + k
    BY TickSizes, QuotientCarried
  <2>5. PICK z \in Nat : z = b \div MSEC
    BY TickSizes, Division
  <2>6. b + MSEC * k = a + w
    BY <1>3, <2>3, TickSizes
  <2>7. p = z + k
    BY <1>9, <2>4, <2>5, <2>6, Zenon
  <2>8. Id(Carry(Later(t))) = (x + 1) * k + z
    BY <2>2, <2>3, <2>5, <1>3, Zenon DEF Id
  <2> QED
    BY <2>7, <2>8, <1>7, <1>8, <1>9
<1>12. x * k + q < (x + 1) * k /\ x * k + q \in Int
  BY <1>6, <1>7
<1>13. t.s + 1 - SeqIDMinimumSec = x + 1
  BY <1>4
<1>14. Id(t) < (t.s + 1 - SeqIDMinimumSec) * (SEC \div MSEC)
  BY <1>3, <1>8, <1>12, <1>13, Zenon
<1>15. t.s >= SeqIDMinimumSec => Id(t) \in Nat
  <2>1. x \in Nat => x * k \in Nat
    BY Z3
  <2> QED
    BY <2>1, <1>4, <1>8, <1>7
<1>16. Id(t) < Id(Carry(Later(t)))
  BY <1>10, <1>11, <1>1, TickSizes
<1>17. Id(t) \in Int
  BY <1>8, <1>12
<1> QED
  BY <1>14, <1>15, <1>16, <1>17

\* The events that may come before a reference.
LEMMA EventsFound ==
  ASSUME NEW n \in {1, 2}, NEW evts \in EventsUpTo(n)
  PROVE  /\ evts \in Seq(Nat) /\ Len(evts) \in Nat \ {0}
         /\ \A i \in 1 .. Len(evts) : evts[i] <= n * SEC + MaxDrift
         /\ \A i \in 1 .. Len(evts) - 1 : /\ evts[i] < evts[Len(evts)]
                                          /\ evts[i] < evts[i + 1]
<1>1. PICK m \in Nat : m = n * SEC - MaxDrift /\ n * SEC + MaxDrift = m + 2 * MaxDrift
  BY TickSizes
<1>2. PICK k \in 0 .. MaxEvents :
        evts \in {Append(s, r) : s \in Ascending(k, 1 .. n * SEC - MaxDrift - 1), r \in Ticks(n)}
  BY DEF EventsUpTo
<1>3. k \in Nat
  BY BoundsAssumption
<1>4. PICK s \in Ascending(k, 1 .. n * SEC - MaxDrift - 1), r \in Ticks(n) : evts = Append(s, r)
  BY <1>2
<1>5. s \in [1 .. k -> 1 .. m - 1] /\ \A i \in 1 .. k - 1 : s[i] < s[i + 1]
  BY <1>1, <1>4, Zenon DEF Ascending
<1>6. r \in Nat /\ m <= r /\ r <= n * SEC + MaxDrift
  BY <1>1, <1>4, TickSizes DEF Ticks
<1>7. s \in Seq(Nat) /\ Len(s) = k
  <2>1. s \in [1 .. k -> Nat]
    BY <1>5
  <2> QED
    BY <1>3, <2>1
<1>8. evts \in Seq(Nat) /\ Len(evts) = k + 1
  BY <1>4, <1>6, <1>7
<1>9. evts[k + 1] = r /\ \A i \in 1 .. k : evts[i] = s[i]
  BY <1>3, <1>4, <1>6, <1>7
<1>10. \A i \in 1 .. k : evts[i] \in Nat /\ evts[i] < m
  BY <1>3, <1>5, <1>9
<1>11. \A i \in 1 .. k + 1 : evts[i] <= n * SEC + MaxDrift
  BY <1>1, <1>3, <1>6, <1>9, <1>10, TickSizes
<1>12. \A i \in 1 .. k : evts[i] < evts[k + 1] /\ evts[i] < evts[i + 1]
  <2> SUFFICES ASSUME NEW i \in 1 .. k PROVE evts[i] < evts[k + 1] /\ evts[i] < evts[i + 1]
    OBVIOUS
  <2>1. evts[i] < evts[k + 1]
    BY <1>6, <1>9, <1>10
  <2>2. CASE i = k
    BY <2>1, <2>2
  <2>3. CASE i < k
    <3>1. i \in 1 .. k - 1 /\ i \in 1 .. k /\ i + 1 \in 1 .. k
      BY <1>3, <2>3
    <3> QED
      BY <2>1, <3>1, <1>5, <1>9, Zenon
  <2> QED
    BY <1>3, <2>2, <2>3
<1>13. Len(evts) - 1 = k /\ Len(evts) \in Nat \ {0}
  BY <1>3, <1>8
<1> QED
  BY <1>8, <1>11, <1>12, <1>13, Zenon

LEMMA CorrectedTimes ==
  ASSUME NEW evts \in Seq(Nat)
  PROVE  /\ Corrected(evts) \in Seq(Nat) /\ Len(Corrected(evts)) = Len(evts)
         /\ (\A i \in 1 .. Len(evts) : evts[i] < WRAP) => Corrected(evts) = evts
<1>1. DOMAIN evts = 1 .. Len(evts) /\ Len(evts) \in Nat /\ \A i \in 1 .. Len(evts) : evts[i] \in Nat
  OBVIOUS
<1>2. ASSUME NEW i \in 1 .. Len(evts)
      PROVE  Wraparounds(evts, i) \in Nat
  <2>1. IsFiniteSet(2 .. i)
    BY FS_Interval, i \in Int
  <2>2. IsFiniteSet({j \in 2 .. i : /\ j < Len(evts)
                                    /\ Time(evts[j]) < Time(evts[j - 1])
                                    /\ IsOverflow(evts[j])})
    <3>1. {j \in 2 .. i : /\ j < Len(evts)
                          /\ Time(evts[j]) < Time(evts[j - 1])
                          /\ IsOverflow(evts[j])} \subseteq 2 .. i
      OBVIOUS
    <3> QED
      BY <2>1, <3>1, FS_Subset
  <2> QED
    BY <2>2, FS_CardinalityType DEF Wraparounds
<1>3. ASSUME NEW i \in 1 .. Len(evts)
      PROVE  Time(evts[i]) + WRAP * Wraparounds(evts, i) \in Nat
  <2>1. Time(evts[i]) \in Nat
    <3>1. evts[i] % WRAP \in 0 .. WRAP - 1
      BY <1>1, TickSizes, Division
    <3> QED
      BY <3>1, TickSizes DEF Time
  <2>2. PICK w \in Nat : w = Wraparounds(evts, i)
    BY <1>2
  <2>3. WRAP * w \in Nat
    BY TickSizes, QuotientCarried, 0 \in Nat
  <2> QED
    BY <2>1, <2>2, <2>3
<1>4. Corrected(evts) \in [1 .. Len(evts) -> Nat]
  BY <1>1, <1>3 DEF Corrected
<1>5. Corrected(evts) \in Seq(Nat) /\ Len(Corrected(evts)) = Len(evts)
  BY <1>1, <1>4
<1>6. ASSUME \A i \in 1 .. Len(evts) : evts[i] < WRAP
      PROVE  Corrected(evts) = evts
  <2>1. ASSUME NEW i \in 1 .. Len(evts)
        PROVE  Time(evts[i]) + WRAP * Wraparounds(evts, i) = evts[i]
    <3>1. {j \in 2 .. i : /\ j < Len(evts)
                          /\ Time(evts[j]) < Time(evts[j - 1])
                          /\ IsOverflow(evts[j])} = {}
      BY <1>1, <1>6, TickSizes DEF IsOverflow
    <3>2. Wraparounds(evts, i) = 0
      BY <3>1, FS_EmptySet DEF Wraparounds
    <3>3. PICK v \in Nat : v = evts[i] /\ v < WRAP
      BY <1>1, <1>6
    <3>4. v % WRAP = v
      BY <3>3, TickSizes
    <3>5. WRAP * 0 = 0
      BY TickSizes
    <3> QED
      BY <3>2, <3>3, <3>4, <3>5 DEF Time
  <2>2. Corrected(evts) = [i \in 1 .. Len(evts) |-> evts[i]]
    BY <1>1, <2>1, Zenon DEF Corrected
  <2>3. evts = [i \in 1 .. Len(evts) |-> evts[i]]
    BY <1>1
  <2> QED
    BY <2>2, <2>3
<1> QED
  BY <1>5, <1>6

-----------------------------------------------------------------------------
(* The windows.                                                             *)

LEMMA Nothing == ASSUME NEW S PROVE <<>> \in Seq(S) /\ Len(<<>>) = 0
OBVIOUS

LEMMA WInvInit == FragInit => WInv
<1> SUFFICES ASSUME FragInit PROVE WInv
  OBVIOUS
<1>1. Moment(0, 0) \in Moments
  BY TickSizes DEF Moment, Moments
<1>2. FragTypeOK
  BY <1>1, Nothing DEF FragInit, FragTypeOK, START
<1>3. Seconds
  BY DEF FragInit, Seconds, START
<1>4. Window
  BY DEF FragInit, Window
<1>5. Made
  BY Nothing DEF FragInit, Made
<1>6. Before
  BY DEF FragInit, Before
<1> QED
  BY <1>2, <1>3, <1>4, <1>5, <1>6 DEF WInv

\* What the search for a reference finds.
LEMMA Found ==
  ASSUME FragTypeOK, Seconds, Search
  PROVE  /\ seconds' \in {1, 2} /\ pulse' \in pulse + 1 .. pulse + 2 /\ pulse' - seconds' = pulse
         /\ poll' \in [first : Nat, second : Nat] /\ poll'.second = pulse'
         /\ first_time_sec' \in START - 2 .. pulse'
         /\ events' \in Seq(Nat) /\ Len(events') \in Nat \ {0}
         /\ correctedtimebuffer' \in Seq(Nat)
         /\ Measured'
<1>1. PICK n \in {1, 2}, late \in 0 .. 2 :
        /\ seconds' = n /\ pulse' = pulse + n
        /\ events' \in EventsUpTo(n)
        /\ poll' = [first |-> pulse + n - late, second |-> pulse + n]
  BY DEF Search
<1>2. pulse \in Nat /\ pulse >= START /\ START = 20
  BY DEF FragTypeOK, Seconds, START
<1>3. poll' \in [first : Nat, second : Nat] /\ poll'.second = pulse'
  BY <1>1, <1>2
<1>4. first_time_sec' = poll'.first \/ first_time_sec' = poll'.first - 1
  BY DEF first_time_sec, FirstSecond
<1>5. first_time_sec' \in START - 2 .. pulse'
  BY <1>1, <1>2, <1>4
<1>6. correctedtimebuffer' = Corrected(events')
  BY DEF Search
<1>7. /\ events' \in Seq(Nat) /\ Len(events') \in Nat \ {0}
      /\ \A i \in 1 .. Len(events') : events'[i] <= n * SEC + MaxDrift
      /\ \A i \in 1 .. Len(events') - 1 : /\ events'[i] < events'[Len(events')]
                                          /\ events'[i] < events'[i + 1]
  BY <1>1, EventsFound, Zenon
<1>8. correctedtimebuffer' \in Seq(Nat)
  BY <1>6, <1>7, CorrectedTimes, Zenon
<1>9. Measured'
  <2> SUFFICES ASSUME seconds' = 1 PROVE Measured'
    BY DEF Measured
  <2>1. n = 1
    BY <1>1
  <2>2. \A i \in 1 .. Len(events') : events'[i] < WRAP
    BY <1>7, <2>1, TickSizes
  <2>3. correctedtimebuffer' = events'
    BY <1>6, <1>7, <2>2, CorrectedTimes, Zenon
  <2>4. events' # <<>>
    BY <1>7
  <2> QED
    BY <1>7, <2>3, <2>4, Zenon DEF Measured
<1> QED
  BY <1>1, <1>2, <1>3, <1>5, <1>7, <1>8, <1>9

LEMMA SearchWInv == ASSUME WInv, Search PROVE WInv'
<1>1. FragTypeOK /\ Seconds /\ Before /\ pc = "search"
  BY DEF WInv, Search
<1>2. /\ seconds' \in {1, 2} /\ pulse' \in pulse + 1 .. pulse + 2 /\ pulse' - seconds' = pulse
      /\ poll' \in [first : Nat, second : Nat] /\ poll'.second = pulse'
      /\ first_time_sec' \in START - 2 .. pulse'
      /\ events' \in Seq(Nat) /\ Len(events') \in Nat \ {0}
      /\ correctedtimebuffer' \in Seq(Nat)
  BY <1>1, Found
<1>3. /\ pc' = "windows" /\ frags' = <<>> /\ i_b' = 0 /\ i_e' = 0
      /\ references' = references + 1
      /\ SequenceTimeWindowSize' = SequenceTimeWindowSize /\ last' = last
      /\ frag_begin' = Moment(first_time_sec', 0)
      /\ frag_end' = Moment(first_time_sec', SequenceTimeWindowSize)
      /\ SeqIDMinimumSec' = Minimum(first_time_sec')
  BY <1>1 DEF Search, Seconds
<1>4. START = 20 /\ pulse >= START /\ pulse \in Nat /\ first_time_sec' \in Nat
      /\ pulse' \in Nat
  <2>1. START = 20 /\ pulse >= START /\ pulse \in Nat
    BY <1>1 DEF START, Seconds, FragTypeOK
  <2> QED
    BY <1>2, <2>1
<1>5. SeqIDMinimumSec = 0 => pulse' \in START .. START + 2
  <2>1. SeqIDMinimumSec = 0 => pulse = START
    BY <1>1, Zenon DEF Seconds
  <2> QED
    BY <1>2, <1>4, <2>1
<1>6. SeqIDMinimumSec' # 0 /\ SeqIDMinimumSec' \in START - 12 .. START - 8
  <2>1. SeqIDMinimumSec = 0 => SeqIDMinimumSec' = first_time_sec' - 10
    BY <1>3 DEF Minimum
  <2>2. SeqIDMinimumSec # 0 => SeqIDMinimumSec' = SeqIDMinimumSec
    BY <1>3 DEF Minimum
  <2>3. PICK f \in Nat : f = first_time_sec' /\ f >= START - 2 /\ f <= pulse'
    BY <1>2, <1>4
  <2>4. SeqIDMinimumSec = 0 => f - 10 \in START - 12 .. START - 8 /\ f - 10 # 0
    BY <1>4, <1>5, <2>3
  <2>5. SeqIDMinimumSec # 0 => SeqIDMinimumSec \in START - 12 .. START - 8
    BY <1>1, Zenon DEF Seconds
  <2> QED
    BY <2>1, <2>2, <2>3, <2>4, <2>5, Zenon
<1>7. SequenceTimeWindowSize \in WindowSizes /\ SequenceTimeWindowSize \in Nat \ {0}
      /\ SequenceTimeWindowSize <= SEC
  BY <1>1, TickSizes DEF FragTypeOK
<1>8. frag_begin' \in Windows /\ frag_begin' \in Moments /\ frag_end' \in Moments
  BY <1>3, <1>4, <1>7, TickSizes DEF Windows, Moments, Moment
<1>9. Begin' = Moment(first_time_sec', 0) /\ frag_end' = Later(Begin)'
  <2>1. Begin' = frag_begin'
    <3>1. Carry(frag_begin') = frag_begin'
      BY <1>7, <1>8, NextWindow
    <3> QED
      BY <3>1 DEF Begin, Carry
  <2> QED
    BY <1>3, <1>7, <2>1 DEF Later, Moment
<1>10. FragTypeOK'
  <2>1. references' \in Nat /\ SeqIDMinimumSec' \in Nat /\ seconds' \in 0 .. 2
    <3>1. SeqIDMinimumSec' \in Nat
      BY <1>4, <1>6
    <3>2. references' \in Nat
      BY <1>1, <1>3 DEF FragTypeOK
    <3> QED
      BY <1>2, <3>1, <3>2
  <2>2. i_b' \in 0 .. i_e' /\ i_e' \in 0 .. Len(events')
    BY <1>2, <1>3
  <2> QED
    BY <1>2, <1>3, <1>7, <1>8, <2>1, <2>2, Nothing DEF FragTypeOK
<1>11. Seconds'
  <2>1. pulse' >= START /\ first_time_sec' >= START - 2
    BY <1>2, <1>4
  <2> QED
    BY <1>2, <1>3, <1>4, <1>6, <2>1, Zenon DEF Seconds
<1>12. Window'
  <2>1. Begin'.s = first_time_sec' /\ Begin'.ns = 0
    BY <1>9 DEF Moment
  <2>2. 0 % SequenceTimeWindowSize = 0
    BY <1>7
  <2> QED
    BY <1>3, <1>4, <1>9, <2>1, <2>2 DEF Window
<1>13. Made'
  BY <1>3, <1>9, Nothing DEF Made
<1>14. Before'
  <2>1. last # None => SeqIDMinimumSec' = SeqIDMinimumSec
    BY <1>1, <1>3 DEF Before, Minimum
  <2>2. seconds = 0 /\ pulse' - seconds' = pulse - seconds
    <3>1. seconds = 0
      BY <1>1, Zenon DEF Seconds
    <3>2. pulse - seconds = pulse
      BY <1>4, <3>1
    <3>3. pulse' - seconds' = pulse
      BY <1>2
    <3> QED
      BY <3>1, <3>2, <3>3
  <2> QED
    BY <1>1, <1>3, <2>1, <2>2, Zenon DEF Before
<1> QED
  BY <1>10, <1>11, <1>12, <1>13, <1>14 DEF WInv

\* What the search found stays until the windows are done.
LEMMA Kept ==
  ASSUME UNCHANGED input
  PROVE  /\ first_time_sec' = first_time_sec /\ time_correction' = time_correction
         /\ (Usual' <=> Usual) /\ pulse' = pulse /\ seconds' = seconds /\ poll' = poll
         /\ events' = events /\ correctedtimebuffer' = correctedtimebuffer
         /\ references' = references
BY DEF input, first_time_sec, time_correction, Usual, FirstSecond, elapsed_secs

\* Open, take or close: the second of the reference is the same.
LEMMA SecondsKept ==
  ASSUME Seconds, UNCHANGED <<input, SeqIDMinimumSec>>, pc # "search", pc' # "search"
  PROVE  Seconds'
<1>1. first_time_sec' = first_time_sec /\ pulse' = pulse /\ seconds' = seconds /\ poll' = poll
  BY Kept
<1> QED
  BY <1>1 DEF Seconds

LEMMA BeforeKept ==
  ASSUME Before, UNCHANGED <<input, SequenceTimeWindowSize, SeqIDMinimumSec, last>>
  PROVE  Before'
<1>1. pulse' = pulse /\ seconds' = seconds
  BY Kept
<1> QED
  BY <1>1 DEF Before

LEMMA MadeKept ==
  ASSUME Made, pc # "search",
         UNCHANGED <<input, SequenceTimeWindowSize, SeqIDMinimumSec, frags>>,
         Begin' = Begin
  PROVE  Made'
<1>1. first_time_sec' = first_time_sec /\ poll' = poll
  BY Kept
<1>2. \A k \in 1 .. Len(frags') : /\ frags'[k].end = Carry(Later(frags[k].begin))'
                                  /\ frags'[k].seq_id = Id(frags[k].begin)'
  BY DEF Made, Later, Id, Carry, Moment
<1> QED
  BY <1>1, <1>2 DEF Made

LEMMA OpenWInv == ASSUME WInv, OpenWindow PROVE WInv'
<1>1. /\ pc = "windows" /\ pc' = "events" /\ frag_end.s < poll.second
      /\ frag_begin' = Begin /\ frag_end' = Carry(frag_end)
      /\ UNCHANGED <<input, SequenceTimeWindowSize, SeqIDMinimumSec, i_b, i_e, frags, last>>
  BY DEF OpenWindow, Begin
<1>2. FragTypeOK /\ Seconds /\ Window /\ Made /\ Before
  BY DEF WInv
<1>3. first_time_sec' = first_time_sec /\ poll' = poll /\ pulse' = pulse /\ seconds' = seconds
      /\ events' = events /\ correctedtimebuffer' = correctedtimebuffer
      /\ references' = references
  BY <1>1, Kept
<1>4. Begin \in Windows /\ SequenceTimeWindowSize \in WindowSizes /\ frag_end \in Moments
  BY <1>2, Carried DEF FragTypeOK, Begin
<1>5. Begin' = Begin
  <2>1. Carry(Begin) = Begin
    BY <1>4, NextWindow
  <2> QED
    BY <1>1, <2>1 DEF Begin, Carry
<1>6. frag_end = Later(Begin)
  BY <1>1, <1>2 DEF Window
<1>7. frag_end' = Carry(Later(Begin)) /\ frag_end' = Carry(Later(Begin))'
  <2>1. Carry(Later(Begin))' = Carry(Later(Begin'))
    BY <1>1 DEF Carry, Later, Moment
  <2> QED
    BY <1>1, <1>5, <1>6, <2>1
<1>8. frag_begin' \in Moments /\ frag_end' \in Moments
  <2>1. \A w \in Windows : w \in Moments
    BY TickSizes DEF Windows, Moments
  <2>2. frag_end' \in Windows
    BY <1>4, <1>7, NextWindow, Zenon
  <2> QED
    BY <1>1, <1>4, <2>1, <2>2
<1>9. FragTypeOK'
  BY <1>1, <1>2, <1>3, <1>8 DEF FragTypeOK
<1>10. Window'
  <2>1. frag_end.s = Begin.s
    BY <1>4, <1>6 DEF Later, Windows
  <2> QED
    BY <1>1, <1>2, <1>3, <1>5, <1>7, <2>1 DEF Window
<1> QED
  BY <1>1, <1>2, <1>5, <1>9, <1>10, SecondsKept, BeforeKept, MadeKept DEF WInv

LEMMA TakeWInv == ASSUME WInv, TakeEvent PROVE WInv'
<1>1. /\ pc = "events" /\ i_e < Len(events) /\ i_e' = i_e + 1
      /\ UNCHANGED <<pc, input, SequenceTimeWindowSize, SeqIDMinimumSec, frag_begin,
                     frag_end, i_b, frags, last>>
  BY DEF TakeEvent
<1>2. FragTypeOK /\ Seconds /\ Window /\ Made /\ Before
  BY DEF WInv
<1>3. first_time_sec' = first_time_sec /\ poll' = poll /\ pulse' = pulse /\ seconds' = seconds
      /\ events' = events /\ correctedtimebuffer' = correctedtimebuffer
      /\ references' = references
  BY <1>1, Kept
<1>4. Begin' = Begin
  BY <1>1 DEF Begin, Carry, Moment
<1>5. i_b' \in 0 .. i_e' /\ i_e' \in 0 .. Len(events')
  <2>1. events \in Seq(Nat) /\ i_b \in 0 .. i_e /\ i_e \in 0 .. Len(events)
    BY <1>2 DEF FragTypeOK
  <2>2. Len(events) \in Nat
    BY <2>1
  <2> QED
    BY <1>1, <1>3, <2>1, <2>2
<1>6. FragTypeOK'
  BY <1>1, <1>2, <1>3, <1>5 DEF FragTypeOK
<1>7. Window'
  BY <1>1, <1>2, <1>3, <1>4 DEF Window, Later, Carry, Moment
<1> QED
  BY <1>1, <1>2, <1>4, <1>6, <1>7, SecondsKept, BeforeKept, MadeKept DEF WInv

LEMMA StutterWInv == ASSUME WInv, UNCHANGED fragvars PROVE WInv'
<1>1. UNCHANGED <<input, pc, SequenceTimeWindowSize, SeqIDMinimumSec, frag_begin,
                  frag_end, i_b, i_e, frags, last>>
  BY DEF fragvars
<1>2. FragTypeOK /\ Seconds /\ Window /\ Made /\ Before
  BY DEF WInv
<1>3. first_time_sec' = first_time_sec /\ poll' = poll /\ pulse' = pulse /\ seconds' = seconds
      /\ events' = events /\ correctedtimebuffer' = correctedtimebuffer
      /\ references' = references
  BY <1>1, Kept
<1>4. Begin' = Begin
  BY <1>1 DEF Begin, Carry, Moment
<1>5. FragTypeOK'
  BY <1>1, <1>2, <1>3 DEF FragTypeOK
<1>6. Seconds'
  BY <1>1, <1>2, <1>3 DEF Seconds
<1>7. Window'
  BY <1>1, <1>2, <1>3, <1>4 DEF Window, Later, Carry, Moment
<1>8. Made'
  BY <1>1, <1>2, <1>3, <1>4 DEF Made, Later, Id, Carry, Moment
<1> QED
  BY <1>1, <1>2, <1>5, <1>6, <1>7, <1>8, BeforeKept DEF WInv

\* The fragment made when a window is closed.
ThisFragment == [begin |-> frag_begin, end |-> frag_end, seq_id |-> seq_id,
                 from |-> i_b + 1, to |-> i_e]

Fragments == [begin : Windows, end : Windows, seq_id : Nat, from : Nat, to : Nat]

LEMMA OfFragments ==
  ASSUME NEW f \in Fragments
  PROVE  f.begin \in Windows /\ f.end \in Windows /\ f.seq_id \in Nat
BY DEF Fragments

LEMMA FragmentsMade ==
  ASSUME FragTypeOK
  PROVE  /\ frags \in Seq(Fragments) /\ Len(frags) \in Nat
         /\ \A k \in 1 .. Len(frags) : frags[k] \in Fragments
<1>1. frags \in Seq(Fragments)
  BY DEF FragTypeOK, Fragments
<1> QED
  BY <1>1, ElementOfSeq, LenProperties

LEMMA CloseWInv == ASSUME WInv, CloseWindow PROVE WInv'
<1>1. /\ pc = "events" /\ pc' = "windows" /\ i_b' = i_e /\ i_e' = i_e
      /\ frags' = Append(frags, ThisFragment)
      /\ frag_begin' = Later(frag_begin) /\ frag_end' = Later(frag_end)
      /\ UNCHANGED <<input, SequenceTimeWindowSize, SeqIDMinimumSec, last>>
  BY DEF CloseWindow, ThisFragment, Later
<1>2. FragTypeOK /\ Seconds /\ Window /\ Made /\ Before
  BY DEF WInv
<1>3. first_time_sec' = first_time_sec /\ poll' = poll /\ pulse' = pulse /\ seconds' = seconds
      /\ events' = events /\ correctedtimebuffer' = correctedtimebuffer
      /\ references' = references
  BY <1>1, Kept
<1>4. Begin \in Windows /\ frag_begin = Begin /\ frag_begin \in Windows
  BY <1>1, <1>2, Carried DEF FragTypeOK, Begin, Window
<1>5. /\ SequenceTimeWindowSize \in WindowSizes /\ SequenceTimeWindowSize \in Nat \ {0}
      /\ SequenceTimeWindowSize <= SEC /\ SeqIDMinimumSec \in Nat
  BY <1>2, TickSizes DEF FragTypeOK
<1>6. frag_end = Carry(Later(frag_begin)) /\ frag_end \in Windows /\ Later(frag_begin) \in Moments
  BY <1>1, <1>2, <1>4, <1>5, NextWindow DEF Window
<1>7. Begin' = frag_end
  BY <1>1, <1>6 DEF Begin, Carry, Moment
<1>8. frag_end' = Later(Begin)'
  BY <1>1, <1>7 DEF Later
<1>9. Later(frag_end) \in Moments
  BY <1>5, <1>6, NextWindow
<1>10. frag_end = IF frag_begin.ns + SequenceTimeWindowSize >= SEC
                  THEN Moment(frag_begin.s + 1, frag_begin.ns + SequenceTimeWindowSize - SEC)
                  ELSE Moment(frag_begin.s, frag_begin.ns + SequenceTimeWindowSize)
  BY <1>4, <1>5, <1>6, NextWindow
<1>11. seq_id = Id(frag_begin) /\ seq_id \in Nat
  <2>1. seq_id = Id(frag_begin)
    BY DEF seq_id, Id
  <2>2. frag_begin.s >= SeqIDMinimumSec
    <3>1. frag_begin.s >= first_time_sec /\ first_time_sec \in Nat /\ first_time_sec >= 18
      BY <1>1, <1>2, <1>4 DEF Window, Seconds, START
    <3>2. SeqIDMinimumSec <= 12
      BY <1>2, <1>5 DEF Seconds, START
    <3>3. frag_begin.s \in Nat
      BY <1>4 DEF Windows
    <3> QED
      BY <1>5, <3>1, <3>2, <3>3
  <2> QED
    BY <1>4, <1>5, <2>1, <2>2, IdGrows
<1>12. i_b \in Nat /\ i_e \in Nat
  BY <1>2 DEF FragTypeOK
<1>13. ThisFragment \in Fragments
  BY <1>4, <1>6, <1>11, <1>12 DEF ThisFragment, Fragments
<1>14. /\ frags \in Seq(Fragments)
       /\ frags' \in Seq(Fragments)
       /\ Len(frags') = Len(frags) + 1 /\ Len(frags) \in Nat
       /\ \A k \in 1 .. Len(frags) : frags'[k] = frags[k]
       /\ frags'[Len(frags) + 1] = ThisFragment
  <2>1. frags \in Seq(Fragments)
    BY <1>2, FragmentsMade
  <2> QED
    BY <1>1, <1>13, <2>1
<1>15. FragTypeOK'
  BY <1>1, <1>2, <1>3, <1>6, <1>9, <1>14 DEF FragTypeOK, Fragments
<1>16. Window'
  <2>1. Begin'.s >= first_time_sec'
    <3>1. first_time_sec \in Nat /\ frag_begin.s >= first_time_sec
      BY <1>1, <1>2, <1>4 DEF Window, Seconds
    <3>2. frag_begin.s \in Nat
      BY <1>4 DEF Windows
    <3>3. frag_end.s = frag_begin.s \/ frag_end.s = frag_begin.s + 1
      BY <1>10 DEF Moment
    <3> QED
      BY <1>3, <1>7, <3>1, <3>2, <3>3
  <2>2. SEC % SequenceTimeWindowSize = 0 => frag_end.ns % SequenceTimeWindowSize = 0
    <3> SUFFICES ASSUME SEC % SequenceTimeWindowSize = 0
                 PROVE  frag_end.ns % SequenceTimeWindowSize = 0
      OBVIOUS
    <3>1. PICK a \in Nat, d \in Nat \ {0} : a = frag_begin.ns /\ d = SequenceTimeWindowSize
      BY <1>4, <1>5, TickSizes DEF Windows
    <3>2. a % d = 0 /\ SEC % d = 0
      BY <1>1, <1>2, <1>4, <3>1 DEF Window
    <3>3. (a + d) % d = 0
      BY <3>2, MultiplesNext
    <3>4. a + d >= SEC => (a + d - SEC) % d = 0
      <4>1. PICK n \in Nat, m \in Nat : n = a + d /\ m = SEC
        BY TickSizes
      <4>2. m <= n => (n - m) % d = 0
        BY <3>2, <3>3, <4>1, MultiplesApart
      <4> QED
        BY <4>1, <4>2
    <3>5. frag_end.ns = IF a + d >= SEC THEN a + d - SEC ELSE a + d
      BY <1>10, <3>1 DEF Moment
    <3> QED
      BY <3>1, <3>3, <3>4, <3>5, Zenon
  <2> QED
    BY <1>1, <1>7, <1>8, <2>1, <2>2 DEF Window
<1>17. Made'
  <2>1. Made /\ poll' = poll /\ frag_begin.s < poll.second
    BY <1>1, <1>2, <1>3 DEF Window
  <2>2. ASSUME NEW k \in 1 .. Len(frags')
        PROVE  frags'[k].end = Carry(Later(frags'[k].begin)) /\ frags'[k].seq_id = Id(frags'[k].begin)
    <3>1. CASE k \in 1 .. Len(frags)
      BY <1>14, <2>1, <3>1 DEF Made
    <3>2. CASE k = Len(frags) + 1
      <4>1. frags'[k] = ThisFragment
        BY <1>14, <3>2
      <4> QED
        BY <1>6, <1>11, <4>1 DEF ThisFragment
    <3> QED
      BY <1>14, <3>1, <3>2
  <2>3. \A k \in 1 .. Len(frags') : /\ frags'[k].end = Carry(Later(frags[k].begin))'
                                    /\ frags'[k].seq_id = Id(frags[k].begin)'
    <3>1. ASSUME NEW k
          PROVE  /\ Carry(Later(frags[k].begin))' = Carry(Later(frags'[k].begin))
                 /\ Id(frags[k].begin)' = Id(frags'[k].begin)
      BY <1>1 DEF Later, Id, Carry, Moment
    <3> QED
      BY <2>2, <3>1, Zenon
  <2>4. \A k \in 1 .. Len(frags') - 1 : frags'[k + 1].begin = frags'[k].end
    <3> SUFFICES ASSUME NEW k \in 1 .. Len(frags') - 1 PROVE frags'[k + 1].begin = frags'[k].end
      OBVIOUS
    <3>1. CASE k = Len(frags)
      <4>1. frags # <<>> /\ k \in 1 .. Len(frags)
        BY <1>14, <3>1
      <4>2. frags[k].end = Begin
        BY <1>1, <2>1, <3>1, <4>1 DEF Made
      <4> QED
        BY <1>4, <1>14, <3>1, <4>1, <4>2 DEF ThisFragment
    <3>2. CASE k \in 1 .. Len(frags) - 1
      <4>1. k \in 1 .. Len(frags) /\ k + 1 \in 1 .. Len(frags)
        BY <1>14, <3>2
      <4> QED
        BY <1>14, <2>1, <3>2, <4>1 DEF Made
    <3> QED
      BY <1>14, <3>1, <3>2
  <2>5. frags'[1].begin = Moment(first_time_sec, 0)
    <3>1. CASE frags = <<>>
      <4>1. frags'[1] = ThisFragment
        BY <1>14, <3>1
      <4> QED
        BY <1>1, <1>4, <2>1, <3>1, <4>1 DEF Made, ThisFragment
    <3>2. CASE frags # <<>>
      <4>1. 1 \in 1 .. Len(frags)
        BY <1>14, <3>2
      <4> QED
        BY <1>1, <1>14, <2>1, <3>2, <4>1 DEF Made
    <3> QED
      BY <3>1, <3>2
  <2>6. /\ frags'[Len(frags')].end = Begin' /\ frags'[Len(frags')].begin.s < poll'.second
        /\ frags' # <<>>
    BY <1>1, <1>3, <1>4, <1>7, <1>14, <2>1 DEF ThisFragment
  <2>7. Moment(first_time_sec, 0)' = Moment(first_time_sec, 0)
    BY <1>3 DEF Moment
  <2> QED
    BY <2>3, <2>4, <2>5, <2>6, <2>7 DEF Made
<1> QED
  BY <1>1, <1>2, <1>15, <1>16, <1>17, SecondsKept, BeforeKept DEF WInv

\* In the usual cases the first second is that of the reference before.
LEMMA FirstUsual ==
  ASSUME NEW p \in [first : Nat, second : Nat], NEW n \in {1, 2},
         p.second - p.first = 1 \/ (p.first = p.second /\ n = 1)
  PROVE  FirstSecond(p, n) = p.second - n
BY DEF FirstSecond

\* What a reference leaves behind in the usual cases: the windows began with the
\* second before it, or two before it, and went on until that of the reference.
LEMMA AtReference ==
  ASSUME WInv, WindowsDone, Usual
  PROVE  /\ first_time_sec = pulse - seconds /\ pulse \in Nat /\ seconds \in {1, 2}
         /\ frags \in Seq(Fragments) /\ Last(frags) \in Fragments
         /\ frags # <<>> /\ Last(frags) = frags[Len(frags)]
         /\ Len(frags) \in 1 .. Len(frags) /\ 1 \in 1 .. Len(frags)
         /\ frags[1].begin = Moment(pulse - seconds, 0)
         /\ Last(frags).end = Begin /\ Begin.s >= pulse
         /\ Last(frags).seq_id < (pulse - SeqIDMinimumSec) * (SEC \div MSEC)
         /\ SEC % SequenceTimeWindowSize = 0 => Last(frags).end = Moment(pulse, 0)
<1>1. FragTypeOK /\ Seconds /\ Window /\ Made /\ pc = "windows" /\ frag_end.s >= poll.second
  BY DEF WInv, WindowsDone
<1>2. /\ pulse \in Nat /\ seconds \in {1, 2} /\ poll.second = pulse /\ poll.first \in Nat
      /\ SequenceTimeWindowSize \in WindowSizes /\ SeqIDMinimumSec \in Nat
      /\ frags \in Seq(Fragments)
  BY <1>1, FragmentsMade DEF FragTypeOK, Seconds
<1>3. first_time_sec = pulse - seconds
  <2>1. poll \in [first : Nat, second : Nat]
    BY <1>1 DEF FragTypeOK
  <2> QED
    BY <1>2, <2>1, FirstUsual DEF Usual, first_time_sec
<1>4. Begin \in Windows /\ frag_end = Later(Begin) /\ frag_end.s = Begin.s
  <2>1. Begin \in Windows
    BY <1>1, Carried DEF FragTypeOK, Begin
  <2> QED
    BY <1>1, <2>1 DEF Window, Later, Windows
<1>5. Begin.s >= pulse
  BY <1>1, <1>2, <1>4
<1>6. frags # <<>>
  <2>1. SUFFICES ASSUME frags = <<>> PROVE FALSE
    OBVIOUS
  <2>2. Begin = Moment(pulse - seconds, 0)
    BY <1>1, <1>3, <2>1 DEF Made
  <2> QED
    BY <1>2, <1>5, <2>2 DEF Moment
<1>7. Len(frags) \in 1 .. Len(frags) /\ 1 \in 1 .. Len(frags) /\ Last(frags) = frags[Len(frags)]
  BY <1>2, <1>6 DEF Last
<1>8. /\ frags[1].begin = Moment(pulse - seconds, 0)
      /\ Last(frags).end = Begin /\ Last(frags).begin.s < pulse
      /\ Last(frags).end = Carry(Later(Last(frags).begin))
      /\ Last(frags).seq_id = Id(Last(frags).begin)
  BY <1>1, <1>2, <1>3, <1>6, <1>7 DEF Made
<1>9. PICK t \in Windows : t = Last(frags).begin
  BY <1>1, <1>7, FragmentsMade, OfFragments
<1>10. t.s \in Nat /\ t.ns \in 0 .. SEC - 1
  BY DEF Windows
<1>11. PICK w \in Nat \ {0} : w = SequenceTimeWindowSize /\ w <= SEC
  BY <1>2, TickSizes
<1>12. Begin = IF t.ns + w >= SEC THEN Moment(t.s + 1, t.ns + w - SEC)
               ELSE Moment(t.s, t.ns + w)
  <2>1. Carry(Later(t)) = IF t.ns + SequenceTimeWindowSize >= SEC
                          THEN Moment(t.s + 1, t.ns + SequenceTimeWindowSize - SEC)
                          ELSE Moment(t.s, t.ns + SequenceTimeWindowSize)
    BY <1>2, NextWindow
  <2> QED
    BY <1>8, <1>9, <1>11, <2>1, Zenon
<1>13. t.s < pulse
  BY <1>8, <1>9
<1>14. t.s + 1 = pulse /\ t.ns + w >= SEC /\ Begin = Moment(pulse, t.ns + w - SEC)
  <2>1. t.ns + w >= SEC
    <3> SUFFICES ASSUME t.ns + w < SEC PROVE FALSE
      BY <1>10, TickSizes
    <3>1. Begin.s = t.s
      BY <1>10, <1>12, TickSizes DEF Moment
    <3> QED
      BY <1>2, <1>5, <1>10, <1>13, <3>1
  <2>2. Begin.s = t.s + 1 /\ Begin = Moment(t.s + 1, t.ns + w - SEC)
    BY <1>12, <2>1 DEF Moment
  <2>3. t.s + 1 = pulse
    BY <1>2, <1>5, <1>10, <1>13, <2>2
  <2> QED
    BY <2>1, <2>2, <2>3
<1>15. Last(frags).seq_id < (pulse - SeqIDMinimumSec) * (SEC \div MSEC)
  <2>1. Id(t) < (t.s + 1 - SeqIDMinimumSec) * (SEC \div MSEC)
    BY <1>2, IdGrows, Zenon
  <2>2. (t.s + 1 - SeqIDMinimumSec) * (SEC \div MSEC) = (pulse - SeqIDMinimumSec) * (SEC \div MSEC)
    <3>1. t.s + 1 - SeqIDMinimumSec = pulse - SeqIDMinimumSec
      BY <1>2, <1>10, <1>14
    <3> QED
      BY <3>1, Zenon
  <2>3. Last(frags).seq_id = Id(t)
    BY <1>8, <1>9, Zenon
  <2> QED
    BY <2>1, <2>2, <2>3, Zenon
<1>16. SEC % SequenceTimeWindowSize = 0 => Last(frags).end = Moment(pulse, 0)
  <2> SUFFICES ASSUME SEC % SequenceTimeWindowSize = 0 PROVE Begin = Moment(pulse, 0)
    BY <1>8
  <2>1. PICK a \in Nat : a = t.ns + w - SEC /\ a < w
    BY <1>10, <1>14, TickSizes
  <2>2. Begin.ns = a
    BY <1>14, <2>1 DEF Moment
  <2>3. a % w = 0
    BY <1>1, <1>11, <2>2 DEF Window
  <2>4. a = 0
    BY <2>1, <2>3, MultiplesNext
  <2> QED
    BY <1>14, <2>1, <2>4
<1>17. Last(frags) \in Fragments
  BY <1>1, <1>7, FragmentsMade
<1> QED
  BY <1>2, <1>3, <1>5, <1>6, <1>7, <1>8, <1>15, <1>16, <1>17, Zenon

LEMMA EraseWInv == ASSUME WInv, EraseFromFEBBuffer PROVE WInv'
<1>1. /\ WindowsDone /\ pc' = "search"
      /\ events' = <<>> /\ correctedtimebuffer' = <<>>
      /\ seconds' = 0 /\ poll' = [first |-> 0, second |-> 0]
      /\ frag_begin' = Moment(0, 0) /\ frag_end' = Moment(0, 0)
      /\ i_b' = 0 /\ i_e' = 0 /\ frags' = <<>>
      /\ last' = IF frags # <<>> /\ Usual
                 THEN [end |-> Last(frags).end, seq_id |-> Last(frags).seq_id] ELSE None
      /\ UNCHANGED <<pulse, references, SequenceTimeWindowSize, SeqIDMinimumSec>>
  BY DEF EraseFromFEBBuffer
<1>2. FragTypeOK /\ Seconds /\ Window /\ Made /\ Before /\ pc = "windows"
  BY <1>1 DEF WInv, WindowsDone
<1>3. Moment(0, 0) \in Moments
  BY TickSizes DEF Moment, Moments
<1>4. FragTypeOK'
  BY <1>1, <1>2, <1>3, Nothing DEF FragTypeOK
<1>5. Seconds'
  BY <1>1, <1>2 DEF Seconds
<1>6. Window'
  BY <1>1 DEF Window
<1>7. Made'
  BY <1>1, Nothing DEF Made
<1>8. Before'
  <2> SUFFICES ASSUME last' # None PROVE Before'
    BY DEF Before, None, Moment
  <2>1. frags # <<>> /\ Usual /\ last' = [end |-> Last(frags).end, seq_id |-> Last(frags).seq_id]
    BY <1>1, Zenon
  <2>2. /\ pulse \in Nat
        /\ Last(frags).seq_id < (pulse - SeqIDMinimumSec) * (SEC \div MSEC)
        /\ SEC % SequenceTimeWindowSize = 0 => Last(frags).end = Moment(pulse, 0)
    BY <1>1, <2>1, AtReference
  <2>3. Last(frags) \in Fragments
    BY <1>1, <2>1, AtReference
  <2>4. last' \in [end : Moments, seq_id : Int]
    <3>1. \A t \in Windows : t \in Moments
      BY TickSizes DEF Windows, Moments
    <3> QED
      BY <2>1, <2>3, <3>1, OfFragments
  <2>5. pulse' - seconds' = pulse /\ SeqIDMinimumSec' # 0
    BY <1>1, <1>2, <2>2 DEF Seconds
  <2>6. last'.seq_id < (pulse - SeqIDMinimumSec) * (SEC \div MSEC)
    BY <2>1, <2>2
  <2>7. SEC % SequenceTimeWindowSize = 0 => last'.end = Moment(pulse, 0)
    BY <2>1, <2>2
  <2> QED
    BY <1>1, <2>4, <2>5, <2>6, <2>7, Zenon DEF Before, Moments, Moment
<1> QED
  BY <1>4, <1>5, <1>6, <1>7, <1>8 DEF WInv

\* The invariant of the windows holds in every state.
LEMMA WInvHolds == FragSpec => []WInv
<1>1. WInv /\ [FragNext]_fragvars => WInv'
  BY SearchWInv, OpenWInv, TakeWInv, CloseWInv, EraseWInv, StutterWInv DEF FragNext, NoReference
<1> QED
  BY <1>1, WInvInit, PTL DEF FragSpec

\* Every variable keeps its type: sequence ids are natural numbers, and the
\* nanoseconds of a window are less than a second.
THEOREM WindowsTypeCorrect == FragSpec => []FragTypeOK
<1>1. WInv => FragTypeOK
  BY DEF WInv
<1> QED
  BY <1>1, WInvHolds, PTL

\* In the usual cases the windows cover the seconds between two references without
\* a gap and continue those of the reference before.
THEOREM WindowsAdjoin == FragSpec => []SecondsAdjoin
<1>1. WInv => SecondsAdjoin
  <2> SUFFICES ASSUME WInv, Done PROVE SecondsAdjoin
    BY DEF SecondsAdjoin
  <2>1. /\ frags # <<>> /\ frags[1].begin = Moment(pulse - seconds, 0)
        /\ SEC % SequenceTimeWindowSize = 0 => Last(frags).end = Moment(pulse, 0)
    BY AtReference DEF Done
  <2>2. \A k \in 1 .. Len(frags) - 1 : frags[k + 1].begin = frags[k].end
    BY DEF WInv, Made
  <2>3. last # None => (SEC % SequenceTimeWindowSize = 0 => last.end = Moment(pulse - seconds, 0))
    BY DEF WInv, Before
  <2> QED
    BY <2>1, <2>2, <2>3, Zenon DEF SecondsAdjoin
<1> QED
  BY <1>1, WInvHolds, PTL

\* Sequence ids grow from window to window, and from reference to reference in the
\* usual cases.
THEOREM IdsIncrease == FragSpec => []SequenceIdsIncrease
<1>1. WInv => SequenceIdsIncrease
  <2> SUFFICES ASSUME WInv PROVE SequenceIdsIncrease
    OBVIOUS
  <2>1. FragTypeOK /\ Seconds /\ Made /\ Before
    BY DEF WInv
  <2>2. /\ frags \in Seq(Fragments)
        /\ SequenceTimeWindowSize \in WindowSizes /\ SeqIDMinimumSec \in Nat
    BY <2>1, FragmentsMade DEF FragTypeOK
  <2>3. ASSUME NEW k \in 1 .. Len(frags) - 1
        PROVE  frags[k].seq_id < frags[k + 1].seq_id
    <3>1. k \in 1 .. Len(frags) /\ k + 1 \in 1 .. Len(frags)
      BY <2>2
    <3>2. PICK t \in Windows : t = frags[k].begin
      BY <2>1, <3>1, FragmentsMade, OfFragments
    <3>3. frags[k + 1].begin = Carry(Later(t)) /\ frags[k].seq_id = Id(t)
          /\ frags[k + 1].seq_id = Id(Carry(Later(t)))
      BY <2>1, <3>1, <3>2 DEF Made
    <3> QED
      BY <2>2, <3>3, IdGrows
  <2>4. ASSUME Done PROVE last.seq_id < frags[1].seq_id
    <3>1. /\ WindowsDone /\ Usual /\ frags # <<>> /\ 1 \in 1 .. Len(frags)
          /\ frags[1].begin = Moment(pulse - seconds, 0)
          /\ pulse \in Nat /\ seconds \in {1, 2}
      BY <2>4, AtReference DEF Done
    <3>2. frags[1].seq_id \in Nat /\ frags[1].seq_id = Id(frags[1].begin)
      BY <2>1, <3>1, FragmentsMade, OfFragments DEF Made
    <3>3. CASE last = None
      BY <3>2, <3>3 DEF None
    <3>4. CASE last # None
      <4>1. PICK x \in Int : x = (pulse - seconds - SeqIDMinimumSec) * (SEC \div MSEC)
        <5>1. pulse - seconds - SeqIDMinimumSec \in Int /\ SEC \div MSEC \in Int
          BY <2>2, <3>1, TickSizes
        <5> QED
          BY <5>1, OneTimesMore
      <4>2. last.seq_id < x
        BY <2>1, <3>4, <4>1 DEF Before
      <4>3. Id(frags[1].begin) = x
        <5>1. frags[1].begin.s = pulse - seconds /\ frags[1].begin.ns = 0
          BY <3>1 DEF Moment
        <5>2. 0 \div MSEC = 0
          BY TickSizes
        <5>3. Id(frags[1].begin) = x + 0
          BY <4>1, <5>1, <5>2, Zenon DEF Id
        <5> QED
          BY <5>3
      <4> QED
        BY <3>2, <4>2, <4>3
    <3> QED
      BY <3>3, <3>4
  <2> QED
    BY <2>3, <2>4, Zenon DEF SequenceIdsIncrease
<1> QED
  BY <1>1, WInvHolds, PTL

-----------------------------------------------------------------------------
(* The events in the windows.                                               *)

LEMMA TimesOrdered ==
  ASSUME NEW a \in Int, NEW b \in Int, NEW c \in Nat
  PROVE  /\ a * c \in Int /\ b * c \in Int /\ a <= b => a * c <= b * c
         /\ c > 0 /\ a * c <= b * c => a <= b
  BY Z3

LEMMA TickedInt ==
  ASSUME NEW t \in Windows, pulse \in Nat, seconds \in Nat
  PROVE  Ticked(t) \in Int /\ (t.s >= pulse /\ seconds = 1 => Ticked(t) >= SEC)
<1>1. PICK x \in Int : x = t.s - (pulse - seconds) /\ t.ns \in Nat /\ t.s \in Nat
  BY DEF Windows
<1>2. x * SEC \in Int
  BY TickSizes, TimesOrdered
<1>3. x >= 1 => 1 * SEC <= x * SEC
  BY TickSizes, TimesOrdered
<1>4. 1 * SEC = SEC
  BY TickSizes
<1>5. Ticked(t) = x * SEC + t.ns
  BY <1>1, Zenon DEF Ticked
<1>6. t.s >= pulse /\ seconds = 1 => x >= 1
  BY <1>1
<1> QED
  BY <1>1, <1>2, <1>3, <1>4, <1>5, <1>6, TickSizes

\* When no pulse was missed the clock counted Last(events) ticks in the second, and
\* an event is compared with the end of the window on this scale.
LEMMA Scaled ==
  ASSUME FragTypeOK, Seconds, Measured, Usual, seconds = 1, pc # "search"
  PROVE  /\ events \in Seq(Nat) /\ Len(events) \in Nat \ {0}
         /\ \A i \in 1 .. Len(events) : events[i] \in Nat /\ events[i] * SEC \in Int
         /\ Last(events) = events[Len(events)] /\ Last(events) \in Nat
         /\ first_time_sec = pulse - seconds /\ pulse \in Nat
         /\ time_correction = SEC - Last(events)
         /\ Excess = events[i_e + 1] * SEC - Ticked(frag_end) * Last(events)
<1>1. events \in Seq(Nat) /\ Len(events) \in Nat \ {0} /\ correctedtimebuffer = events
  <2>1. events \in Seq(Nat) /\ events # <<>> /\ correctedtimebuffer = events
    BY DEF FragTypeOK, Measured
  <2> QED
    BY <2>1
<1>2. \A i \in 1 .. Len(events) : events[i] \in Nat
  BY <1>1, ElementOfSeq
<1>3. Last(events) = events[Len(events)] /\ Last(events) \in Nat
  BY <1>1, <1>2 DEF Last
<1>4. first_time_sec = pulse - seconds /\ pulse \in Nat
  BY FirstUsual DEF FragTypeOK, Seconds, Usual, first_time_sec
<1>5. time_correction = SEC - Last(events)
  <2>1. time_correction = elapsed_secs(Last(events)) * SEC - Last(events)
    BY <1>1, Zenon DEF time_correction
  <2>2. elapsed_secs(Last(events)) = 1 /\ 1 * SEC = SEC
    BY <1>1, TickSizes DEF Usual
  <2> QED
    BY <2>1, <2>2
<1>6. SEC - time_correction = Last(events)
  BY <1>3, <1>5, TickSizes
<1>7. limit = Ticked(frag_end)
  BY <1>4, Zenon DEF limit, Ticked
<1>8. Excess = events[i_e + 1] * SEC - Ticked(frag_end) * Last(events)
  BY <1>1, <1>6, <1>7, Zenon DEF Excess
<1>9. \A i \in 1 .. Len(events) : events[i] * SEC \in Int
  BY <1>2, TickSizes, TimesOrdered
<1> QED
  BY <1>1, <1>2, <1>3, <1>4, <1>5, <1>8, <1>9, Zenon

LEMMA EInvInit == FragInit => EInv
BY WInvInit DEF FragInit, EInv, Measured, Taken

LEMMA SearchEInv == ASSUME EInv, Search PROVE EInv'
<1>1. WInv /\ WInv' /\ Measured' /\ FragTypeOK' /\ Seconds'
  BY SearchWInv, Found DEF EInv, WInv
<1>2. /\ pc' = "windows" /\ frags' = <<>> /\ i_b' = 0 /\ i_e' = 0
      /\ frag_begin' = Moment(first_time_sec', 0)
  BY <1>1 DEF Search, WInv, Seconds
<1>3. ASSUME seconds' = 1, Usual'
      PROVE  NotBefore(i_e + 1, Begin)'
  <2>1. first_time_sec' = pulse' - seconds' /\ pulse' \in Nat
    <3>1. /\ poll' \in [first : Nat, second : Nat] /\ poll'.second = pulse' /\ pulse' \in Nat
          /\ seconds' \in {1, 2}
      BY <1>1, <1>2 DEF FragTypeOK, Seconds
    <3>2. /\ elapsed_secs(Last(correctedtimebuffer))' = seconds'
          /\ poll'.second - poll'.first = 1 \/ (poll'.first = poll'.second /\ seconds' = 1)
      BY <1>3 DEF Usual
    <3>3. first_time_sec' = FirstSecond(poll', seconds')
      BY <3>2 DEF first_time_sec, FirstSecond
    <3> QED
      BY <3>1, <3>2, <3>3, FirstUsual
  <2>2. Begin' = frag_begin' /\ Begin'.s = first_time_sec' /\ Begin'.ns = 0
    <3>1. frag_begin'.ns = 0 /\ frag_begin'.s = first_time_sec'
      BY <1>2 DEF Moment
    <3>2. Begin' = frag_begin'
      BY <3>1, TickSizes DEF Begin, Carry
    <3> QED
      BY <3>1, <3>2
  <2>3. events' \in Seq(Nat) /\ Len(events') \in Nat \ {0}
    <3>1. events' \in Seq(Nat) /\ events' # <<>>
      BY <1>1, <1>2, <1>3 DEF FragTypeOK, Measured
    <3> QED
      BY <3>1
  <2>4. events'[1] \in Nat /\ Last(events') \in Nat
    BY <2>3 DEF Last
  <2>5. Ticked(Begin)' = 0
    <3>1. Begin'.s - (pulse' - seconds') = 0
      <4>1. PICK x \in Int : x = pulse' - seconds'
        <5>1. pulse' \in Nat /\ seconds' \in Nat
          BY <1>1 DEF FragTypeOK
        <5>2. pulse' - seconds' \in Int
          BY <5>1
        <5> QED
          BY <5>2, Zenon
      <4>2. Begin'.s = x
        BY <2>1, <2>2, <4>1, Zenon
      <4>3. x - x = 0
        OBVIOUS
      <4> QED
        BY <4>1, <4>2, <4>3, Zenon
    <3>2. Ticked(Begin)' = 0 * SEC + 0
      BY <2>2, <3>1, Zenon DEF Ticked
    <3> QED
      BY <3>2, TickSizes
  <2>6. 0 * Last(events') <= events'[1] * SEC
    <3>1. 0 * Last(events') = 0 /\ 0 * SEC = 0
      BY <2>4, TickSizes
    <3>2. 0 * SEC <= events'[1] * SEC
      BY <2>4, TickSizes, TimesOrdered
    <3> QED
      BY <3>1, <3>2
  <2>7. i_e' + 1 = 1
    BY <1>2
  <2> QED
    BY <2>5, <2>6, <2>7, Zenon DEF NotBefore, Last
<1>4. Taken'
  <2>1. (1 .. 0) = {}
    OBVIOUS
  <2>2. i_b' + 1 .. i_e' = {} /\ 1 .. i_b' = {}
    BY <1>2
  <2> QED
    BY <1>2, <1>3, <2>2 DEF Taken
<1> QED
  BY <1>1, <1>4 DEF EInv

LEMMA MeasuredKept ==
  ASSUME Measured, UNCHANGED input, pc # "search"
  PROVE  Measured'
<1>1. seconds' = seconds /\ events' = events /\ correctedtimebuffer' = correctedtimebuffer
  BY Kept
<1> QED
  BY <1>1 DEF Measured

\* Where an event is does not change while the reference stays.
LEMMA ScaleKept ==
  ASSUME UNCHANGED input
  PROVE  \A i, t : (NotBefore(i, t)' <=> NotBefore(i, t)) /\ (NotAfter(i, t)' <=> NotAfter(i, t))
<1>1. seconds' = seconds /\ events' = events /\ pulse' = pulse
  BY Kept
<1> QED
  BY <1>1 DEF NotBefore, NotAfter, Ticked, Last

LEMMA OpenEInv == ASSUME EInv, OpenWindow PROVE EInv'
<1>1. /\ pc = "windows" /\ pc' = "events" /\ frag_begin' = Begin
      /\ UNCHANGED <<input, i_b, i_e, frags>>
  BY DEF OpenWindow, Begin
<1>2. WInv /\ WInv' /\ Measured'
  BY <1>1, OpenWInv, MeasuredKept DEF EInv
<1>3. Begin' = Begin
  <2>1. FragTypeOK
    BY <1>2 DEF WInv
  <2>2. Carry(Begin) = Begin
    <3>1. Begin \in Windows /\ SequenceTimeWindowSize \in WindowSizes
      BY <2>1, Carried DEF FragTypeOK, Begin
    <3> QED
      BY <3>1, NextWindow
  <2>3. Begin' = Carry(frag_begin')
    BY DEF Begin, Carry, Moment
  <2> QED
    BY <1>1, <2>2, <2>3, Zenon
<1>4. seconds' = seconds /\ events' = events /\ pulse' = pulse /\ (Usual' <=> Usual)
  BY <1>1, Kept
<1>5. SUFFICES ASSUME seconds = 1, Usual PROVE Taken'
  BY <1>2, <1>4 DEF EInv, Taken
<1>6. /\ \A i \in 1 .. i_b : InFragment(i)
      /\ i_e < Len(events) => NotBefore(i_e + 1, Begin)
      /\ i_b = i_e
  BY <1>1, <1>5 DEF EInv, Taken
<1>7. \A i \in 1 .. i_b' : InFragment(i)'
  BY <1>1, <1>4, <1>6 DEF InFragment, NotBefore, NotAfter, Ticked, Last
<1>8. i_e' < Len(events') => NotBefore(i_e + 1, Begin)'
  BY <1>1, <1>3, <1>4, <1>6 DEF NotBefore, Ticked, Last
<1>9. i_b' + 1 .. i_e' = {}
  <2>1. i_e \in Nat
    BY <1>2 DEF WInv, FragTypeOK
  <2> QED
    BY <1>1, <1>6, <2>1
<1> QED
  BY <1>1, <1>7, <1>8, <1>9 DEF Taken

LEMMA TakeEInv == ASSUME EInv, TakeEvent PROVE EInv'
<1>1. /\ pc = "events" /\ i_e < Len(events) /\ i_e' = i_e + 1 /\ Excess <= 0
      /\ UNCHANGED <<pc, input, frag_begin, frag_end, i_b, frags>>
  BY DEF TakeEvent
<1>2. WInv /\ WInv' /\ Measured /\ Measured' /\ FragTypeOK /\ Seconds /\ Window
  BY <1>1, TakeWInv, MeasuredKept DEF EInv, WInv
<1>3. Begin' = Begin
  BY <1>1 DEF Begin, Carry, Moment
<1>4. seconds' = seconds /\ events' = events /\ pulse' = pulse /\ (Usual' <=> Usual)
  BY <1>1, Kept
<1>5. SUFFICES ASSUME seconds = 1, Usual PROVE Taken'
  BY <1>2, <1>4 DEF EInv, Taken
<1>6. /\ \A i \in 1 .. i_b : InFragment(i)
      /\ \A i \in i_b + 1 .. i_e : NotBefore(i, Begin) /\ NotAfter(i, frag_end)
      /\ NotBefore(i_e + 1, Begin)
  BY <1>1, <1>5 DEF EInv, Taken
<1>7. /\ events \in Seq(Nat) /\ Len(events) \in Nat \ {0}
      /\ \A i \in 1 .. Len(events) : events[i] \in Nat /\ events[i] * SEC \in Int
      /\ Last(events) \in Nat /\ pulse \in Nat
      /\ Excess = events[i_e + 1] * SEC - Ticked(frag_end) * Last(events)
  BY <1>1, <1>2, <1>5, Scaled
<1>8. i_e \in Nat /\ i_b \in Nat /\ i_e + 1 \in 1 .. Len(events)
  BY <1>1, <1>2, <1>7 DEF FragTypeOK
<1>9. Begin \in Windows /\ frag_end \in Windows
  <2>1. Begin \in Windows /\ SequenceTimeWindowSize \in WindowSizes
    BY <1>2, Carried DEF FragTypeOK, Begin
  <2>2. frag_end = Carry(Later(Begin))
    BY <1>1, <1>2 DEF Window
  <2> QED
    BY <2>1, <2>2, NextWindow
<1>10. Ticked(frag_end) * Last(events) \in Int /\ Ticked(Begin) * Last(events) \in Int
  <2>1. Ticked(frag_end) \in Int /\ Ticked(Begin) \in Int
    BY <1>5, <1>7, <1>9, TickedInt
  <2> QED
    BY <1>7, <2>1, TimesOrdered
<1>11. NotAfter(i_e + 1, frag_end)
  BY <1>1, <1>7, <1>8, <1>10 DEF NotAfter
<1>12. i_e + 1 < Len(events) => NotBefore(i_e + 2, Begin)
  <2> SUFFICES ASSUME i_e + 1 < Len(events) PROVE NotBefore(i_e + 2, Begin)
    OBVIOUS
  <2>1. i_e + 1 \in 1 .. Len(events) - 1 /\ i_e + 2 \in 1 .. Len(events) /\ i_e + 2 = (i_e + 1) + 1
    BY <1>7, <1>8
  <2>2. events[i_e + 1] < events[(i_e + 1) + 1]
    BY <1>1, <1>2, <1>5, <2>1 DEF Measured
  <2>3. PICK a \in Nat, b \in Nat : a = events[i_e + 1] /\ b = events[i_e + 2] /\ a < b
    BY <1>7, <1>8, <2>1, <2>2
  <2>4. a * SEC <= b * SEC /\ a * SEC \in Int /\ b * SEC \in Int
    BY <2>3, TickSizes, TimesOrdered
  <2>5. Ticked(Begin) * Last(events) <= a * SEC
    BY <1>6, <2>3 DEF NotBefore
  <2>6. Ticked(Begin) * Last(events) <= b * SEC
    BY <1>10, <2>4, <2>5
  <2> QED
    BY <2>3, <2>6 DEF NotBefore
<1>13. \A i \in i_b + 1 .. i_e + 1 : NotBefore(i, Begin) /\ NotAfter(i, frag_end)
  BY <1>6, <1>8, <1>11
<1>14. \A i \in 1 .. i_b' : InFragment(i)'
  BY <1>1, <1>4, <1>6 DEF InFragment, NotBefore, NotAfter, Ticked, Last
<1>15. \A i \in i_b' + 1 .. i_e' : NotBefore(i, Begin)' /\ NotAfter(i, frag_end)'
  BY <1>1, <1>3, <1>4, <1>13 DEF NotBefore, NotAfter, Ticked, Last
<1>16. i_e' < Len(events') => NotBefore(i_e + 1, Begin)'
  <2>1. i_e' + 1 = i_e + 2
    BY <1>1, <1>8
  <2> QED
    BY <1>1, <1>3, <1>4, <1>12, <2>1 DEF NotBefore, Ticked, Last
<1> QED
  BY <1>1, <1>14, <1>15, <1>16 DEF Taken

LEMMA CloseEInv == ASSUME EInv, CloseWindow PROVE EInv'
<1>1. /\ pc = "events" /\ pc' = "windows" /\ EndOfWindow /\ i_b' = i_e /\ i_e' = i_e
      /\ frags' = Append(frags, ThisFragment) /\ frag_begin' = Later(frag_begin)
      /\ UNCHANGED <<input, SequenceTimeWindowSize>>
  BY DEF CloseWindow, ThisFragment, Later
<1>2. WInv /\ WInv' /\ Measured /\ Measured' /\ FragTypeOK /\ Seconds /\ Window
  BY <1>1, CloseWInv, MeasuredKept DEF EInv, WInv
<1>3. Begin \in Windows /\ frag_begin = Begin /\ frag_end = Carry(Later(Begin))
      /\ frag_end \in Windows
  <2>1. Begin \in Windows /\ SequenceTimeWindowSize \in WindowSizes
    BY <1>2, Carried DEF FragTypeOK, Begin
  <2>2. frag_end = Carry(Later(Begin)) /\ frag_begin = Begin
    BY <1>1, <1>2 DEF Window
  <2> QED
    BY <2>1, <2>2, NextWindow
<1>4. Begin' = frag_end
  BY <1>1, <1>3 DEF Begin, Carry, Moment
<1>5. /\ seconds' = seconds /\ events' = events /\ pulse' = pulse /\ (Usual' <=> Usual)
      /\ time_correction' = time_correction
  BY <1>1, Kept
<1>6. SUFFICES ASSUME seconds = 1, Usual PROVE Taken'
  BY <1>2, <1>5 DEF EInv, Taken
<1>7. /\ \A i \in 1 .. i_b : InFragment(i)
      /\ \A i \in i_b + 1 .. i_e : NotBefore(i, Begin) /\ NotAfter(i, frag_end)
  BY <1>1, <1>6 DEF EInv, Taken
<1>8. /\ events \in Seq(Nat) /\ Len(events) \in Nat \ {0}
      /\ \A i \in 1 .. Len(events) : events[i] \in Nat /\ events[i] * SEC \in Int
      /\ Last(events) \in Nat /\ pulse \in Nat
      /\ Excess = events[i_e + 1] * SEC - Ticked(frag_end) * Last(events)
  BY <1>1, <1>2, <1>6, Scaled
<1>9. i_e \in Nat /\ i_b \in Nat
  BY <1>2 DEF FragTypeOK
<1>10. /\ Len(frags) \in Nat /\ Len(frags') = Len(frags) + 1
       /\ DOMAIN frags = 1 .. Len(frags) /\ DOMAIN frags' = 1 .. Len(frags) + 1
       /\ \A k \in 1 .. Len(frags) : frags'[k] = frags[k]
       /\ frags'[Len(frags) + 1] = ThisFragment
  <2>1. frags \in Seq(Fragments)
    BY <1>2, FragmentsMade
  <2>2. ThisFragment \in Fragments
    <3>1. seq_id \in Nat
      <4>1. frags' \in Seq(Fragments)
        BY <1>2 DEF WInv, FragTypeOK, Fragments
      <4>2. Len(frags) \in Nat
        BY <2>1
      <4>3. Len(frags') = Len(frags) + 1 /\ frags'[Len(frags) + 1] = ThisFragment
        BY <1>1, <2>1
      <4>4. ThisFragment \in Fragments
        BY <4>1, <4>2, <4>3, ElementOfSeq
      <4> QED
        BY <4>4 DEF ThisFragment, Fragments
    <3> QED
      BY <1>3, <1>9, <3>1 DEF ThisFragment, Fragments
  <2> QED
    BY <1>1, <2>1, <2>2
<1>11. Ticked(frag_end) * Last(events) \in Int
  <2>1. Ticked(frag_end) \in Int
    BY <1>3, <1>6, <1>8, TickedInt
  <2> QED
    BY <1>8, <2>1, TimesOrdered
<1>12. ASSUME i_e < Len(events)
       PROVE  /\ NotBefore(i_e + 1, frag_end)
              /\ ~NotAfter(i_e + 1, frag_end) \/ time_correction # 0
  <2>1. Excess > 0 \/ (Excess = 0 /\ time_correction # 0)
    BY <1>1, <1>12 DEF EndOfWindow
  <2>2. i_e + 1 \in 1 .. Len(events)
    BY <1>8, <1>9, <1>12
  <2>3. PICK a \in Int, b \in Int :
          a = events[i_e + 1] * SEC /\ b = Ticked(frag_end) * Last(events)
    BY <1>8, <1>11, <2>2
  <2>4. Excess = a - b
    BY <1>8, <2>3, Zenon
  <2>5. b <= a /\ (~(a <= b) \/ time_correction # 0)
    BY <2>1, <2>4
  <2> QED
    BY <2>3, <2>5, Zenon DEF NotBefore, NotAfter
<1>13. ASSUME NEW i \in 1 .. i_b'
       PROVE  InFragment(i)'
  <2>1. CASE i \in 1 .. i_b
    <3>1. PICK k \in 1 .. Len(frags) :
            /\ frags[k].from <= i /\ i <= frags[k].to
            /\ NotBefore(i, frags[k].begin) /\ NotAfter(i, frags[k].end)
      BY <1>7, <1>10, <2>1 DEF InFragment
    <3>2. frags'[k] = frags[k] /\ k \in DOMAIN frags'
      BY <1>10
    <3>3. NotBefore(i, frags[k].begin)' /\ NotAfter(i, frags[k].end)'
      BY <1>5, <3>1, <3>2 DEF NotBefore, NotAfter, Ticked, Last
    <3> QED
      BY <3>1, <3>2, <3>3 DEF InFragment, NotBefore, NotAfter, Ticked, Last
  <2>2. CASE i \in i_b + 1 .. i_e
    <3>1. PICK k : k = Len(frags) + 1
      OBVIOUS
    <3>2. k \in DOMAIN frags' /\ frags'[k] = ThisFragment
      BY <1>10, <3>1
    <3>3. /\ frags'[k].from = i_b + 1 /\ frags'[k].to = i_e
          /\ frags'[k].begin = Begin /\ frags'[k].end = frag_end
      BY <1>3, <3>2 DEF ThisFragment
    <3>4. frags'[k].from <= i /\ i <= frags'[k].to
      BY <2>2, <3>3
    <3>5. NotBefore(i, Begin) /\ NotAfter(i, frag_end)
      BY <1>7, <2>2
    <3>6. NotBefore(i, frags[k].begin)' /\ NotAfter(i, frags[k].end)'
      BY <1>5, <3>3, <3>5 DEF NotBefore, NotAfter, Ticked, Last
    <3> QED
      BY <3>2, <3>4, <3>6 DEF InFragment, NotBefore, NotAfter, Ticked, Last
  <2> QED
    BY <1>1, <1>9, <2>1, <2>2
<1>14. i_e' < Len(events') => /\ NotBefore(i_e + 1, Begin)'
                              /\ ~NotAfter(i_e + 1, Begin)' \/ time_correction' # 0
  BY <1>1, <1>4, <1>5, <1>12 DEF NotBefore, NotAfter, Ticked, Last
<1>15. i_b' + 1 .. i_e' = {}
  BY <1>1, <1>9
<1> QED
  BY <1>1, <1>13, <1>14, <1>15 DEF Taken

LEMMA StutterEInv == ASSUME EInv, UNCHANGED fragvars PROVE EInv'
<1>1. UNCHANGED <<input, pc, SequenceTimeWindowSize, SeqIDMinimumSec, frag_begin,
                  frag_end, i_b, i_e, frags, last>>
  BY DEF fragvars
<1>2. /\ seconds' = seconds /\ events' = events /\ pulse' = pulse /\ (Usual' <=> Usual)
      /\ time_correction' = time_correction /\ correctedtimebuffer' = correctedtimebuffer
  BY <1>1, Kept
<1>3. Begin' = Begin
  BY <1>1 DEF Begin, Carry, Moment
<1>4. Measured'
  BY <1>1, <1>2 DEF EInv, Measured
<1>5. SUFFICES ASSUME pc # "search", seconds = 1, Usual PROVE Taken'
  BY <1>1, <1>2, <1>4, StutterWInv DEF EInv, Taken
<1>6. /\ \A i \in 1 .. i_b : InFragment(i)
      /\ \A i \in i_b + 1 .. i_e : NotBefore(i, Begin) /\ NotAfter(i, frag_end)
      /\ i_e < Len(events) => NotBefore(i_e + 1, Begin)
      /\ pc = "windows" => /\ i_b = i_e
                           /\ frags # <<>> /\ i_e < Len(events) =>
                                ~NotAfter(i_e + 1, Begin) \/ time_correction # 0
  BY <1>5, Zenon DEF EInv, Taken
<1>7. /\ \A i \in 1 .. i_b' : InFragment(i)'
      /\ \A i \in i_b' + 1 .. i_e' : NotBefore(i, Begin)' /\ NotAfter(i, frag_end)'
  BY <1>1, <1>2, <1>3, <1>6 DEF InFragment, NotBefore, NotAfter, Ticked, Last
<1>8. (NotBefore(i_e + 1, Begin)' <=> NotBefore(i_e + 1, Begin))
      /\ (NotAfter(i_e + 1, Begin)' <=> NotAfter(i_e + 1, Begin))
  BY <1>1, <1>2, <1>3 DEF NotBefore, NotAfter, Ticked, Last
<1> QED
  BY <1>1, <1>2, <1>6, <1>7, <1>8 DEF Taken

LEMMA EraseEInv == ASSUME EInv, EraseFromFEBBuffer PROVE EInv'
BY EraseWInv DEF EInv, EraseFromFEBBuffer, Measured, Taken

\* When no pulse was missed every event up to the reference is in the fragment of its
\* time; the reference, too, if its clock needs no correction.
THEOREM EventsFindTheirWindow == FragSpec => []EventsInTheirWindow
<1>1. EInv /\ [FragNext]_fragvars => EInv'
  BY SearchEInv, OpenEInv, TakeEInv, CloseEInv, EraseEInv, StutterEInv DEF FragNext, NoReference
<1>2. EInv => EventsInTheirWindow
  <2> SUFFICES ASSUME EInv, Done, seconds = 1, NEW i \in DOMAIN events,
                      i < Len(events) \/ time_correction = 0
               PROVE  InFragment(i)
    BY DEF EventsInTheirWindow, InFragment, NotBefore, NotAfter
  <2>1. WInv /\ Measured /\ FragTypeOK /\ Seconds /\ pc = "windows" /\ Usual /\ WindowsDone
    BY DEF EInv, WInv, Done, WindowsDone
  <2>2. /\ \A j \in 1 .. i_b : InFragment(j)
        /\ i_e < Len(events) => NotBefore(i_e + 1, Begin)
        /\ i_b = i_e
        /\ frags # <<>> /\ i_e < Len(events) =>
             ~NotAfter(i_e + 1, Begin) \/ time_correction # 0
    BY <2>1, Zenon DEF EInv, Taken
  <2>3. frags # <<>> /\ Begin.s >= pulse
    BY <2>1, AtReference
  <2>4. /\ events \in Seq(Nat) /\ Len(events) \in Nat \ {0}
        /\ \A j \in 1 .. Len(events) : events[j] \in Nat /\ events[j] * SEC \in Int
        /\ Last(events) = events[Len(events)] /\ Last(events) \in Nat /\ pulse \in Nat
    BY <2>1, Scaled
  <2>5. Begin \in Windows
    BY <2>1, Carried DEF FragTypeOK, Begin
  <2>6. Ticked(Begin) \in Int /\ Ticked(Begin) >= SEC
    BY <2>3, <2>4, <2>5, TickedInt
  <2>7. i \in 1 .. Len(events) /\ i_e \in 0 .. Len(events)
    BY <2>1, <2>4 DEF FragTypeOK
  <2>8. i <= i_e
    <3> SUFFICES ASSUME i_e < i PROVE FALSE
      BY <2>7
    <3>1. i_e < Len(events) /\ i_e + 1 \in 1 .. Len(events)
      BY <2>4, <2>7
    <3>2. PICK a \in Nat, t \in Int, l \in Nat :
            a = events[i_e + 1] /\ t = Ticked(Begin) /\ l = Last(events)
      BY <2>4, <2>6, <3>1
    <3>3. t * l <= a * SEC
      BY <2>2, <3>1, <3>2, Zenon DEF NotBefore
    <3>4. SEC * l <= t * l /\ t * l \in Int /\ SEC * l \in Int /\ a * SEC \in Int
          /\ l * SEC \in Int /\ l * SEC = SEC * l
      <4>1. SEC \in Int /\ SEC \in Nat /\ SEC <= t
        BY <2>6, <3>2, TickSizes
      <4> QED
        BY <4>1, TimesOrdered, OneTimesMore
    <3>5. l * SEC <= a * SEC
      BY <3>3, <3>4
    <3>6. l <= a
      BY <3>5, TickSizes, TimesOrdered
    <3>7. i_e + 1 = Len(events)
      <4>1. i_e + 1 \notin 1 .. Len(events) - 1
        <5> SUFFICES ASSUME i_e + 1 \in 1 .. Len(events) - 1 PROVE FALSE
          OBVIOUS
        <5>1. events[i_e + 1] < events[Len(events)]
          BY <2>1 DEF Measured
        <5> QED
          BY <2>4, <3>2, <3>6, <5>1
      <4> QED
        BY <2>4, <3>1, <4>1
    <3>8. i = Len(events) /\ time_correction = 0
      BY <2>4, <2>7, <3>7
    <3>9. ~(a * SEC <= t * l)
      BY <2>2, <2>3, <3>1, <3>2, <3>8, Zenon DEF NotAfter
    <3>10. a = l
      BY <2>4, <3>2, <3>7
    <3> QED
      BY <3>4, <3>9, <3>10
  <2> QED
    BY <2>2, <2>7, <2>8
<1> QED
  BY <1>1, <1>2, EInvInit, PTL DEF FragSpec
=============================================================================
