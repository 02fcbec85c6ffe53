------------------------------ MODULE WorkerThread ------------------------------
(***************************************************************************)
(* The thread that fetches data in a board reader: WorkerThread, and how   *)
(* BernZMQ_GeneratorBase and BernZMQData start and stop it                 *)
(* (workerThread.cpp, BernZMQ_GeneratorBase.cc, BernZMQData_generator.cc). *)
(*                                                                         *)
(* A framework thread calls start() and stop(), or stopNoMutex() and then  *)
(* stop().  The two share an atomic flag, the future of the thread, the    *)
(* subscriber socket and the buffers.  What the worker does with a message *)
(* is module FEBBuffers; here it uses the buffers or it does not.          *)
(***************************************************************************)
EXTENDS Naturals

CONSTANT MaxData  \* bound: messages waiting in the socket

ASSUME MaxDataAssumption == MaxData \in Nat \ {0}

\* Threads of consecutive runs.  Two names are enough as long as the thread of a
\* run has ended before the run after the next one starts (ThreadIsFree).
Threads == {1, 2}
Next2(t) == 3 - t

VARIABLES
  fpc,           \* the framework thread
  calls,         \* calls of stop() it still has to make
  thread,        \* the thread of the current run
  stop_running,  \* _stop_running
  result,        \* _worker_thread_result: the thread it belongs to, 0 without one
  worker,        \* what each thread does
  socket,        \* zmq_subscriber_
  data,          \* messages waiting in it
  threw          \* history: the threads ended by an exception

framework == <<fpc, calls, thread>>
vars == <<framework, stop_running, result, worker, socket, data, threw>>

Init ==
  /\ fpc = "stopped" /\ calls = 0 /\ thread = 2
  /\ stop_running = FALSE
  /\ result = 0
  /\ worker = [t \in Threads |-> "ended"]
  /\ socket = "none" /\ data = 0
  /\ threw = {}

\* The future of a thread is ready when the thread has ended.
Ready(r) == \A t \in Threads : r = t => worker[t] = "ended"

GoTo(p) == fpc' = p /\ UNCHANGED <<calls, thread>>
Does(t, what) == worker' = [worker EXCEPT ![t] = what]

-----------------------------------------------------------------------------
(* start().                                                                 *)

\* FEBBuffer::Init is called for every buffer while fpc is "init".
start ==
  /\ fpc = "stopped"
  /\ fpc' = "init" /\ thread' = Next2(thread) /\ calls' = calls
  /\ UNCHANGED <<stop_running, result, worker, socket, data, threw>>

ConfigureStart ==
  /\ fpc = "init" /\ GoTo("clear")
  /\ socket' = "open" /\ data' = 0
  /\ UNCHANGED <<stop_running, result, worker, threw>>

\* WorkerThread::start().
ClearStop ==
  /\ fpc = "clear" /\ GoTo("launch")
  /\ stop_running' = FALSE
  /\ UNCHANGED <<result, worker, socket, data, threw>>

Launch ==
  /\ fpc = "launch" /\ GoTo("assign")
  /\ Does(thread, "test")
  /\ threw' = threw \ {thread}
  /\ UNCHANGED <<stop_running, result, socket, data>>

\* The new future replaces the old one, which waits for the thread of the old
\* one to end if nobody took its result.
Assign ==
  /\ fpc = "assign" /\ GoTo("running")
  /\ Ready(result)
  /\ result' = thread
  /\ UNCHANGED <<stop_running, worker, socket, data, threw>>

-----------------------------------------------------------------------------
(* stop() and stopNoMutex(), which do the same.                             *)

stop ==
  /\ fpc = "running"
  /\ fpc' = "stop" /\ calls' \in {1, 2} /\ thread' = thread
  /\ UNCHANGED <<stop_running, result, worker, socket, data, threw>>

\* WorkerThread::stop() does nothing if the flag is set.  Mutant: it does not
\* look.
NotRunning_Ignored == FALSE
NotRunning == stop_running

TestStop ==
  /\ fpc = "stop"
  /\ GoTo(IF NotRunning THEN "close" ELSE "set")
  /\ UNCHANGED <<stop_running, result, worker, socket, data, threw>>

SetStop ==
  /\ fpc = "set" /\ GoTo("wait")
  /\ stop_running' = TRUE
  /\ UNCHANGED <<result, worker, socket, data, threw>>

\* It waits eleven times for a second, then reports an error and waits in
\* get() without a limit.  Mutant: it gives up instead.
Joined_GivesUp == TRUE
Joined == Ready(result)

Join ==
  /\ fpc = "wait" /\ GoTo("close")
  /\ Joined
  /\ result' = 0
  /\ UNCHANGED <<stop_running, worker, socket, data, threw>>

\* The socket is closed by each call.
More == calls > 1

ConfigureStop ==
  /\ fpc = "close"
  /\ fpc' = IF More THEN "stop" ELSE "stopped"
  /\ calls' = calls - 1 /\ thread' = thread
  /\ socket' = "closed" /\ data' = 0
  /\ UNCHANGED <<stop_running, result, worker, threw>>

-----------------------------------------------------------------------------
(* run(), in the worker thread.                                             *)

\* The loop ends when the flag is set.  Mutant: it never looks.
MustStop_Never == FALSE
MustStop == stop_running

Test(t) ==
  /\ worker[t] = "test"
  /\ Does(t, IF MustStop THEN "leave" ELSE "receive")
  /\ UNCHANGED <<framework, stop_running, result, socket, data, threw>>

\* GetZMQData polls the socket until there is a message; one that is too long
\* is answered with an exception.
GetZMQData(t) ==
  /\ worker[t] = "receive" /\ data > 0
  /\ data' = data - 1
  /\ \/ Does(t, "insert") /\ threw' = threw
     \/ Does(t, "leave") /\ threw' = threw \cup {t}
  /\ UNCHANGED <<framework, stop_running, result, socket>>

\* The events are put into the buffers.
Insert(t) ==
  /\ worker[t] = "insert" /\ Does(t, "test")
  /\ UNCHANGED <<framework, stop_running, result, socket, data, threw>>

\* The last thing the thread does is to set the flag; then its future is ready.
LastStore(t) ==
  /\ worker[t] = "leave" /\ Does(t, "return")
  /\ stop_running' = TRUE
  /\ UNCHANGED <<framework, result, socket, data, threw>>

Return(t) ==
  /\ worker[t] = "return" /\ Does(t, "ended")
  /\ UNCHANGED <<framework, stop_running, result, socket, data, threw>>

\* A message comes in.
Publish ==
  /\ socket = "open" /\ data < MaxData
  /\ data' = data + 1
  /\ UNCHANGED <<framework, stop_running, result, worker, socket, threw>>

-----------------------------------------------------------------------------
Starting == ConfigureStart \/ ClearStop \/ Launch \/ Assign
Stopping == TestStop \/ SetStop \/ Join \/ ConfigureStop
Run(t) == Test(t) \/ GetZMQData(t) \/ Insert(t) \/ LastStore(t) \/ Return(t)

Next == start \/ Starting \/ stop \/ Stopping \/ (\E t \in Threads : Run(t)) \/ Publish

Spec == Init /\ [][Next]_vars

\* Calls go on and threads run.  Nobody has to call start or stop, or to send a
\* message.
FairSpec == /\ Spec
            /\ WF_vars(Starting \/ Stopping)
            /\ \A t \in Threads : WF_vars(Run(t))

-----------------------------------------------------------------------------
(* Properties.                                                              *)

\* Every variable has its type.
TypeOK ==
  /\ fpc \in {"stopped", "init", "clear", "launch", "assign", "running", "stop",
              "set", "wait", "close"}
  /\ calls \in {0, 1, 2} /\ thread \in Threads
  /\ stop_running \in BOOLEAN
  /\ result \in {0} \cup Threads
  /\ worker \in [Threads -> {"test", "receive", "insert", "leave", "return", "ended"}]
  /\ socket \in {"none", "open", "closed"}
  /\ data \in 0 .. MaxData
  /\ threw \subseteq Threads

\* A thread is launched only when the thread of the run before last has ended.
ThreadIsFree == fpc = "launch" => worker[thread] = "ended"

\* The thread calls the functor.
Active(t) == worker[t] \in {"test", "receive", "insert"}

\* No two threads are ever in the functor, which keeps its state in members
\* that only one thread may use.
OneWorker == \A t \in Threads : Active(t) => t = thread

\* While start() makes the buffers anew no thread inserts events into them.
BuffersQuiet == fpc = "init" => \A t \in Threads : ~Active(t)

\* The socket is not closed, and not replaced, while a thread receives from it.
SocketInUse == \A t \in Threads : worker[t] = "receive" => socket = "open"

\* stop() waits only for a thread: std::future is undefined without a state,
\* which stop() called twice would find.
FutureHasState == fpc \in {"set", "wait"} => result = thread

\* Between start() and stop() the flag of the last run, however that run ended
\* and however late its thread set the flag, does not stop the new one.
StartIsNotLost ==
  fpc \in {"launch", "assign", "running"} /\ thread \notin threw => ~stop_running

\* stop() returns as long as messages come in.
StopsWhileDataFlows ==
  []<>(data > 0) => (fpc = "wait" ~> fpc = "close")
=============================================================================
