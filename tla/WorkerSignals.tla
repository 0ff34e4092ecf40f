--------------------------- MODULE WorkerSignals ---------------------------
(***************************************************************************)
(* Graceful shutdown of one worker process (worker/process.py), at the     *)
(* grain where a signal handler interrupts the main thread.  CPython runs  *)
(* _handle_sigterm on the main thread, between two bytecodes of whatever   *)
(* that thread is doing, a handler included; the interrupted code resumes  *)
(* only when the handler returns.  Two locks, neither of them reentrant:   *)
(* _state_lock, and the one inside _stop_event, which set() and wait()     *)
(* take.  (The heartbeat thread takes that one too, but never for long.)   *)
(***************************************************************************)
EXTENDS Naturals, Sequences

CONSTANTS
  Concurrency,  \* Worker.concurrency
  MaxSignals    \* bound: SIGTERM/SIGINT deliveries in one behaviour

ASSUME SignalAssumption == Concurrency \in Nat \ {0} /\ MaxSignals \in Nat \ {0}

VARIABLES
  main,     \* where the main thread is, handlers aside
  frames,   \* handler invocations on its stack, innermost last
  lock,     \* _state_lock held (every holder here is the main thread)
  evlock,   \* the event's lock held by it
  state,    \* Worker._state
  stop,     \* Worker._stop_event
  active,   \* len(_active_jobs)
  signals   \* signals delivered

vars == <<main, frames, lock, evlock, state, stop, active, signals>>

Mains  == {"register", "loop", "backoff", "test", "asleep", "awake",
           "drain", "release", "locked", "close", "exited"}
States == {"IDLE", "RUNNING", "DRAINING", "STOPPED"}

Top == frames[Len(frames)]
SetTop(f) == [frames EXCEPT ![Len(frames)] = f]
Pop == SubSeq(frames, 1, Len(frames) - 1)
Frames == {"acquire", "held", "set", "setting"}

\* The main thread's own code runs only with no handler on its stack.
Running == frames = <<>>

Init ==
  /\ main = "register" /\ frames = <<>> /\ lock = FALSE /\ evlock = FALSE
  /\ state = "IDLE" /\ stop = FALSE /\ active = 0 /\ signals = 0

\* A signal arrives: _handle_sigterm is pushed on the main thread's stack.
Signal ==
  /\ main # "exited"
  /\ signals < MaxSignals
  /\ signals' = signals + 1
  /\ frames' = Append(frames, "acquire")
  /\ UNCHANGED <<main, lock, evlock, state, stop, active>>

\* with self._state_lock: blocks while the lock is held, and its holder is
\* this very thread, suspended beneath the handler.
HandlerAcquire ==
  /\ frames # <<>> /\ Top = "acquire"
  /\ ~lock
  /\ lock' = TRUE
  /\ frames' = SetTop("held")
  /\ UNCHANGED <<main, evlock, state, stop, active, signals>>

\* Inside the lock: a stopped worker returns at once, another one is marked
\* DRAINING and the lock released.
HandlerMark ==
  /\ frames # <<>> /\ Top = "held"
  /\ lock' = FALSE
  /\ state' = IF state = "STOPPED" THEN state ELSE "DRAINING"
  /\ frames' = IF state = "STOPPED" THEN Pop ELSE SetTop("set")
  /\ UNCHANGED <<main, evlock, stop, active, signals>>

\* _stop_event.set() takes the event's lock: it, too, blocks when the code
\* beneath the handler holds it ...
HandlerSets ==
  /\ frames # <<>> /\ Top = "set"
  /\ ~evlock
  /\ evlock' = TRUE
  /\ frames' = SetTop("setting")
  /\ UNCHANGED <<main, lock, state, stop, active, signals>>

\* Mutant: the stop event is never set.
HandlerForgetsStop ==
  /\ frames # <<>> /\ Top = "setting"
  /\ evlock' = FALSE
  /\ frames' = Pop
  /\ UNCHANGED <<main, lock, state, stop, active, signals>>

\* ... sets the flag, wakes whoever waits and releases the lock.
HandlerStop ==
  /\ frames # <<>> /\ Top = "setting"
  /\ stop' = TRUE
  /\ evlock' = FALSE
  /\ frames' = Pop
  /\ UNCHANGED <<main, lock, state, active, signals>>

\* _register, then _state = RUNNING with no lock: a drain that came first is
\* overwritten, the event is not.
Register ==
  /\ Running /\ main = "register"
  /\ main' = "loop"
  /\ state' = "RUNNING"
  /\ UNCHANGED <<frames, lock, evlock, stop, active, signals>>

\* One turn of the loop: leave it on stop; below the limit claim and start, or
\* back off when there is no work or the claim raises.
Loop ==
  /\ Running /\ main = "loop"
  /\ \/ stop /\ main' = "drain" /\ UNCHANGED active
     \/ /\ ~stop /\ active < Concurrency
        /\ \/ active' = active + 1 /\ UNCHANGED main
           \/ main' = "backoff" /\ UNCHANGED active
  /\ UNCHANGED <<frames, lock, evlock, state, stop, signals>>

\* _stop_event.wait(timeout): the flag is tested under the event's lock, ...
WaitEnters ==
  /\ Running /\ main = "backoff" /\ ~evlock
  /\ evlock' = TRUE
  /\ main' = "test"
  /\ UNCHANGED <<frames, lock, state, stop, active, signals>>

\* ... which is released, and slept upon when the flag is not set; ...
WaitTests ==
  /\ Running /\ main = "test"
  /\ evlock' = FALSE
  /\ main' = IF stop THEN "loop" ELSE "asleep"
  /\ UNCHANGED <<frames, lock, state, stop, active, signals>>

\* ... notified or timed out, wait takes the lock again before it returns.
WaitWakes ==
  /\ Running /\ main = "asleep" /\ ~evlock
  /\ evlock' = TRUE
  /\ main' = "awake"
  /\ UNCHANGED <<frames, lock, state, stop, active, signals>>

WaitReturns ==
  /\ Running /\ main = "awake"
  /\ evlock' = FALSE
  /\ main' = "loop"
  /\ UNCHANGED <<frames, lock, state, stop, active, signals>>

\* A job thread reaches the end of its finally block; it needs no lock.
JobEnds ==
  /\ active > 0
  /\ active' = active - 1
  /\ UNCHANGED <<main, frames, lock, evlock, state, stop, signals>>

\* _shutdown_gracefully: the wait ends, empty or at its deadline; what is
\* left is released; STOPPED is set under the lock; the store is closed.
EndWait ==
  /\ Running /\ main = "drain"
  /\ main' = "release"
  /\ UNCHANGED <<frames, lock, evlock, state, stop, active, signals>>

TakeLock ==
  /\ Running /\ main = "release" /\ ~lock
  /\ lock' = TRUE
  /\ main' = "locked"
  /\ UNCHANGED <<frames, evlock, state, stop, active, signals>>

SetStopped ==
  /\ Running /\ main = "locked"
  /\ state' = "STOPPED"
  /\ lock' = FALSE
  /\ main' = "close"
  /\ UNCHANGED <<frames, evlock, stop, active, signals>>

Close ==
  /\ Running /\ main = "close"
  /\ main' = "exited"
  /\ UNCHANGED <<frames, lock, evlock, state, stop, active, signals>>

MainThread ==
  \/ Register \/ Loop \/ WaitEnters \/ WaitTests \/ WaitWakes \/ WaitReturns
  \/ EndWait \/ TakeLock \/ SetStopped \/ Close
Handler == HandlerAcquire \/ HandlerMark \/ HandlerSets \/ HandlerStop

\* A worker whose main thread has returned and whose jobs are done.
Gone == main = "exited" /\ active = 0 /\ UNCHANGED vars

Next == Signal \/ Handler \/ MainThread \/ JobEnds \/ Gone

\* The main thread, handler included, is scheduled; jobs may never end.
Spec == Init /\ [][Next]_vars /\ WF_vars(Handler) /\ WF_vars(MainThread)

-----------------------------------------------------------------------------
\* Type invariant.
TypeOK ==
  /\ main \in Mains /\ state \in States
  /\ frames \in Seq(Frames) /\ Len(frames) <= MaxSignals
  /\ lock \in BOOLEAN /\ evlock \in BOOLEAN /\ stop \in BOOLEAN
  /\ active \in 0..Concurrency /\ signals \in 0..MaxSignals

\* A handler never waits for _state_lock while the code it interrupted holds
\* it: that thread can not release it, and the worker hangs until it is killed.
NoSelfDeadlock == (frames # <<>> /\ Top = "acquire") => ~lock

\* Nor for the event's lock.
NoEventDeadlock == (frames # <<>> /\ Top = "set") => ~evlock

\* What "signal-safe" means of _handle_sigterm: wherever a signal finds the main
\* thread, its handler does not wait for that thread.
NoHandlerDeadlock == NoSelfDeadlock /\ NoEventDeadlock

\* Where the main thread holds the event's lock, inside _stop_event.wait.
InWait == main \in {"test", "awake"}

\* A signalled worker comes to rest STOPPED, whatever state the signal finds
\* it in and however its jobs behave: the loop, its sleep in _stop_event.wait
\* and every step of the shutdown included, the moments when wait holds the
\* event's lock alone excepted.  (_handle_sigterm, run, _shutdown_gracefully)
SignalStops == (signals > 0 /\ ~InWait) ~> (main = "exited" /\ state = "STOPPED")
=============================================================================
