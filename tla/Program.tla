------------------------------ MODULE Program -------------------------------
(***************************************************************************)
(* The life of a TProgram (lib/common/program): Execute starts the         *)
(* periodic flush of the log, which is a TPeriodicExecutor on the          *)
(* program's own pool, and the destructor stops it.  The workers and the   *)
(* references are those of PeriodicExecutor; the callback is               *)
(* TLogManager::Flush, which never asks to stop.                           *)
(*                                                                         *)
(* The main thread's phase:                                                *)
(*   boot      options, configuration, Initialize                          *)
(*   signals   SetupSignalHandlers has returned                            *)
(*   started   StartPeriodicFlush has returned                             *)
(*   running   Running_ is set, in Run                                     *)
(*   ran       Run has returned, the destructor has begun                  *)
(*   stopped   FlushExecutor_->Stop() has returned                         *)
(*   reset     FlushExecutor_ is reset                                     *)
(*   flushed   the final flush is done                                     *)
(*   gone      OnShutdown has flushed, the members are destroyed           *)
(*   thrown    an exception that nobody catches has ended the process      *)
(* or "elsewhere", if the executor is none of a program's.                 *)
(***************************************************************************)
EXTENDS PeriodicExecutor

VARIABLES
    phase,          \* where the main thread is
    running,        \* Running_
    lateFlushes     \* periodic flushes begun after the final one, up to 2

mainVars == <<phase, running>>

programVars == <<vars, phase, running, lateFlushes>>

Phases == {"elsewhere", "boot", "signals", "started", "running", "ran",
           "stopped", "reset", "flushed", "gone", "thrown"}

AfterFinalFlush == phase \in {"flushed", "gone"}

ProgramTypeOK ==
    /\ TypeOK
    /\ phase \in Phases
    /\ running \in BOOLEAN
    /\ lateFlushes \in 0..2

ProgramInit ==
    /\ Init
    /\ phase = "boot"
    /\ running = FALSE
    /\ lateFlushes = 0

Move(from, to) == phase = from /\ phase' = to

\* A step of the main thread that leaves the executor and the flags alone.
Quiet == UNCHANGED <<vars, running, lateFlushes>>

-----------------------------------------------------------------------------
(* Execute.                                                                *)

SetupSignalHandlers == Move("boot", "signals") /\ Quiet

\* An early return or an exception: no flush was started, FlushExecutor_ is
\* null and the destructor has nothing to stop.
ExecuteFails ==
    /\ Move("boot", "flushed")
    /\ DropExecutor
    /\ UNCHANGED <<running, lateFlushes>>

\* FlushExecutor_ is null: only Execute calls this, once.
StartPeriodicFlush ==
    /\ Move("signals", "started")
    /\ Start
    /\ UNCHANGED <<running, lateFlushes>>

SetRunning ==
    /\ Move("started", "running")
    /\ running' = TRUE
    /\ UNCHANGED <<vars, lateFlushes>>

\* Or throws, or a log call before it does: Execute catches it.
RunReturns ==
    /\ phase \in {"started", "running"} /\ phase' = "ran"
    /\ Quiet

\* A signal, or a call from another thread as in the tests.  One that comes
\* before SetRunning is forgotten.
OnInterrupt ==
    /\ phase \notin {"boot", "gone"}
    /\ running' = FALSE
    /\ UNCHANGED <<vars, phase, lateFlushes>>

-----------------------------------------------------------------------------
(* ~TProgram.                                                              *)

\* Faulty: the executor is dropped and never told to stop.
StopForgotten ==
    /\ Move("ran", "stopped")
    /\ Quiet

StopFlush ==
    /\ Move("ran", "stopped")
    /\ Stop
    /\ UNCHANGED <<running, lateFlushes>>

ResetFlush ==
    /\ Move("stopped", "reset")
    /\ DropExecutor
    /\ UNCHANGED <<running, lateFlushes>>

FinalFlush == Move("reset", "flushed") /\ Quiet

\* OnShutdown, then Invoker_ and ThreadPool_.
DestroyMembers ==
    /\ Move("flushed", "gone")
    /\ DropPool
    /\ UNCHANGED <<running, lateFlushes>>

\* A handler of the log throws out of ~TProgram, by its last flushes, out of
\* OnInterrupt, or out of OnFailure and with it out of Execute.
ThrowsOut ==
    /\ phase \notin {"elsewhere", "gone"}
    /\ phase' = "thrown"
    /\ Terminate
    /\ UNCHANGED <<running, lateFlushes>>

-----------------------------------------------------------------------------
(* The workers.                                                            *)

\* Flush returns, or throws with a handler.
Flusher(w) ==
    /\ \/ TakeTask(w) \/ Lock(w) \/ Check(w) \/ Call(w) \/ Wake(w)
       \/ \E result \in {"false", "throws"} : Return(w, result)
       \/ ScheduleNext(w) \/ Enqueue(w) \/ Release(w)
    /\ lateFlushes' = IF pc[w] = "call" /\ AfterFinalFlush /\ lateFlushes < 2
                        THEN lateFlushes + 1 ELSE lateFlushes
    /\ UNCHANGED mainVars

Main ==
    \/ SetupSignalHandlers \/ ExecuteFails \/ StartPeriodicFlush \/ SetRunning
    \/ RunReturns \/ StopFlush \/ ResetFlush \/ FinalFlush \/ DestroyMembers

Joined == PoolJoined /\ UNCHANGED <<mainVars, lateFlushes>>

ProgramNext ==
    /\ ~crashed
    /\ \/ \E w \in Workers : Flusher(w)
       \/ Main \/ OnInterrupt \/ ThrowsOut \/ Joined

ProgramSpec == ProgramInit /\ [][ProgramNext]_programVars

-----------------------------------------------------------------------------
(* An executor that may as well be anyone's: of a program, or of an owner  *)
(* who calls what he likes.                                                *)

EitherInit ==
    \/ ProgramInit
    \/ Init /\ phase = "elsewhere" /\ running = FALSE /\ lateFlushes = 0

EitherWorker(w) ==
    \/ phase # "elsewhere" /\ Flusher(w)
    \/ phase = "elsewhere" /\ WorkerStep(w) /\ UNCHANGED <<mainVars, lateFlushes>>

EitherNext ==
    /\ ~crashed
    /\ \/ \E w \in Workers : EitherWorker(w)
       \/ phase # "elsewhere" /\ (Main \/ OnInterrupt \/ ThrowsOut)
       \/ /\ phase = "elsewhere"
          /\ Start \/ Stop \/ DropExecutor \/ DropPool \/ Terminate
          /\ UNCHANGED <<mainVars, lateFlushes>>
       \/ Joined

\* Threads run, sleeps end, ~TThreadPool returns; Run need not return.
FairEither(w) ==
    ~crashed /\ (pc[w] # "idle" \/ pool = "alive") /\ EitherWorker(w)

FairEitherSpec ==
    /\ EitherInit /\ [][EitherNext]_programVars
    /\ \A w \in Workers : WF_programVars(FairEither(w))
    /\ WF_programVars(~crashed /\ Joined)

-----------------------------------------------------------------------------
(* Properties.                                                             *)

\* A program starts one chain, and has stopped it when it flushes for the last time:
\* what is then about to flush is all that still will.
MainInv ==
    phase # "elsewhere" =>
        /\ starts <= 1
        /\ phase \in {"boot", "signals"} => starts = 0
        /\ phase \in {"stopped", "reset", "flushed", "gone"} => stopFlag \/ starts = 0
        /\ lateFlushes > 0 /\ ~crashed =>
               AfterFinalFlush /\ \A w \in Workers : pc[w] # "call"

\* What PeriodicExecutor promises holds for the flush; it never runs twice at
\* the same time, and the program's destructor leaves room for one flush at
\* most after its own (periodic_executor.cpp:35-52, program.ipp:279-288).
OneFlushAtATime ==
    /\ ProgramTypeOK /\ MainInv
    /\ phase # "elsewhere" =>
          /\ Cardinality({w \in Workers : pc[w] = "callback"}) <= 1
          /\ lateFlushes <= 1

\* A process outlives its programs, if no exception ends it: the tests destroy one
\* after the other (program_test.cpp:115, 126, 138).
ProcessSurvives == crashed => phase = "thrown"

=============================================================================
