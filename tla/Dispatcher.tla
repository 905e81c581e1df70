----------------------------- MODULE Dispatcher ------------------------------
(****************************************************************************)
(* worker/job.go: a dispatcher goroutine hands the jobs of a buffered       *)
(* channel to worker goroutines, which announce themselves in a channel of  *)
(* job channels.                                                            *)
(*                                                                          *)
(* A buffered channel is a sequence.  A send on an unbuffered channel       *)
(* (JobChannel, Quit) is one action of both goroutines.  A worker stands    *)
(* for its JobChannel.                                                      *)
(****************************************************************************)
EXTENDS Integers, Sequences, FiniteSets, SequencesExt

CONSTANTS
  Job,
  Worker,      \* all workers registering in the WorkerPool
  Own,         \* those Run starts, which nobody can Stop: Run keeps no reference
  JobLength,   \* the capacity of the JobQueue
  Nil

ASSUME WorkerAssumption == Own \subseteq Worker /\ IsFiniteSet(Own) /\ Own # {}
ASSUME JobLengthAssumption == JobLength \in Nat \ {0}
ASSUME NilAssumption == Nil \notin Job \cup Worker

\* NewDispatcher(maxWorker): the capacity of WorkerPool
MaxWorker == Cardinality(Own)

VARIABLES
  jobQueue,              \* chan Job
  workerPool,            \* chan chan Job
  dpc, djob, dworker,    \* the dispatch goroutine and its two variables
  wpc, wjob,             \* per worker goroutine
  quitting,              \* per worker: a goroutine of Stop is sending on Quit
  accepted, started      \* history: jobs in the order they were queued, begun

queues     == <<jobQueue, workerPool>>
dispatcher == <<dpc, djob, dworker>>
workers    == <<wpc, wjob, quitting>>
history    == <<accepted, started>>
dvars      == <<queues, dispatcher, workers, history>>

DTypeOK ==
  /\ jobQueue \in Seq(Job) /\ Len(jobQueue) <= JobLength
  /\ workerPool \in Seq(Worker) /\ Len(workerPool) <= MaxWorker
  /\ dpc \in {"range", "pick", "send"}
  /\ djob \in Job \cup {Nil} /\ dworker \in Worker \cup {Nil}
  /\ wpc \in [Worker -> {"new", "register", "select", "proc", "stopped"}]
  /\ wjob \in [Worker -> Job \cup {Nil}]
  /\ quitting \in [Worker -> BOOLEAN]
  /\ accepted \in Seq(Job) /\ started \in Seq(Job)

\* NewDispatcher and Run
DInit ==
  /\ jobQueue = <<>> /\ workerPool = <<>>
  /\ dpc = "range" /\ djob = Nil /\ dworker = Nil
  /\ wpc = [w \in Worker |-> IF w \in Own THEN "register" ELSE "new"]
  /\ wjob = [w \in Worker |-> Nil]
  /\ quitting = [w \in Worker |-> FALSE]
  /\ accepted = <<>> /\ started = <<>>

------------------------------------------------------------------------------
(* The dispatch goroutine *)

\* jobQueue <- job, by whoever submits it
Enqueue(j) ==
  /\ Len(jobQueue) < JobLength
  /\ jobQueue' = Append(jobQueue, j)
  /\ accepted' = Append(accepted, j)
  /\ UNCHANGED <<workerPool, dispatcher, workers, started>>

\* for job := range JobQueue
DispatchRange ==
  /\ dpc = "range" /\ jobQueue # <<>>
  /\ djob' = Head(jobQueue)
  /\ jobQueue' = Tail(jobQueue)
  /\ dpc' = "pick"
  /\ UNCHANGED <<workerPool, dworker, workers, history>>

\* Mutant: with no free worker the job is dropped.
DispatchPickOrDrop ==
  /\ dpc = "pick"
  /\ IF workerPool = <<>>
     THEN dpc' = "range" /\ djob' = Nil /\ UNCHANGED <<dworker, workerPool>>
     ELSE /\ dworker' = Head(workerPool)
          /\ workerPool' = Tail(workerPool)
          /\ dpc' = "send"
          /\ UNCHANGED djob
  /\ UNCHANGED <<jobQueue, workers, history>>

\* jobChannel := <-dispatcher.WorkerPool
DispatchPick ==
  /\ dpc = "pick" /\ workerPool # <<>>
  /\ dworker' = Head(workerPool)
  /\ workerPool' = Tail(workerPool)
  /\ dpc' = "send"
  /\ UNCHANGED <<jobQueue, djob, workers, history>>

\* jobChannel <- job meets case job := <-worker.JobChannel
HandOver ==
  /\ dpc = "send" /\ wpc[dworker] = "select"
  /\ wpc' = [wpc EXCEPT ![dworker] = "proc"]
  /\ wjob' = [wjob EXCEPT ![dworker] = djob]
  /\ started' = Append(started, djob)
  /\ dpc' = "range" /\ djob' = Nil /\ dworker' = Nil
  /\ UNCHANGED <<queues, quitting, accepted>>

------------------------------------------------------------------------------
(* Workers *)

\* NewWorker(workerPool).Start(), by a user of the package
WorkerStart(w) ==
  /\ wpc[w] = "new"
  /\ wpc' = [wpc EXCEPT ![w] = "register"]
  /\ UNCHANGED <<queues, dispatcher, wjob, quitting, history>>

\* worker.WorkerPool <- worker.JobChannel
WorkerRegister(w) ==
  /\ wpc[w] = "register" /\ Len(workerPool) < MaxWorker
  /\ workerPool' = Append(workerPool, w)
  /\ wpc' = [wpc EXCEPT ![w] = "select"]
  /\ UNCHANGED <<jobQueue, dispatcher, wjob, quitting, history>>

\* Mutant: the worker announces itself once, before its loop.
WorkerProcOnce(w) ==
  /\ wpc[w] = "proc"
  /\ wpc' = [wpc EXCEPT ![w] = "select"]
  /\ wjob' = [wjob EXCEPT ![w] = Nil]
  /\ UNCHANGED <<queues, dispatcher, quitting, history>>

\* job.Proc(job.Data) returns
WorkerProc(w) ==
  /\ wpc[w] = "proc"
  /\ wpc' = [wpc EXCEPT ![w] = "register"]
  /\ wjob' = [wjob EXCEPT ![w] = Nil]
  /\ UNCHANGED <<queues, dispatcher, quitting, history>>

\* Stop; a worker that was stopped twice is left with a goroutine that waits.
WorkerStop(w) ==
  /\ w \notin Own /\ ~ quitting[w]
  /\ quitting' = [quitting EXCEPT ![w] = TRUE]
  /\ UNCHANGED <<queues, dispatcher, wpc, wjob, history>>

\* worker.Quit <- true meets case quit := <-worker.Quit.  The worker's channel
\* stays wherever it is.
WorkerQuit(w) ==
  /\ wpc[w] = "select" /\ quitting[w]
  /\ wpc' = [wpc EXCEPT ![w] = "stopped"]
  /\ UNCHANGED <<queues, dispatcher, wjob, quitting, history>>

------------------------------------------------------------------------------
DispatchStep == DispatchRange \/ DispatchPick \/ HandOver

WorkerStep(w) == WorkerRegister(w) \/ WorkerProc(w) \/ WorkerQuit(w)

DNext ==
  \/ DispatchStep
  \/ \E w \in Worker : WorkerStart(w) \/ WorkerStop(w) \/ WorkerStep(w)

------------------------------------------------------------------------------
(* Properties *)

Held == IF dpc = "range" THEN <<>> ELSE <<djob>>

\* Every queued job is begun at most once, in the order of the queue, and
\* until then it is in the queue or in the dispatcher's hands.
JobsInOrder == accepted = started \o Held \o jobQueue

Announced(w) ==
  Cardinality({i \in DOMAIN workerPool : workerPool[i] = w}) + (IF dworker = w THEN 1 ELSE 0)

\* A worker is announced exactly while it waits for a job, so that the
\* dispatcher never blocks on a busy worker while another is free.  A worker
\* that was stopped may stay announced for ever.
AnnouncedWhileWaiting ==
  \A w \in Worker :
    CASE wpc[w] = "select"  -> Announced(w) = 1
      [] wpc[w] = "stopped" -> Announced(w) <= 1
      [] OTHER              -> Announced(w) = 0

\* The dispatcher sends to a worker that no longer receives: dispatching has
\* ended for good.
Stuck == dpc = "send" /\ wpc[dworker] = "stopped"

\* A job never waits for anything but a busy worker: when there is none to pick,
\* those Run started are all at work or about to announce themselves, and the
\* channel has room for them; a worker that was picked receives, unless it is
\* one that a user of the package stopped.
NoDeadlock ==
  /\ dpc = "pick" /\ workerPool = <<>> => \A w \in Own : wpc[w] \in {"register", "proc"}
  /\ dpc = "send" => wpc[dworker] = "select" \/ (Stuck /\ dworker \notin Own)
==============================================================================
