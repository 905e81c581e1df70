---------------------------- MODULE FeishuNotice -----------------------------
(****************************************************************************)
(* feishu/notice.go: notifications are sent by the caller, or queued for    *)
(* two workers of a Dispatcher and dropped when JobLength are waiting.      *)
(*                                                                          *)
(* A notification is one call of SendV2 or SendV3.  What `send' does with   *)
(* the HTTP API is one step of whoever runs it.                             *)
(****************************************************************************)
EXTENDS Dispatcher

VARIABLES
  spc,     \* per notification: where its call of SendV2/SendV3 is
  sent     \* per notification: how often `send' has run for it

vars == <<dvars, spc, sent>>

TypeOK ==
  /\ DTypeOK
  /\ spc \in [Job -> {"new", "sync", "select", "returned"}]
  /\ sent \in [Job -> 0..2]

Init ==
  /\ DInit
  /\ spc = [j \in Job |-> "new"]
  /\ sent = [j \in Job |-> 0]

Go(j, label) == spc[j] # label /\ spc' = [spc EXCEPT ![j] = label]

\* SendV2: `feishu.sync' is read on every call.  asyncSend begins by looking
\* whether the queue is full.
Send(j) ==
  /\ spc[j] = "new"
  /\ \/ Go(j, "sync")
     \/ Go(j, IF Len(jobQueue) = JobLength THEN "returned" ELSE "select")
  /\ UNCHANGED <<dvars, sent>>

\* send(webhook, title, text, at), by the caller
SendSync(j) ==
  /\ spc[j] = "sync"
  /\ Go(j, "returned")
  /\ sent' = [sent EXCEPT ![j] = @ + 1]
  /\ UNCHANGED dvars

\* Mutant: no default, the caller waits for room.
AsyncSelectBlocking(j) ==
  /\ spc[j] = "select"
  /\ Enqueue(j)
  /\ Go(j, "returned")
  /\ UNCHANGED sent

\* select { case jobQueue <- job: default: }
AsyncSelect(j) ==
  /\ spc[j] = "select"
  /\ IF Len(jobQueue) < JobLength THEN Enqueue(j) ELSE UNCHANGED dvars
  /\ Go(j, "returned")
  /\ UNCHANGED sent

\* The job's Proc is `send'.
WorkerSends(w) ==
  /\ WorkerProc(w)
  /\ sent' = [sent EXCEPT ![wjob[w]] = @ + 1]
  /\ UNCHANGED spc

Next ==
  \/ \E j \in Job : Send(j) \/ SendSync(j) \/ AsyncSelect(j)
  \/ DispatchStep /\ UNCHANGED <<spc, sent>>
  \/ \E w \in Worker :
       \/ WorkerSends(w)
       \/ /\ WorkerStart(w) \/ WorkerStop(w) \/ WorkerRegister(w) \/ WorkerQuit(w)
          /\ UNCHANGED <<spc, sent>>

Spec ==
  /\ Init /\ [][Next]_vars
  /\ \A j \in Job : WF_vars(SendSync(j)) /\ WF_vars(AsyncSelect(j))
  /\ WF_vars(DispatchStep /\ UNCHANGED <<spc, sent>>)
  /\ \A w \in Worker :
       WF_vars(WorkerSends(w)) /\ WF_vars(WorkerRegister(w) /\ UNCHANGED <<spc, sent>>)

------------------------------------------------------------------------------
(* Properties *)

\* A notification is sent at most once, by its caller or by a worker, and
\* never both queued and sent by the caller.
SentOnce ==
  \A j \in Job :
    /\ sent[j] <= 1
    /\ sent[j] = 1 /\ Contains(accepted, j) => Contains(started, j)

\* The notifications that wait: the dispatcher may hold one.
Waiting == Held \o jobQueue

Begun(j) == \E w \in Worker : wjob[w] = j

\* What has become of a notification
Fate(j) ==
  IF sent[j] > 0 THEN "sent"
  ELSE IF Contains(Waiting, j) THEN "waiting"
  ELSE IF Begun(j) THEN "begun"
  ELSE CASE spc[j] = "new"    -> "new"
         [] spc[j] = "sync"   -> "direct"
         [] spc[j] = "select" -> "offered"
         [] OTHER             -> "dropped"

O == INSTANCE Outbox
       WITH Room <- JobLength, outbox <- Waiting, fate <- [j \in Job |-> Fate(j)], times <- sent

\* The notifier with its dispatcher and workers is a bounded FIFO outbox: a
\* notification that is not sent by its caller is sent at most once, after
\* those queued before it were begun, or dropped for want of room; between the
\* queue, the dispatcher's variable and a worker's, none is ever lost or doubled.
BoundedOutbox == O!Spec

\* Callers never wait for Feishu's queue: every call returns, even after the
\* dispatcher got stuck on a stopped worker.
CallersReturn == \A j \in Job : spc[j] # "new" ~> spc[j] = "returned"

\* A queued notification is sent, unless the dispatcher is stuck.
EventuallySent ==
  \A j \in Job : Contains(accepted, j) ~> (sent[j] = 1 \/ Stuck)
==============================================================================
