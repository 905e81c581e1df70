-------------------------- MODULE DispatcherProofs ---------------------------
(****************************************************************************)
(* worker/job.go used by feishu/notice.go, for any set of notifications and *)
(* of workers, and any capacity of the job queue: jobs are begun in the     *)
(* order of the queue, a worker is announced only while it waits, and       *)
(* nothing is sent twice.                                                   *)
(****************************************************************************)
EXTENDS FeishuNotice, FiniteSetTheorems, SequenceTheorems, TLAPS

------------------------------------------------------------------------------
(* The inductive invariant *)

\* The types, but the bound on sent, which is a consequence of SentOnce.
NoticeTypes ==
  /\ DTypeOK
  /\ spc \in [Job -> {"new", "sync", "select", "returned"}]
  /\ sent \in [Job -> Nat]

\* The dispatcher and the workers have a job exactly while they need one.
SlotInv ==
  /\ djob = Nil <=> dpc = "range"
  /\ dworker = Nil <=> dpc # "send"
  /\ \A w \in Worker : wjob[w] = Nil <=> wpc[w] # "proc"

InPool(w) == \E i \in DOMAIN workerPool : workerPool[i] = w

\* A worker is in the pool or in the dispatcher's hands, once, if it waits.
PoolInv ==
  /\ \A i, k \in DOMAIN workerPool : workerPool[i] = workerPool[k] => i = k
  /\ ~ InPool(dworker)
  /\ \A w \in Worker :
       /\ InPool(w) \/ dworker = w => wpc[w] \in {"select", "stopped"}
       /\ wpc[w] = "select" => InPool(w) \/ dworker = w

\* A job is queued once, by a call that then returns, and is worked on once.
OnceInv ==
  /\ \A i, k \in DOMAIN accepted : accepted[i] = accepted[k] => i = k
  /\ \A j \in Job :
       /\ Contains(accepted, j) => spc[j] = "returned"
       /\ spc[j] # "returned" => sent[j] = 0
       /\ sent[j] <= 1
       /\ sent[j] = 1 /\ Contains(accepted, j) => Contains(started, j)
  /\ \A w \in Worker : wjob[w] # Nil => sent[wjob[w]] = 0 /\ Contains(started, wjob[w])
  /\ \A v, w \in Worker : wjob[v] = wjob[w] /\ wjob[v] # Nil => v = w

NoticeInv == NoticeTypes /\ SlotInv /\ PoolInv /\ JobsInOrder /\ OnceInv

------------------------------------------------------------------------------
(* Sequences *)

LEMMA FirstAndRest ==
  ASSUME NEW S, NEW s \in Seq(S), s # <<>>
  PROVE  s = <<Head(s)>> \o Tail(s) /\ Head(s) \in S /\ Tail(s) \in Seq(S)
<1>1. Head(s) \in S /\ Tail(s) \in Seq(S) /\ Len(Tail(s)) = Len(s) - 1 /\ <<Head(s)>> \in Seq(S)
      /\ Len(<<Head(s)>>) = 1 /\ <<Head(s)>>[1] = s[1] /\ Len(s) \in Nat /\ Len(s) >= 1
  OBVIOUS
<1>2. \A i \in 1..Len(Tail(s)) : Tail(s)[i] = s[i + 1]
  BY HeadTailProperties
<1>3. /\ <<Head(s)>> \o Tail(s) \in Seq(S)
      /\ Len(<<Head(s)>> \o Tail(s)) = 1 + Len(Tail(s))
      /\ \A i \in 1..1 + Len(Tail(s)) :
           (<<Head(s)>> \o Tail(s))[i] = IF i <= 1 THEN <<Head(s)>>[i] ELSE Tail(s)[i - 1]
  BY <1>1, ConcatProperties
<1>4. \A i \in 1..Len(s) : s[i] = (<<Head(s)>> \o Tail(s))[i]
  <2> SUFFICES ASSUME NEW i \in 1..Len(s) PROVE s[i] = (<<Head(s)>> \o Tail(s))[i]
    OBVIOUS
  <2>1. CASE i = 1
    BY <1>1, <1>3, <2>1
  <2>2. CASE i # 1
    <3>1. i - 1 \in 1..Len(Tail(s))
      BY <1>1, <2>2
    <3> QED
      BY <1>1, <1>2, <1>3, <2>2, <3>1
  <2> QED
    BY <2>1, <2>2
<1> QED
  BY <1>1, <1>3, <1>4, SeqEqual

LEMMA AppendOfConcat ==
  ASSUME NEW s \in Seq(Job), NEW t \in Seq(Job), NEW x \in Job
  PROVE  Append(s \o t, x) = s \o Append(t, x)
<1>1. /\ s \o t \in Seq(Job) /\ Len(s \o t) = Len(s) + Len(t)
      /\ \A i \in 1..Len(s) + Len(t) : (s \o t)[i] = IF i <= Len(s) THEN s[i] ELSE t[i - Len(s)]
  BY ConcatProperties
<1>2. Append(t, x) \in Seq(Job) /\ Len(Append(t, x)) = Len(t) + 1
      /\ \A i \in 1..Len(t) + 1 : Append(t, x)[i] = IF i = Len(t) + 1 THEN x ELSE t[i]
  BY AppendProperties
<1>3. /\ s \o Append(t, x) \in Seq(Job) /\ Len(s \o Append(t, x)) = Len(s) + Len(t) + 1
      /\ \A i \in 1..Len(s) + Len(t) + 1 :
           (s \o Append(t, x))[i] = IF i <= Len(s) THEN s[i] ELSE Append(t, x)[i - Len(s)]
  <2>1. Len(s) + Len(Append(t, x)) = Len(s) + Len(t) + 1
    BY <1>2
  <2> QED
    BY <1>2, <2>1, ConcatProperties
<1>4. /\ Append(s \o t, x) \in Seq(Job) /\ Len(Append(s \o t, x)) = Len(s) + Len(t) + 1
      /\ \A i \in 1..Len(s) + Len(t) : Append(s \o t, x)[i] = (s \o t)[i]
      /\ Append(s \o t, x)[Len(s) + Len(t) + 1] = x
  BY <1>1, AppendProperties
<1>5. \A i \in 1..Len(s) + Len(t) + 1 : Append(s \o t, x)[i] = (s \o Append(t, x))[i]
  <2> SUFFICES ASSUME NEW i \in 1..Len(s) + Len(t) + 1
               PROVE  Append(s \o t, x)[i] = (s \o Append(t, x))[i]
    OBVIOUS
  <2>1. Len(s) \in Nat /\ Len(t) \in Nat
    OBVIOUS
  <2>2. (s \o Append(t, x))[i] = IF i <= Len(s) THEN s[i] ELSE Append(t, x)[i - Len(s)]
    BY <1>3
  <2>3. CASE i = Len(s) + Len(t) + 1
    BY <1>2, <1>4, <2>1, <2>2, <2>3
  <2>4. CASE i # Len(s) + Len(t) + 1
    <3>1. Append(s \o t, x)[i] = IF i <= Len(s) THEN s[i] ELSE t[i - Len(s)]
      BY <1>1, <1>4, <2>1, <2>4
    <3>2. i > Len(s) => Append(t, x)[i - Len(s)] = t[i - Len(s)]
      BY <1>2, <2>1, <2>4
    <3> QED
      BY <2>1, <2>2, <3>1, <3>2
  <2> QED
    BY <2>3, <2>4
<1> QED
  BY <1>3, <1>4, <1>5, SeqEqual

\* Who is in a sequence that has grown.
LEMMA ContainsAppend ==
  ASSUME NEW S, NEW s \in Seq(S), NEW x \in S, NEW y
  PROVE  Contains(Append(s, x), y) <=> Contains(s, y) \/ x = y
<1>1. /\ Len(Append(s, x)) = Len(s) + 1 /\ Len(s) \in Nat
      /\ \A i \in 1..Len(s) : Append(s, x)[i] = s[i]
      /\ Append(s, x)[Len(s) + 1] = x
  BY AppendProperties, LenProperties
<1>2. 1..Len(s) + 1 = 1..Len(s) \cup {Len(s) + 1}
  BY <1>1
<1> QED
  BY <1>1, <1>2 DEF Contains

\* The three parts of the history.
LEMMA HistoryParts ==
  ASSUME NoticeTypes, SlotInv, JobsInOrder
  PROVE  /\ Held \in Seq(Job)
         /\ \A j \in Job : Contains(started, j) => Contains(accepted, j)
         /\ dpc # "range" =>
              /\ djob \in Job /\ Contains(accepted, djob)
              /\ OnceInv => ~ Contains(started, djob)
<1>1. started \in Seq(Job) /\ accepted \in Seq(Job) /\ jobQueue \in Seq(Job)
  BY DEF NoticeTypes, DTypeOK
<1>2. dpc # "range" => djob \in Job
  BY DEF NoticeTypes, DTypeOK, SlotInv
<1>3. Held \in Seq(Job)
  BY <1>2 DEF Held
<1>4. /\ started \o Held \in Seq(Job) /\ Len(started \o Held) = Len(started) + Len(Held)
      /\ \A i \in 1..Len(started) + Len(Held) :
           (started \o Held)[i] = IF i <= Len(started) THEN started[i] ELSE Held[i - Len(started)]
  BY <1>1, <1>3, ConcatProperties
<1>5. /\ Len(accepted) = Len(started) + Len(Held) + Len(jobQueue)
      /\ \A i \in 1..Len(started) + Len(Held) : accepted[i] = (started \o Held)[i]
      /\ Len(started) \in Nat /\ Len(Held) \in Nat /\ Len(jobQueue) \in Nat
  <2>1. accepted = (started \o Held) \o jobQueue
    BY DEF JobsInOrder
  <2>2. Len(started) \in Nat /\ Len(Held) \in Nat /\ Len(jobQueue) \in Nat
    BY <1>1, <1>3
  <2>3. /\ Len(accepted) = Len(started \o Held) + Len(jobQueue)
        /\ \A i \in 1..Len(started \o Held) + Len(jobQueue) :
             accepted[i] = IF i <= Len(started \o Held) THEN (started \o Held)[i]
                           ELSE jobQueue[i - Len(started \o Held)]
    BY <1>1, <1>4, <2>1, ConcatProperties
  <2>4. Len(accepted) = Len(started) + Len(Held) + Len(jobQueue)
    BY <1>4, <2>2, <2>3
  <2>5. \A i \in 1..Len(started) + Len(Held) : accepted[i] = (started \o Held)[i]
    BY <1>4, <2>2, <2>3
  <2> QED
    BY <2>2, <2>4, <2>5
<1>6. \A i \in 1..Len(started) : i \in 1..Len(accepted) /\ accepted[i] = started[i]
  BY <1>4, <1>5
<1>7. ASSUME dpc # "range"
      PROVE  Len(started) + 1 \in 1..Len(accepted) /\ accepted[Len(started) + 1] = djob
  <2>1. Held = <<djob>> /\ Len(Held) = 1 /\ Held[1] = djob
    BY <1>7 DEF Held
  <2>2. Len(started) + 1 \in 1..Len(started) + Len(Held)
    BY <1>5, <2>1
  <2>3. accepted[Len(started) + 1] = Held[Len(started) + 1 - Len(started)]
    BY <1>4, <1>5, <2>2
  <2> QED
    BY <1>5, <2>1, <2>2, <2>3
<1>8. ASSUME dpc # "range", OnceInv PROVE ~ Contains(started, djob)
  <2> SUFFICES ASSUME NEW i \in 1..Len(started), started[i] = djob PROVE FALSE
    BY DEF Contains
  <2>1. i \in 1..Len(accepted) /\ accepted[i] = djob
    BY <1>6
  <2>2. DOMAIN accepted = 1..Len(accepted)
    BY <1>1
  <2>3. i = Len(started) + 1
    BY <1>7, <1>8, <2>1, <2>2 DEF OnceInv
  <2> QED
    BY <1>5, <2>3
<1> QED
  BY <1>2, <1>3, <1>6, <1>7, <1>8 DEF Contains

------------------------------------------------------------------------------
(* The initial state *)

LEMMA NoticeInitInv == Init => NoticeInv
<1> SUFFICES ASSUME Init PROVE NoticeInv
  OBVIOUS
<1> USE DEF Init, DInit
<1>1. NoticeTypes
  <2>1. Len(workerPool) <= MaxWorker
    BY WorkerAssumption, FS_CardinalityType DEF MaxWorker
  <2>2. quitting \in [Worker -> BOOLEAN]
    BY Zenon
  <2>3. wpc \in [Worker -> {"new", "register", "select", "proc", "stopped"}]
    OBVIOUS
  <2> QED
    BY <2>1, <2>2, <2>3, JobLengthAssumption DEF NoticeTypes, DTypeOK
<1>2. SlotInv
  BY DEF SlotInv
<1>3. PoolInv
  <2>1. DOMAIN workerPool = {} /\ dworker \notin Worker
    BY NilAssumption
  <2> QED
    BY <2>1 DEF PoolInv, InPool
<1>4. JobsInOrder
  BY ConcatEmptySeq DEF JobsInOrder, Held
<1>5. OnceInv
  BY DEF OnceInv, Contains
<1> QED
  BY <1>1, <1>2, <1>3, <1>4, <1>5 DEF NoticeInv

------------------------------------------------------------------------------
(* Calls of SendV2 and SendV3 *)

LEMMA SendInv ==
  ASSUME NoticeInv, NEW j \in Job, Send(j)
  PROVE  NoticeInv'
<1>1. /\ UNCHANGED <<dvars, sent>> /\ spc[j] = "new"
      /\ \E label \in {"sync", "returned", "select"} : spc' = [spc EXCEPT ![j] = label]
  BY DEF Send, Go
<1> USE DEF dvars, queues, dispatcher, workers, history
<1>2. NoticeTypes'
  BY <1>1 DEF NoticeInv, NoticeTypes, DTypeOK
<1>3. SlotInv' /\ PoolInv' /\ JobsInOrder'
  BY <1>1 DEF NoticeInv, SlotInv, PoolInv, InPool, JobsInOrder, Held
<1>4. OnceInv'
  BY <1>1 DEF NoticeInv, NoticeTypes, OnceInv
<1> QED
  BY <1>2, <1>3, <1>4 DEF NoticeInv

\* The caller's own send: the job was not queued, so no worker has it.
LEMMA SendSyncInv ==
  ASSUME NoticeInv, NEW j \in Job, SendSync(j)
  PROVE  NoticeInv'
<1>1. /\ UNCHANGED dvars /\ spc[j] = "sync"
      /\ spc' = [spc EXCEPT ![j] = "returned"] /\ sent' = [sent EXCEPT ![j] = @ + 1]
  BY DEF SendSync, Go
<1> USE DEF dvars, queues, dispatcher, workers, history
<1>2. NoticeTypes'
  BY <1>1 DEF NoticeInv, NoticeTypes, DTypeOK
<1>3. SlotInv' /\ PoolInv' /\ JobsInOrder'
  BY <1>1 DEF NoticeInv, SlotInv, PoolInv, InPool, JobsInOrder, Held
<1>4. ~ Contains(accepted, j) /\ ~ Contains(started, j) /\ sent[j] = 0
  BY <1>1, HistoryParts DEF NoticeInv, OnceInv
<1>5. sent'[j] = 1 /\ spc'[j] = "returned"
      /\ \A k \in Job \ {j} : sent'[k] = sent[k] /\ spc'[k] = spc[k]
  BY <1>1, <1>4 DEF NoticeInv, NoticeTypes
<1>6. \A w \in Worker : wjob[w] # Nil => wjob[w] \in Job \ {j}
  BY <1>4 DEF NoticeInv, NoticeTypes, DTypeOK, OnceInv
<1>7. OnceInv'
  BY <1>1, <1>4, <1>5, <1>6 DEF NoticeInv, OnceInv
<1> QED
  BY <1>2, <1>3, <1>7 DEF NoticeInv

LEMMA AsyncSelectInv ==
  ASSUME NoticeInv, NEW j \in Job, AsyncSelect(j)
  PROVE  NoticeInv'
<1>1. spc[j] = "select" /\ spc' = [spc EXCEPT ![j] = "returned"] /\ UNCHANGED sent
  BY DEF AsyncSelect, Go
<1> USE DEF dvars, queues, dispatcher, workers, history
<1>2. CASE Len(jobQueue) < JobLength
  <2>1. /\ jobQueue' = Append(jobQueue, j) /\ accepted' = Append(accepted, j)
        /\ UNCHANGED <<workerPool, dispatcher, workers, started>>
    BY <1>2 DEF AsyncSelect, Enqueue
  <2>2. NoticeTypes'
    BY <1>1, <1>2, <2>1, JobLengthAssumption DEF NoticeInv, NoticeTypes, DTypeOK
  <2>3. SlotInv' /\ PoolInv'
    BY <2>1 DEF NoticeInv, SlotInv, PoolInv, InPool
  <2>4. JobsInOrder'
    <3>1. /\ started \o Held \in Seq(Job) /\ jobQueue \in Seq(Job)
          /\ accepted = (started \o Held) \o jobQueue /\ started' = started /\ Held' = Held
      BY <2>1, HistoryParts, ConcatProperties DEF NoticeInv, NoticeTypes, DTypeOK, JobsInOrder, Held
    <3>2. Append((started \o Held) \o jobQueue, j) = (started \o Held) \o Append(jobQueue, j)
      BY <3>1, AppendOfConcat, Zenon
    <3>3. accepted' = (started' \o Held') \o jobQueue'
      BY <2>1, <3>1, <3>2, Zenon
    <3> QED
      BY <3>3 DEF JobsInOrder
  <2>5. OnceInv'
    <3>1. accepted \in Seq(Job) /\ ~ Contains(accepted, j) /\ ~ Contains(started, j) /\ sent[j] = 0
      BY <1>1, HistoryParts DEF NoticeInv, NoticeTypes, DTypeOK, OnceInv
    <3>2. \A k \in Job : Contains(accepted', k) <=> Contains(accepted, k) \/ k = j
      BY <2>1, <3>1, ContainsAppend
    <3>3. \A i, k \in DOMAIN accepted' : accepted'[i] = accepted'[k] => i = k
      <4>1. \A i \in DOMAIN accepted' :
              \/ i \in DOMAIN accepted /\ accepted'[i] = accepted[i]
              \/ i = Len(accepted) + 1 /\ accepted'[i] = j
        BY <2>1, <3>1
      <4>2. \A i \in DOMAIN accepted : accepted[i] # j
        BY <3>1 DEF Contains
      <4> QED
        BY <4>1, <4>2 DEF NoticeInv, OnceInv
    <3>4. spc'[j] = "returned" /\ \A k \in Job \ {j} : spc'[k] = spc[k]
      BY <1>1 DEF NoticeInv, NoticeTypes
    <3> QED
      BY <1>1, <2>1, <3>1, <3>2, <3>3, <3>4 DEF NoticeInv, OnceInv
  <2> QED
    BY <2>2, <2>3, <2>4, <2>5 DEF NoticeInv
<1>3. CASE ~ Len(jobQueue) < JobLength
  <2>1. UNCHANGED dvars
    BY <1>3 DEF AsyncSelect
  <2>2. NoticeTypes'
    BY <1>1, <2>1 DEF NoticeInv, NoticeTypes, DTypeOK
  <2>3. SlotInv' /\ PoolInv' /\ JobsInOrder'
    BY <2>1 DEF NoticeInv, SlotInv, PoolInv, InPool, JobsInOrder, Held
  <2>4. OnceInv'
    BY <1>1, <2>1 DEF NoticeInv, NoticeTypes, OnceInv
  <2> QED
    BY <2>2, <2>3, <2>4 DEF NoticeInv
<1> QED
  BY <1>2, <1>3

------------------------------------------------------------------------------
(* The dispatcher *)

LEMMA DispatchRangeInv ==
  ASSUME NoticeInv, DispatchRange, UNCHANGED <<spc, sent>>
  PROVE  NoticeInv'
<1>1. /\ dpc = "range" /\ jobQueue # <<>> /\ dpc' = "pick"
      /\ djob' = Head(jobQueue) /\ jobQueue' = Tail(jobQueue)
      /\ UNCHANGED <<workerPool, dworker, wpc, wjob, quitting, accepted, started, spc, sent>>
  BY DEF DispatchRange, workers, history
<1>2. /\ jobQueue \in Seq(Job) /\ started \in Seq(Job)
      /\ jobQueue = <<djob'>> \o jobQueue' /\ djob' \in Job /\ jobQueue' \in Seq(Job)
      /\ Len(jobQueue') = Len(jobQueue) - 1
  <2>1. jobQueue \in Seq(Job) /\ started \in Seq(Job)
    BY DEF NoticeInv, NoticeTypes, DTypeOK
  <2>2. jobQueue = <<Head(jobQueue)>> \o Tail(jobQueue) /\ Head(jobQueue) \in Job /\ Tail(jobQueue) \in Seq(Job)
    BY <1>1, <2>1, FirstAndRest
  <2>3. Len(Tail(jobQueue)) = Len(jobQueue) - 1
    BY <1>1, <2>1
  <2> QED
    BY <1>1, <2>1, <2>2, <2>3
<1>3. NoticeTypes'
  BY <1>1, <1>2, JobLengthAssumption DEF NoticeInv, NoticeTypes, DTypeOK
<1>4. SlotInv' /\ PoolInv'
  BY <1>1, <1>2, NilAssumption DEF NoticeInv, SlotInv, PoolInv, InPool
<1>5. JobsInOrder'
  <2>1. Held = <<>> /\ Held' = <<djob'>>
    BY <1>1 DEF Held
  <2>2. started \o <<>> = started
    BY <1>2, ConcatEmptySeq
  <2>3. accepted = started \o jobQueue
    BY <2>1, <2>2 DEF NoticeInv, JobsInOrder
  <2>4. (started \o <<djob'>>) \o jobQueue' = started \o (<<djob'>> \o jobQueue')
    <3>1. <<djob'>> \in Seq(Job)
      BY <1>2
    <3> QED
      BY <1>2, <3>1, ConcatAssociative
  <2>5. started' = started /\ accepted' = accepted
    BY <1>1
  <2>6. accepted' = (started' \o Held') \o jobQueue'
    BY <1>2, <2>1, <2>3, <2>4, <2>5, Zenon
  <2> QED
    BY <2>6 DEF JobsInOrder
<1>6. OnceInv'
  BY <1>1 DEF NoticeInv, OnceInv
<1> QED
  BY <1>3, <1>4, <1>5, <1>6 DEF NoticeInv

LEMMA DispatchPickInv ==
  ASSUME NoticeInv, DispatchPick, UNCHANGED <<spc, sent>>
  PROVE  NoticeInv'
<1>1. /\ dpc = "pick" /\ workerPool # <<>> /\ dpc' = "send"
      /\ dworker' = Head(workerPool) /\ workerPool' = Tail(workerPool)
      /\ UNCHANGED <<jobQueue, djob, wpc, wjob, quitting, accepted, started, spc, sent>>
  BY DEF DispatchPick, workers, history
<1>2. /\ workerPool \in Seq(Worker) /\ workerPool' \in Seq(Worker)
      /\ dworker' \in Worker /\ dworker' = workerPool[1] /\ 1 \in DOMAIN workerPool
      /\ Len(workerPool') = Len(workerPool) - 1 /\ Len(workerPool) <= MaxWorker
      /\ \A i \in DOMAIN workerPool' :
           i \in Nat /\ i + 1 \in DOMAIN workerPool /\ i + 1 # 1 /\ workerPool'[i] = workerPool[i + 1]
  <2>1. workerPool \in Seq(Worker) /\ Len(workerPool) <= MaxWorker
    BY DEF NoticeInv, NoticeTypes, DTypeOK
  <2> QED
    BY <1>1, <2>1
<1>3. NoticeTypes'
  BY <1>1, <1>2, WorkerAssumption, FS_CardinalityType DEF NoticeInv, NoticeTypes, DTypeOK, MaxWorker
<1>4. SlotInv'
  BY <1>1, <1>2, NilAssumption DEF NoticeInv, SlotInv
<1>5. PoolInv'
  <2>1. dworker = Nil /\ \A w \in Worker : w # Nil
    BY <1>1, NilAssumption DEF NoticeInv, SlotInv
  <2>2. \A i, k \in DOMAIN workerPool' : workerPool'[i] = workerPool'[k] => i = k
    <3> SUFFICES ASSUME NEW i \in DOMAIN workerPool', NEW k \in DOMAIN workerPool',
                        workerPool'[i] = workerPool'[k]
                 PROVE  i = k
      OBVIOUS
    <3>1. i + 1 = k + 1
      BY <1>2 DEF NoticeInv, PoolInv
    <3> QED
      BY <1>2, <3>1
  <2>3. ~ InPool(dworker)'
    BY <1>2 DEF NoticeInv, PoolInv, InPool
  <2>4. \A w \in Worker : InPool(w)' \/ dworker' = w => InPool(w)
    BY <1>2 DEF InPool
  <2>5. ASSUME NEW w \in Worker, InPool(w) PROVE InPool(w)' \/ dworker' = w
    <3>1. PICK i \in DOMAIN workerPool : workerPool[i] = w
      BY <2>5 DEF InPool
    <3>2. CASE i = 1
      BY <1>2, <3>1, <3>2
    <3>3. CASE i # 1
      <4>1. i - 1 \in DOMAIN workerPool' /\ workerPool'[i - 1] = w
        BY <1>1, <1>2, <3>1, <3>3
      <4> QED
        BY <4>1 DEF InPool
    <3> QED
      BY <3>2, <3>3
  <2> QED
    BY <1>1, <2>1, <2>2, <2>3, <2>4, <2>5 DEF NoticeInv, PoolInv
<1>6. JobsInOrder' /\ OnceInv'
  BY <1>1 DEF NoticeInv, JobsInOrder, Held, OnceInv
<1> QED
  BY <1>3, <1>4, <1>5, <1>6 DEF NoticeInv

\* A job that is handed over was not begun before.
LEMMA HandOverInv ==
  ASSUME NoticeInv, HandOver, UNCHANGED <<spc, sent>>
  PROVE  NoticeInv'
<1>1. /\ dpc = "send" /\ wpc[dworker] = "select"
      /\ wpc' = [wpc EXCEPT ![dworker] = "proc"] /\ wjob' = [wjob EXCEPT ![dworker] = djob]
      /\ started' = Append(started, djob)
      /\ dpc' = "range" /\ djob' = Nil /\ dworker' = Nil
      /\ UNCHANGED <<jobQueue, workerPool, quitting, accepted, spc, sent>>
  BY DEF HandOver, queues
<1>2. /\ djob \in Job /\ dworker \in Worker /\ djob # Nil /\ started \in Seq(Job) /\ jobQueue \in Seq(Job)
      /\ Contains(accepted, djob) /\ ~ Contains(started, djob)
      /\ \A j \in Job : Contains(started, j) => Contains(accepted, j)
  <2>1. djob # Nil /\ dworker # Nil /\ djob \in Job /\ dworker \in Worker
    BY <1>1 DEF NoticeInv, SlotInv, NoticeTypes, DTypeOK
  <2>2. started \in Seq(Job) /\ jobQueue \in Seq(Job)
    BY DEF NoticeInv, NoticeTypes, DTypeOK
  <2> QED
    BY <1>1, <2>1, <2>2, HistoryParts DEF NoticeInv
<1>3. NoticeTypes'
  BY <1>1, <1>2 DEF NoticeInv, NoticeTypes, DTypeOK
<1>4. SlotInv'
  BY <1>1, <1>2 DEF NoticeInv, NoticeTypes, DTypeOK, SlotInv
<1>5. PoolInv'
  <2>1. ~ InPool(Nil)
    BY NilAssumption DEF NoticeInv, NoticeTypes, DTypeOK, InPool
  <2>2. ~ InPool(dworker) /\ dworker # Nil
    BY <1>2, NilAssumption DEF NoticeInv, PoolInv
  <2>3. \A w \in Worker : w # dworker => wpc'[w] = wpc[w]
    BY <1>1 DEF NoticeInv, NoticeTypes, DTypeOK
  <2>4. wpc'[dworker] = "proc"
    BY <1>1, <1>2 DEF NoticeInv, NoticeTypes, DTypeOK
  <2>5. \A w \in Worker : InPool(w)' = InPool(w) /\ w # Nil
    BY <1>1, NilAssumption DEF InPool
  <2>6. ~ InPool(dworker)'
    BY <1>1, <2>1 DEF InPool
  <2>7. \A i, k \in DOMAIN workerPool' : workerPool'[i] = workerPool'[k] => i = k
    BY <1>1 DEF NoticeInv, PoolInv
  <2>8. ASSUME NEW w \in Worker
        PROVE  /\ InPool(w)' \/ dworker' = w => wpc'[w] \in {"select", "stopped"}
               /\ wpc'[w] = "select" => InPool(w)' \/ dworker' = w
    <3>1. CASE w = dworker
      BY <1>1, <2>2, <2>4, <2>5, <3>1
    <3>2. CASE w # dworker
      BY <1>1, <2>3, <2>5, <3>2 DEF NoticeInv, PoolInv
    <3> QED
      BY <3>1, <3>2
  <2> QED
    BY <2>6, <2>7, <2>8 DEF PoolInv
<1>6. JobsInOrder'
  <2>1. Held = <<djob>> /\ Held' = <<>> /\ started' \in Seq(Job)
    BY <1>1, <1>2 DEF Held
  <2>2. started' = started \o <<djob>>
    BY <1>1, <1>2, AppendIsConcat
  <2>3. started' \o <<>> = started'
    BY <2>1, ConcatEmptySeq
  <2>4. accepted = (started \o Held) \o jobQueue
    BY DEF NoticeInv, JobsInOrder
  <2>5. accepted' = accepted /\ jobQueue' = jobQueue
    BY <1>1
  <2>6. accepted' = (started' \o Held') \o jobQueue'
    BY <2>1, <2>2, <2>3, <2>4, <2>5, Zenon
  <2> QED
    BY <2>6 DEF JobsInOrder
<1>7. OnceInv'
  <2>1. \A j \in Job : Contains(started', j) <=> Contains(started, j) \/ djob = j
    BY <1>1, <1>2, ContainsAppend
  <2>2. \A w \in Worker : wjob'[w] = IF w = dworker THEN djob ELSE wjob[w]
    BY <1>1 DEF NoticeInv, NoticeTypes, DTypeOK
  <2>3. sent[djob] = 0
    BY <1>2 DEF NoticeInv, NoticeTypes, OnceInv
  <2>4. \A w \in Worker : wjob[w] # djob
    BY <1>2 DEF NoticeInv, OnceInv
  <2>5. \A w \in Worker : wjob'[w] # Nil => sent[wjob'[w]] = 0 /\ Contains(started', wjob'[w])
    <3> SUFFICES ASSUME NEW w \in Worker, wjob'[w] # Nil
                 PROVE  sent[wjob'[w]] = 0 /\ Contains(started', wjob'[w])
      OBVIOUS
    <3>1. wjob'[w] \in Job
      BY <1>3 DEF NoticeTypes, DTypeOK
    <3> QED
      BY <2>1, <2>2, <2>3, <3>1 DEF NoticeInv, OnceInv
  <2>6. \A v, w \in Worker : wjob'[v] = wjob'[w] /\ wjob'[v] # Nil => v = w
    BY <2>2, <2>4 DEF NoticeInv, OnceInv
  <2> QED
    BY <1>1, <2>1, <2>5, <2>6 DEF NoticeInv, OnceInv
<1> QED
  BY <1>3, <1>4, <1>5, <1>6, <1>7 DEF NoticeInv

------------------------------------------------------------------------------
(* The workers *)

LEMMA WorkerStartInv ==
  ASSUME NoticeInv, NEW w \in Worker, WorkerStart(w), UNCHANGED <<spc, sent>>
  PROVE  NoticeInv'
<1>1. /\ wpc[w] = "new" /\ wpc' = [wpc EXCEPT ![w] = "register"]
      /\ UNCHANGED <<queues, dispatcher, wjob, quitting, history, spc, sent>>
  BY DEF WorkerStart
<1> USE DEF queues, dispatcher, history
<1>2. NoticeTypes'
  BY <1>1 DEF NoticeInv, NoticeTypes, DTypeOK
<1>3. SlotInv' /\ PoolInv'
  BY <1>1 DEF NoticeInv, NoticeTypes, DTypeOK, SlotInv, PoolInv, InPool
<1>4. JobsInOrder' /\ OnceInv'
  BY <1>1 DEF NoticeInv, JobsInOrder, Held, OnceInv
<1> QED
  BY <1>2, <1>3, <1>4 DEF NoticeInv

\* A worker that registers was not announced.
LEMMA WorkerRegisterInv ==
  ASSUME NoticeInv, NEW w \in Worker, WorkerRegister(w), UNCHANGED <<spc, sent>>
  PROVE  NoticeInv'
<1>1. /\ wpc[w] = "register" /\ wpc' = [wpc EXCEPT ![w] = "select"]
      /\ Len(workerPool) < MaxWorker /\ workerPool' = Append(workerPool, w)
      /\ UNCHANGED <<jobQueue, dispatcher, wjob, quitting, history, spc, sent>>
  BY DEF WorkerRegister
<1> USE DEF dispatcher, history
<1>2. workerPool \in Seq(Worker) /\ MaxWorker \in Nat
  BY WorkerAssumption, FS_CardinalityType DEF NoticeInv, NoticeTypes, DTypeOK, MaxWorker
<1>3. /\ workerPool' \in Seq(Worker) /\ Len(workerPool') = Len(workerPool) + 1
      /\ \A i \in DOMAIN workerPool' :
           \/ i \in DOMAIN workerPool /\ workerPool'[i] = workerPool[i]
           \/ i = Len(workerPool) + 1 /\ workerPool'[i] = w
      /\ \A i \in DOMAIN workerPool : i \in DOMAIN workerPool' /\ workerPool'[i] = workerPool[i]
      /\ Len(workerPool) + 1 \in DOMAIN workerPool' /\ workerPool'[Len(workerPool) + 1] = w
  BY <1>1, <1>2
<1>4. NoticeTypes'
  BY <1>1, <1>2, <1>3 DEF NoticeInv, NoticeTypes, DTypeOK
<1>5. SlotInv'
  BY <1>1 DEF NoticeInv, NoticeTypes, DTypeOK, SlotInv
<1>6. PoolInv'
  <2>1. ~ InPool(w) /\ dworker # w
    BY <1>1 DEF NoticeInv, PoolInv
  <2>2. \A v : InPool(v)' <=> InPool(v) \/ v = w
    BY <1>3 DEF InPool
  <2>3. \A i, k \in DOMAIN workerPool' : workerPool'[i] = workerPool'[k] => i = k
    BY <1>3, <2>1 DEF NoticeInv, PoolInv, InPool
  <2>4. wpc'[w] = "select" /\ \A v \in Worker : v # w => wpc'[v] = wpc[v]
    BY <1>1 DEF NoticeInv, NoticeTypes, DTypeOK
  <2>5. dworker' = dworker
    BY <1>1
  <2>6. ~ InPool(dworker)'
    BY <2>1, <2>2, <2>5 DEF NoticeInv, PoolInv, InPool
  <2> QED
    BY <2>1, <2>2, <2>3, <2>4, <2>5, <2>6 DEF NoticeInv, PoolInv
<1>7. JobsInOrder' /\ OnceInv'
  BY <1>1 DEF NoticeInv, JobsInOrder, Held, OnceInv
<1> QED
  BY <1>4, <1>5, <1>6, <1>7 DEF NoticeInv

LEMMA WorkerStopInv ==
  ASSUME NoticeInv, NEW w \in Worker, WorkerStop(w) \/ WorkerQuit(w), UNCHANGED <<spc, sent>>
  PROVE  NoticeInv'
<1>1. /\ \/ wpc' = wpc /\ quitting' = [quitting EXCEPT ![w] = TRUE]
         \/ wpc[w] = "select" /\ wpc' = [wpc EXCEPT ![w] = "stopped"] /\ quitting' = quitting
      /\ UNCHANGED <<queues, dispatcher, wjob, history, spc, sent>>
  BY DEF WorkerStop, WorkerQuit
<1> USE DEF queues, dispatcher, history
<1>2. NoticeTypes'
  BY <1>1 DEF NoticeInv, NoticeTypes, DTypeOK
<1>3. SlotInv' /\ PoolInv'
  <2>1. /\ \A v \in Worker : wpc'[v] = wpc[v] \/ (wpc[v] = "select" /\ wpc'[v] = "stopped")
        /\ UNCHANGED <<dpc, djob, dworker, wjob, workerPool>>
    BY <1>1 DEF NoticeInv, NoticeTypes, DTypeOK
  <2>2. SlotInv'
    BY <2>1 DEF NoticeInv, SlotInv
  <2>3. PoolInv'
    BY <2>1 DEF NoticeInv, PoolInv, InPool
  <2> QED
    BY <2>2, <2>3
<1>4. JobsInOrder' /\ OnceInv'
  BY <1>1 DEF NoticeInv, JobsInOrder, Held, OnceInv
<1> QED
  BY <1>2, <1>3, <1>4 DEF NoticeInv

\* What a worker sends was begun by it alone and not sent before.
LEMMA WorkerSendsInv ==
  ASSUME NoticeInv, NEW w \in Worker, WorkerSends(w)
  PROVE  NoticeInv'
<1>1. /\ wpc[w] = "proc" /\ wpc' = [wpc EXCEPT ![w] = "register"]
      /\ wjob' = [wjob EXCEPT ![w] = Nil] /\ sent' = [sent EXCEPT ![wjob[w]] = @ + 1]
      /\ UNCHANGED <<queues, dispatcher, quitting, history, spc>>
  BY DEF WorkerSends, WorkerProc
<1> USE DEF queues, dispatcher, history
<1>2. /\ wjob[w] \in Job /\ wjob[w] # Nil
      /\ sent[wjob[w]] = 0 /\ Contains(started, wjob[w]) /\ Contains(accepted, wjob[w])
  <2>1. wjob[w] \in Job /\ wjob[w] # Nil
    BY <1>1 DEF NoticeInv, NoticeTypes, DTypeOK, SlotInv
  <2>2. sent[wjob[w]] = 0 /\ Contains(started, wjob[w])
    BY <2>1 DEF NoticeInv, OnceInv
  <2> QED
    BY <2>1, <2>2, HistoryParts DEF NoticeInv
<1>3. NoticeTypes'
  BY <1>1, <1>2 DEF NoticeInv, NoticeTypes, DTypeOK
<1>4. SlotInv' /\ PoolInv'
  <2>1. /\ wpc'[w] = "register" /\ \A v \in Worker : v # w => wpc'[v] = wpc[v]
        /\ wjob'[w] = Nil /\ \A v \in Worker : v # w => wjob'[v] = wjob[v]
    BY <1>1 DEF NoticeInv, NoticeTypes, DTypeOK
  <2>2. SlotInv'
    BY <1>1, <2>1 DEF NoticeInv, SlotInv
  <2>3. ~ InPool(w) /\ dworker # w
    BY <1>1 DEF NoticeInv, PoolInv
  <2>4. PoolInv'
    BY <1>1, <2>1, <2>3 DEF NoticeInv, PoolInv, InPool
  <2> QED
    BY <2>2, <2>4
<1>5. JobsInOrder'
  BY <1>1 DEF NoticeInv, JobsInOrder, Held
<1>6. OnceInv'
  <2>1. /\ wjob'[w] = Nil /\ \A v \in Worker : v # w => wjob'[v] = wjob[v]
        /\ sent'[wjob[w]] = 1 /\ \A j \in Job : j # wjob[w] => sent'[j] = sent[j]
    BY <1>1, <1>2 DEF NoticeInv, NoticeTypes, DTypeOK
  <2>2. \A v \in Worker : wjob'[v] # Nil => wjob'[v] \in Job /\ wjob'[v] = wjob[v] /\ wjob'[v] # wjob[w]
    BY <1>2, <1>3, <2>1 DEF NoticeInv, NoticeTypes, DTypeOK, OnceInv
  <2>3. spc[wjob[w]] = "returned"
    BY <1>2 DEF NoticeInv, OnceInv
  <2>4. \A j \in Job : /\ spc[j] # "returned" => sent'[j] = 0
                       /\ sent'[j] <= 1
                       /\ sent'[j] = 1 /\ Contains(accepted, j) => Contains(started, j)
    BY <1>2, <2>1, <2>3 DEF NoticeInv, OnceInv
  <2>5. \A v \in Worker : wjob'[v] # Nil => sent'[wjob'[v]] = 0 /\ Contains(started, wjob'[v])
    BY <2>1, <2>2 DEF NoticeInv, OnceInv
  <2>6. \A u, v \in Worker : wjob'[u] = wjob'[v] /\ wjob'[u] # Nil => u = v
    BY <2>2 DEF NoticeInv, OnceInv
  <2> QED
    BY <1>1, <2>4, <2>5, <2>6 DEF NoticeInv, OnceInv
<1> QED
  BY <1>3, <1>4, <1>5, <1>6 DEF NoticeInv

------------------------------------------------------------------------------
(* The theorems *)

LEMMA NoticeNextInv == NoticeInv /\ [Next]_vars => NoticeInv'
<1> SUFFICES ASSUME NoticeInv, [Next]_vars PROVE NoticeInv'
  OBVIOUS
<1>1. ASSUME NEW j \in Job, Send(j) \/ SendSync(j) \/ AsyncSelect(j) PROVE NoticeInv'
  BY <1>1, SendInv, SendSyncInv, AsyncSelectInv
<1>2. ASSUME DispatchStep, UNCHANGED <<spc, sent>> PROVE NoticeInv'
  BY <1>2, DispatchRangeInv, DispatchPickInv, HandOverInv DEF DispatchStep
<1>3. ASSUME NEW w \in Worker, WorkerSends(w) PROVE NoticeInv'
  BY <1>3, WorkerSendsInv
<1>4. ASSUME NEW w \in Worker, UNCHANGED <<spc, sent>>,
             WorkerStart(w) \/ WorkerStop(w) \/ WorkerRegister(w) \/ WorkerQuit(w)
      PROVE  NoticeInv'
  BY <1>4, WorkerStartInv, WorkerStopInv, WorkerRegisterInv
<1>5. CASE UNCHANGED vars
  BY <1>5 DEF NoticeInv, NoticeTypes, DTypeOK, SlotInv, PoolInv, InPool, JobsInOrder, Held, OnceInv,
              vars, dvars, queues, dispatcher, workers, history
<1> QED
  BY <1>1, <1>2, <1>3, <1>4, <1>5 DEF Next

LEMMA NoticeInvariant == Spec => []NoticeInv
<1>1. Init => NoticeInv
  BY NoticeInitInv
<1>2. NoticeInv /\ [Next]_vars => NoticeInv'
  BY NoticeNextInv
<1> QED
  BY <1>1, <1>2, PTL DEF Spec

\* The dispatcher of worker/job.go begins the jobs of its channel in their order,
\* each once, and until then keeps them in the channel or in its variable.
THEOREM BegunInOrder == Spec => []JobsInOrder
<1>1. NoticeInv => JobsInOrder
  BY DEF NoticeInv
<1> QED
  BY <1>1, NoticeInvariant, PTL

\* A worker is in the worker pool, or picked by the dispatcher, exactly once
\* while it waits for a job, and not at all while it works.
THEOREM AnnouncedOnlyWaiting == Spec => []AnnouncedWhileWaiting
<1>1. NoticeInv => AnnouncedWhileWaiting
  <2> SUFFICES ASSUME NoticeInv, NEW w \in Worker
               PROVE  CASE wpc[w] = "select"  -> Announced(w) = 1
                        [] wpc[w] = "stopped" -> Announced(w) <= 1
                        [] OTHER              -> Announced(w) = 0
    BY DEF AnnouncedWhileWaiting
  <2> DEFINE At == {i \in DOMAIN workerPool : workerPool[i] = w}
  <2>1. CASE InPool(w)
    <3>1. PICK i \in DOMAIN workerPool : workerPool[i] = w
      BY <2>1 DEF InPool
    <3>2. At = {i}
      BY <3>1 DEF NoticeInv, PoolInv
    <3>3. Cardinality(At) = 1
      BY <3>2, FS_Singleton
    <3>4. dworker # w
      BY <2>1 DEF NoticeInv, PoolInv
    <3>5. Announced(w) = 1
      BY <3>3, <3>4 DEF Announced
    <3> QED
      BY <2>1, <3>5 DEF NoticeInv, PoolInv
  <2>2. CASE ~ InPool(w)
    <3>1. At = {}
      BY <2>2 DEF InPool
    <3>2. Cardinality(At) = 0
      BY <3>1, FS_EmptySet
    <3>3. Announced(w) = IF dworker = w THEN 1 ELSE 0
      BY <3>2 DEF Announced
    <3> QED
      BY <2>2, <3>3 DEF NoticeInv, PoolInv
  <2> QED
    BY <2>1, <2>2
<1> QED
  BY <1>1, NoticeInvariant, PTL

\* feishu/notice.go sends a notification at most once, by its caller or by a
\* worker, and one that was queued only after a worker has begun it.
THEOREM SentAtMostOnce == Spec => []SentOnce
<1>1. NoticeInv => SentOnce
  BY DEF NoticeInv, OnceInv, SentOnce
<1> QED
  BY <1>1, NoticeInvariant, PTL

\* Every variable of the dispatcher, its workers and the callers has its type:
\* the two channels stay within their capacities.
THEOREM NoticeTypeCorrect == Spec => []TypeOK
<1>1. NoticeInv => TypeOK
  <2> SUFFICES ASSUME NoticeInv PROVE TypeOK
    OBVIOUS
  <2>1. \A j \in Job : sent[j] \in 0..2
    BY DEF NoticeInv, NoticeTypes, OnceInv
  <2>2. sent \in [Job -> 0..2]
    BY <2>1 DEF NoticeInv, NoticeTypes
  <2> QED
    BY <2>2 DEF NoticeInv, NoticeTypes, TypeOK
<1> QED
  BY <1>1, NoticeInvariant, PTL

------------------------------------------------------------------------------
(* Deadlock *)

\* The workers that Run starts, whose reference nobody has, are not stopped.
OwnRun == \A w \in Own : wpc[w] \notin {"new", "stopped"} /\ ~ quitting[w]

LEMMA OwnRunHolds == Spec => []OwnRun
<1>1. Init => OwnRun
  BY WorkerAssumption DEF Init, DInit, OwnRun
<1>2. NoticeInv /\ OwnRun /\ [Next]_vars => OwnRun'
  <2> SUFFICES ASSUME NoticeInv, OwnRun, [Next]_vars PROVE OwnRun'
    OBVIOUS
  <2>1. /\ wpc \in [Worker -> {"new", "register", "select", "proc", "stopped"}]
        /\ quitting \in [Worker -> BOOLEAN] /\ Own \subseteq Worker
    BY WorkerAssumption DEF NoticeInv, NoticeTypes, DTypeOK
  <2>2. CASE UNCHANGED <<wpc, quitting>>
    BY <2>2 DEF OwnRun
  <2>3. ASSUME NEW j \in Job, Send(j) \/ SendSync(j) \/ AsyncSelect(j) PROVE OwnRun'
    BY <2>2, <2>3 DEF Send, SendSync, AsyncSelect, Enqueue, dvars, workers
  <2>4. ASSUME DispatchStep PROVE OwnRun'
    <3>1. CASE DispatchRange \/ DispatchPick
      BY <2>2, <3>1 DEF DispatchRange, DispatchPick, workers
    <3>2. CASE HandOver
      BY <2>1, <3>2 DEF HandOver, OwnRun
    <3> QED
      BY <2>4, <3>1, <3>2 DEF DispatchStep
  <2>5. ASSUME NEW w \in Worker, WorkerSends(w) \/ WorkerStart(w) \/ WorkerRegister(w)
        PROVE  OwnRun'
    <3>1. /\ wpc' = [wpc EXCEPT ![w] = "register"] \/ wpc' = [wpc EXCEPT ![w] = "select"]
          /\ quitting' = quitting
      BY <2>5 DEF WorkerSends, WorkerProc, WorkerStart, WorkerRegister
    <3> QED
      BY <2>1, <3>1 DEF OwnRun
  <2>6. ASSUME NEW w \in Worker, WorkerStop(w) PROVE OwnRun'
    <3>1. w \notin Own /\ wpc' = wpc /\ quitting' = [quitting EXCEPT ![w] = TRUE]
      BY <2>6 DEF WorkerStop
    <3>2. \A v \in Own : quitting'[v] = quitting[v]
      BY <2>1, <3>1
    <3> QED
      BY <3>1, <3>2 DEF OwnRun
  <2>7. ASSUME NEW w \in Worker, WorkerQuit(w) PROVE OwnRun'
    <3>1. w \notin Own /\ wpc' = [wpc EXCEPT ![w] = "stopped"] /\ quitting' = quitting
      BY <2>7 DEF WorkerQuit, OwnRun
    <3>2. \A v \in Own : wpc'[v] = wpc[v]
      BY <2>1, <3>1
    <3> QED
      BY <3>1, <3>2 DEF OwnRun
  <2>8. CASE UNCHANGED vars
    BY <2>2, <2>8 DEF vars, dvars, workers
  <2> QED
    BY <2>3, <2>4, <2>5, <2>6, <2>7, <2>8 DEF Next
<1> QED
  BY <1>1, <1>2, NoticeInvariant, PTL DEF Spec

\* worker/job.go: dispatching is held up by busy workers only, or for good by a
\* worker that was stopped, and none of those that Run starts ever is.
THEOREM DispatchingHasNoDeadlock == Spec => []NoDeadlock
<1>1. NoticeInv /\ OwnRun => NoDeadlock
  <2> SUFFICES ASSUME NoticeInv, OwnRun PROVE NoDeadlock
    OBVIOUS
  <2>1. ASSUME dpc = "pick", workerPool = <<>>, NEW w \in Own
        PROVE  wpc[w] \in {"register", "proc"}
    <3>1. w \in Worker /\ w # Nil /\ dworker = Nil /\ ~ InPool(w)
      BY <2>1, WorkerAssumption, NilAssumption DEF NoticeInv, SlotInv, InPool
    <3>2. wpc[w] # "select"
      BY <3>1 DEF NoticeInv, PoolInv
    <3> QED
      BY <3>1, <3>2 DEF OwnRun, NoticeInv, NoticeTypes, DTypeOK
  <2>2. ASSUME dpc = "send"
        PROVE  wpc[dworker] = "select" \/ (Stuck /\ dworker \notin Own)
    <3>1. dworker \in Worker
      BY <2>2 DEF NoticeInv, SlotInv, NoticeTypes, DTypeOK
    <3>2. wpc[dworker] \in {"select", "stopped"}
      BY <3>1 DEF NoticeInv, PoolInv
    <3> QED
      BY <2>2, <3>2 DEF OwnRun, Stuck
  <2> QED
    BY <2>1, <2>2 DEF NoDeadlock
<1> QED
  BY <1>1, NoticeInvariant, OwnRunHolds, PTL

------------------------------------------------------------------------------
(* The outbox *)

\* In a sequence without repetition nothing is in two parts of it.
LEMMA PartsAreDisjoint ==
  ASSUME NEW S, NEW s \in Seq(S), NEW t \in Seq(S), NEW x, Contains(t, x),
         \A i, k \in DOMAIN (s \o t) : (s \o t)[i] = (s \o t)[k] => i = k
  PROVE  Contains(s \o t, x) /\ ~ Contains(s, x)
<1>1. /\ s \o t \in Seq(S) /\ Len(s \o t) = Len(s) + Len(t) /\ Len(s) \in Nat /\ Len(t) \in Nat
      /\ DOMAIN (s \o t) = 1..Len(s) + Len(t)
      /\ \A i \in 1..Len(s) + Len(t) : (s \o t)[i] = IF i <= Len(s) THEN s[i] ELSE t[i - Len(s)]
  BY ConcatProperties
<1>2. PICK k \in 1..Len(t) : t[k] = x
  BY DEF Contains
<1>3. /\ k + Len(s) \in 1..Len(s) + Len(t) /\ ~ (k + Len(s) <= Len(s))
      /\ k + Len(s) - Len(s) = k
  BY <1>1
<1>4. (s \o t)[k + Len(s)] = x
  BY <1>1, <1>2, <1>3
<1>5. Contains(s \o t, x)
  BY <1>1, <1>3, <1>4 DEF Contains
<1>6. ASSUME NEW i \in 1..Len(s), s[i] = x PROVE FALSE
  <2>1. i \in 1..Len(s) + Len(t) /\ i <= Len(s) /\ i # k + Len(s)
    BY <1>1
  <2>2. (s \o t)[i] = x
    BY <1>1, <1>6, <2>1
  <2> QED
    BY <1>1, <1>3, <1>4, <2>1, <2>2
<1> QED
  BY <1>5, <1>6 DEF Contains

\* What waits was queued and is not begun.
LEMMA WaitingParts ==
  ASSUME NoticeInv
  PROVE  /\ Held \in Seq(Job) /\ jobQueue \in Seq(Job) /\ Waiting \in Seq(Job)
         /\ Len(Waiting) = Len(jobQueue) + (IF dpc = "range" THEN 0 ELSE 1)
         /\ \A j \in Job : Contains(Waiting, j) => Contains(accepted, j) /\ ~ Contains(started, j)
<1>1. Held \in Seq(Job) /\ jobQueue \in Seq(Job) /\ started \in Seq(Job)
  BY HistoryParts DEF NoticeInv, NoticeTypes, DTypeOK
<1>2. Waiting \in Seq(Job) /\ Len(Waiting) = Len(Held) + Len(jobQueue)
  BY <1>1, ConcatProperties DEF Waiting
<1>3. Len(Held) = IF dpc = "range" THEN 0 ELSE 1
  BY DEF Held
<1>4. accepted = started \o Waiting
  <2>1. accepted = (started \o Held) \o jobQueue
    BY DEF NoticeInv, JobsInOrder
  <2>2. (started \o Held) \o jobQueue = started \o (Held \o jobQueue)
    BY <1>1, ConcatAssociative
  <2> QED
    BY <2>1, <2>2 DEF Waiting
<1>5. \A i, k \in DOMAIN (started \o Waiting) :
        (started \o Waiting)[i] = (started \o Waiting)[k] => i = k
  BY <1>4 DEF NoticeInv, OnceInv
<1>6. ASSUME NEW j \in Job, Contains(Waiting, j)
      PROVE  Contains(accepted, j) /\ ~ Contains(started, j)
  BY <1>1, <1>2, <1>4, <1>5, <1>6, PartsAreDisjoint
<1> QED
  BY <1>1, <1>2, <1>3, <1>6

\* Nothing waits twice.
LEMMA WaitingOnce ==
  ASSUME NoticeInv, NEW i \in DOMAIN Waiting, NEW k \in DOMAIN Waiting, Waiting[i] = Waiting[k]
  PROVE  i = k
<1>1. started \in Seq(Job) /\ Waiting \in Seq(Job) /\ accepted = started \o Waiting
  <2>1. started \in Seq(Job) /\ Held \in Seq(Job) /\ jobQueue \in Seq(Job) /\ Waiting \in Seq(Job)
    BY WaitingParts DEF NoticeInv, NoticeTypes, DTypeOK
  <2>2. accepted = (started \o Held) \o jobQueue
    BY DEF NoticeInv, JobsInOrder
  <2>3. (started \o Held) \o jobQueue = started \o (Held \o jobQueue)
    BY <2>1, ConcatAssociative
  <2> QED
    BY <2>1, <2>2, <2>3 DEF Waiting
<1>2. /\ Len(started) \in Nat /\ Len(Waiting) \in Nat
      /\ i \in 1..Len(Waiting) /\ k \in 1..Len(Waiting)
      /\ DOMAIN accepted = 1..Len(started) + Len(Waiting)
      /\ \A n \in 1..Len(started) + Len(Waiting) :
           accepted[n] = IF n <= Len(started) THEN started[n] ELSE Waiting[n - Len(started)]
  BY <1>1, ConcatProperties
<1>3. /\ i + Len(started) \in DOMAIN accepted /\ k + Len(started) \in DOMAIN accepted
      /\ ~ (i + Len(started) <= Len(started)) /\ ~ (k + Len(started) <= Len(started))
      /\ i + Len(started) - Len(started) = i /\ k + Len(started) - Len(started) = k
  BY <1>2
<1>4. accepted[i + Len(started)] = accepted[k + Len(started)]
  BY <1>2, <1>3
<1>5. i + Len(started) = k + Len(started)
  BY <1>3, <1>4 DEF NoticeInv, OnceInv
<1> QED
  BY <1>2, <1>5

\* A notification is in one place.
LEMMA OneFate ==
  ASSUME NoticeInv, NEW j \in Job
  PROVE  /\ sent[j] \in {0, 1}
         /\ spc[j] # "returned" => sent[j] = 0 /\ ~ Contains(Waiting, j) /\ ~ Begun(j)
         /\ Contains(Waiting, j) => sent[j] = 0 /\ ~ Begun(j)
         /\ Begun(j) => sent[j] = 0 /\ ~ Contains(Waiting, j)
<1>1. sent[j] \in {0, 1}
  BY DEF NoticeInv, NoticeTypes, OnceInv
<1>2. Contains(Waiting, j) => Contains(accepted, j) /\ ~ Contains(started, j)
  BY WaitingParts
<1>3. Begun(j) => sent[j] = 0 /\ Contains(started, j)
  <2>1. j # Nil
    BY NilAssumption
  <2> QED
    BY <2>1 DEF Begun, NoticeInv, OnceInv
<1>4. Contains(started, j) => Contains(accepted, j)
  BY HistoryParts DEF NoticeInv
<1>5. Contains(accepted, j) => spc[j] = "returned" /\ (sent[j] = 1 => Contains(started, j))
  BY DEF NoticeInv, OnceInv
<1>6. spc[j] # "returned" => sent[j] = 0
  BY DEF NoticeInv, OnceInv
<1> QED
  BY <1>1, <1>2, <1>3, <1>4, <1>5, <1>6

\* The fates, as the refinement mapping sees them.
FateOf == [j \in Job |-> Fate(j)]

LEMMA FateKept ==
  ASSUME NEW j \in Job, spc'[j] = spc[j], sent'[j] = sent[j],
         Contains(Waiting, j)' <=> Contains(Waiting, j), Begun(j)' <=> Begun(j)
  PROVE  Fate(j)' = Fate(j)
BY DEF Fate

LEMMA BecomesStep ==
  ASSUME NEW j \in Job, NEW from, NEW to, Fate(j) \in from, Fate(j)' = to,
         \A k \in Job \ {j} : Fate(k)' = Fate(k)
  PROVE  O!Becomes(j, from, to)
<1>1. FateOf[j] \in from /\ FateOf' = [FateOf EXCEPT ![j] = to]
  BY DEF FateOf
<1> QED
  BY <1>1 DEF FateOf, O!Becomes

LEMMA NoticeStutters ==
  ASSUME UNCHANGED <<spc, sent, wjob>>, Waiting' = Waiting
  PROVE  UNCHANGED O!vars
<1>1. \A j \in Job : Fate(j)' = Fate(j)
  BY DEF Fate, Begun
<1>2. FateOf' = FateOf
  BY <1>1 DEF FateOf
<1> QED
  BY <1>2 DEF FateOf, O!vars

\* SendV2, SendV3: the caller will send, or will queue, or finds the queue full.
LEMMA SendRefines ==
  ASSUME NoticeInv, NEW j \in Job, Send(j)
  PROVE  O!Next
<1>1. /\ UNCHANGED <<jobQueue, dpc, djob, wjob, sent>> /\ spc[j] = "new"
      /\ \/ spc' = [spc EXCEPT ![j] = "sync"]
         \/ spc' = [spc EXCEPT ![j] = "select"]
         \/ spc' = [spc EXCEPT ![j] = "returned"] /\ Len(jobQueue) = JobLength
  BY DEF Send, Go, dvars, queues, dispatcher, workers
<1>2. Waiting' = Waiting /\ \A k \in Job : Begun(k)' <=> Begun(k)
  BY <1>1 DEF Waiting, Held, Begun
<1>3. sent[j] = 0 /\ ~ Contains(Waiting, j) /\ ~ Begun(j)
  BY <1>1, OneFate
<1>4. Fate(j) = "new"
  BY <1>1, <1>3 DEF Fate
<1>5. \A k \in Job \ {j} : Fate(k)' = Fate(k)
  BY <1>1, <1>2, FateKept DEF NoticeInv, NoticeTypes
<1>6. CASE spc' = [spc EXCEPT ![j] = "sync"]
  <2>1. Fate(j)' = "direct"
    BY <1>1, <1>2, <1>3, <1>6 DEF Fate, NoticeInv, NoticeTypes
  <2>2. O!Call(j)
    BY <1>1, <1>2, <1>4, <1>5, <2>1, BecomesStep DEF O!Call
  <2> QED
    BY <2>2 DEF O!Next
<1>7. CASE spc' = [spc EXCEPT ![j] = "select"]
  <2>1. Fate(j)' = "offered"
    BY <1>1, <1>2, <1>3, <1>7 DEF Fate, NoticeInv, NoticeTypes
  <2>2. O!Call(j)
    BY <1>1, <1>2, <1>4, <1>5, <2>1, BecomesStep DEF O!Call
  <2> QED
    BY <2>2 DEF O!Next
<1>8. CASE spc' = [spc EXCEPT ![j] = "returned"] /\ Len(jobQueue) = JobLength
  <2>1. Fate(j)' = "dropped"
    BY <1>1, <1>2, <1>3, <1>8 DEF Fate, NoticeInv, NoticeTypes
  <2>2. Len(Waiting) >= JobLength
    BY <1>8, WaitingParts, JobLengthAssumption
  <2>3. O!Drop(j)
    BY <1>1, <1>2, <1>4, <1>5, <2>1, <2>2, BecomesStep DEF O!Drop
  <2> QED
    BY <2>3 DEF O!Next
<1> QED
  BY <1>1, <1>6, <1>7, <1>8

\* The caller sends what nobody queued.
LEMMA SendSyncRefines ==
  ASSUME NoticeInv, NEW j \in Job, SendSync(j)
  PROVE  O!Next
<1>1. /\ UNCHANGED <<jobQueue, dpc, djob, wjob>> /\ spc[j] = "sync"
      /\ spc' = [spc EXCEPT ![j] = "returned"] /\ sent' = [sent EXCEPT ![j] = @ + 1]
  BY DEF SendSync, Go, dvars, queues, dispatcher, workers
<1>2. Waiting' = Waiting /\ \A k \in Job : Begun(k)' <=> Begun(k)
  BY <1>1 DEF Waiting, Held, Begun
<1>3. sent[j] = 0 /\ ~ Contains(Waiting, j) /\ ~ Begun(j)
  BY <1>1, OneFate
<1>4. Fate(j) = "direct" /\ Fate(j)' = "sent"
  BY <1>1, <1>3 DEF Fate, NoticeInv, NoticeTypes
<1>5. \A k \in Job \ {j} : Fate(k)' = Fate(k)
  BY <1>1, <1>2, FateKept DEF NoticeInv, NoticeTypes
<1>6. O!Deliver(j)
  BY <1>1, <1>2, <1>4, <1>5, BecomesStep DEF O!Deliver
<1> QED
  BY <1>6 DEF O!Next

\* The select queues the notification at the end, or drops it when no room is left.
LEMMA AsyncSelectRefines ==
  ASSUME NoticeInv, NEW j \in Job, AsyncSelect(j)
  PROVE  O!Next
<1>1. /\ UNCHANGED <<dpc, djob, wjob, sent>> /\ spc[j] = "select"
      /\ spc' = [spc EXCEPT ![j] = "returned"]
      /\ IF Len(jobQueue) < JobLength THEN jobQueue' = Append(jobQueue, j) ELSE jobQueue' = jobQueue
  BY DEF AsyncSelect, Enqueue, Go, dvars, queues, dispatcher, workers
<1>2. \A k \in Job : Begun(k)' <=> Begun(k)
  BY <1>1 DEF Begun
<1>3. sent[j] = 0 /\ ~ Contains(Waiting, j) /\ ~ Begun(j)
  BY <1>1, OneFate
<1>4. Fate(j) = "offered"
  BY <1>1, <1>3 DEF Fate
<1>5. Held \in Seq(Job) /\ jobQueue \in Seq(Job) /\ Waiting \in Seq(Job) /\ Held' = Held
  BY <1>1, WaitingParts DEF Held
<1>6. CASE Len(jobQueue) < JobLength
  <2>1. Waiting' = Append(Waiting, j)
    BY <1>1, <1>5, <1>6, AppendOfConcat DEF Waiting
  <2>2. \A k \in Job : Contains(Waiting, k)' <=> Contains(Waiting, k) \/ k = j
    BY <1>5, <2>1, ContainsAppend
  <2>3. Fate(j)' = "waiting"
    BY <1>1, <1>3, <2>2 DEF Fate
  <2>4. \A k \in Job \ {j} : Fate(k)' = Fate(k)
    BY <1>1, <1>2, <2>2, FateKept DEF NoticeInv, NoticeTypes
  <2>5. Len(Waiting) <= JobLength
    BY <1>5, <1>6, WaitingParts, JobLengthAssumption
  <2>6. O!Post(j)
    BY <1>1, <1>4, <2>1, <2>3, <2>4, <2>5, BecomesStep DEF O!Post
  <2> QED
    BY <2>6 DEF O!Next
<1>7. CASE ~ (Len(jobQueue) < JobLength)
  <2>1. Waiting' = Waiting
    BY <1>1, <1>5, <1>7 DEF Waiting
  <2>2. Fate(j)' = "dropped"
    BY <1>1, <1>2, <1>3, <2>1 DEF Fate, NoticeInv, NoticeTypes
  <2>3. \A k \in Job \ {j} : Fate(k)' = Fate(k)
    BY <1>1, <1>2, <2>1, FateKept DEF NoticeInv, NoticeTypes
  <2>4. Len(Waiting) >= JobLength
    BY <1>5, <1>7, WaitingParts, JobLengthAssumption
  <2>5. O!Drop(j)
    BY <1>1, <1>4, <2>1, <2>2, <2>3, <2>4, BecomesStep DEF O!Drop
  <2> QED
    BY <2>5 DEF O!Next
<1> QED
  BY <1>6, <1>7

\* The dispatcher takes the oldest from the queue, and keeps it until it hands
\* it over.
LEMMA DispatchKeeps ==
  ASSUME NoticeInv, DispatchRange \/ DispatchPick, UNCHANGED <<spc, sent>>
  PROVE  UNCHANGED O!vars
<1>1. CASE DispatchRange
  <2>1. /\ dpc = "range" /\ jobQueue # <<>> /\ dpc' = "pick"
        /\ djob' = Head(jobQueue) /\ jobQueue' = Tail(jobQueue) /\ wjob' = wjob
    BY <1>1 DEF DispatchRange, workers
  <2>2. jobQueue = <<djob'>> \o jobQueue' /\ jobQueue \in Seq(Job)
    BY <2>1, FirstAndRest DEF NoticeInv, NoticeTypes, DTypeOK
  <2>3. Waiting = jobQueue /\ Waiting' = <<djob'>> \o jobQueue'
    BY <2>1, <2>2, ConcatEmptySeq DEF Waiting, Held
  <2> QED
    BY <2>1, <2>2, <2>3, NoticeStutters
<1>2. CASE DispatchPick
  <2>1. UNCHANGED <<jobQueue, djob, wjob>> /\ dpc = "pick" /\ dpc' = "send"
    BY <1>2 DEF DispatchPick, workers
  <2>2. Waiting' = Waiting
    BY <2>1 DEF Waiting, Held
  <2> QED
    BY <2>1, <2>2, NoticeStutters
<1> QED
  BY <1>1, <1>2

\* The job that is handed over is the oldest that waits.
LEMMA HandOverRefines ==
  ASSUME NoticeInv, HandOver, UNCHANGED <<spc, sent>>
  PROVE  O!Next
<1>1. /\ dpc = "send" /\ wpc[dworker] = "select" /\ wjob' = [wjob EXCEPT ![dworker] = djob]
      /\ dpc' = "range" /\ jobQueue' = jobQueue
  BY DEF HandOver, queues
<1>2. djob \in Job /\ djob # Nil /\ dworker \in Worker /\ jobQueue \in Seq(Job) /\ wjob[dworker] = Nil
  BY <1>1 DEF NoticeInv, NoticeTypes, DTypeOK, SlotInv
<1>h. PICK h \in Job : h = djob
  BY <1>2
<1>3. Waiting = <<h>> \o jobQueue /\ Waiting' = jobQueue /\ Waiting \in Seq(Job)
  BY <1>h, <1>1, <1>2, ConcatEmptySeq, WaitingParts DEF Waiting, Held
<1>4. Waiting # <<>> /\ Head(Waiting) = h /\ Tail(Waiting) = jobQueue
  BY <1>2, <1>3
<1>5. Contains(Waiting, h) /\ \A k \in Job \ {h} : Contains(Waiting, k)' <=> Contains(Waiting, k)
  <2>1. Waiting' \in Seq(Job) /\ Waiting = <<h>> \o Waiting' /\ <<h>> \in Seq(Job)
    BY <1>2, <1>3
  <2>2. /\ Len(Waiting) = 1 + Len(Waiting') /\ Len(Waiting') \in Nat /\ Waiting[1] = h
        /\ \A i \in 1..Len(Waiting') : Waiting[i + 1] = Waiting'[i]
    BY <1>2, <1>3, <1>4, <2>1, HeadTailProperties
  <2>3. Contains(Waiting, h)
    BY <2>2 DEF Contains
  <2>4. ASSUME NEW k \in Job \ {h} PROVE Contains(Waiting, k)' <=> Contains(Waiting, k)
    <3>1. ASSUME NEW i \in 1..Len(Waiting'), Waiting'[i] = k PROVE Contains(Waiting, k)
      BY <2>2, <3>1 DEF Contains
    <3>2. ASSUME NEW i \in 1..Len(Waiting), Waiting[i] = k PROVE Contains(Waiting, k)'
      <4>1. i # 1 /\ i - 1 \in 1..Len(Waiting') /\ Waiting'[i - 1] = k
        BY <2>2, <3>2
      <4> QED
        BY <4>1 DEF Contains
    <3> QED
      BY <3>1, <3>2 DEF Contains
  <2> QED
    BY <2>3, <2>4
<1>6. sent[h] = 0 /\ ~ Begun(h)
  BY <1>2, <1>5, OneFate
<1>7. Begun(h)' /\ \A k \in Job \ {h} : Begun(k)' <=> Begun(k)
  <2>1. \A w \in Worker : wjob'[w] = IF w = dworker THEN h ELSE wjob[w]
    BY <1>h, <1>1 DEF NoticeInv, NoticeTypes, DTypeOK
  <2>2. Begun(h)'
    BY <1>2, <2>1 DEF Begun
  <2>3. ASSUME NEW k \in Job \ {h} PROVE Begun(k)' <=> Begun(k)
    <3>1. ASSUME NEW w \in Worker PROVE wjob'[w] = k <=> wjob[w] = k
      BY <1>2, <2>1, NilAssumption
    <3> QED
      BY <3>1 DEF Begun
  <2> QED
    BY <2>2, <2>3
<1>8. ~ Contains(Waiting, h)'
  <2>1. <<h>> \in Seq(Job) /\ Len(<<h>>) = 1 /\ <<h>>[1] = h
    OBVIOUS
  <2>2. Contains(<<h>>, h)
    BY <2>1 DEF Contains
  <2>3. \A i, k \in DOMAIN Waiting : Waiting[i] = Waiting[k] => i = k
    BY WaitingOnce
  <2> QED
    BY <1>2, <1>3, <2>1, <2>2, <2>3, PartsAreDisjoint, Zenon
<1>9. Fate(h) = "waiting" /\ Fate(h)' = "begun"
  BY <1>5, <1>6, <1>7, <1>8 DEF Fate
<1>10. \A k \in Job \ {h} : Fate(k)' = Fate(k)
  BY <1>5, <1>7, FateKept
<1>11. O!Begin
  BY <1>2, <1>3, <1>4, <1>9, <1>10, BecomesStep DEF O!Begin
<1> QED
  BY <1>11 DEF O!Next

\* The worker sends what it has begun.
LEMMA WorkerSendsRefines ==
  ASSUME NoticeInv, NEW w \in Worker, WorkerSends(w)
  PROVE  O!Next
<1> DEFINE j == wjob[w]
<1>1. /\ wpc[w] = "proc" /\ wjob' = [wjob EXCEPT ![w] = Nil] /\ sent' = [sent EXCEPT ![j] = @ + 1]
      /\ UNCHANGED <<jobQueue, dpc, djob, spc>>
  BY DEF WorkerSends, WorkerProc, queues, dispatcher
<1>2. j \in Job /\ j # Nil
  BY <1>1 DEF NoticeInv, NoticeTypes, DTypeOK, SlotInv
<1>3. Waiting' = Waiting
  BY <1>1 DEF Waiting, Held
<1>4. Begun(j) /\ sent[j] = 0 /\ ~ Contains(Waiting, j)
  <2>1. Begun(j)
    BY DEF Begun
  <2> QED
    BY <1>2, <2>1, OneFate
<1>5. Fate(j) = "begun"
  BY <1>4 DEF Fate
<1>6. \A k \in Job : sent'[k] = IF k = j THEN 1 ELSE sent[k]
  BY <1>1, <1>2, <1>4 DEF NoticeInv, NoticeTypes
<1>7. ASSUME NEW k \in Job, k = j PROVE Fate(k)' = "sent"
  BY <1>6, <1>7 DEF Fate
<1>8. ASSUME NEW k \in Job, k # j PROVE Fate(k)' = Fate(k)
  <2>1. \A v \in Worker : wjob'[v] = IF v = w THEN Nil ELSE wjob[v]
    BY <1>1 DEF NoticeInv, NoticeTypes, DTypeOK
  <2>2. ASSUME NEW v \in Worker PROVE wjob'[v] = k <=> wjob[v] = k
    BY <1>8, <2>1, NilAssumption
  <2>3. Begun(k)' <=> Begun(k)
    BY <2>2 DEF Begun
  <2> QED
    BY <1>1, <1>3, <1>6, <1>8, <2>3, FateKept
<1>9. ASSUME NEW k \in Job, k = j PROVE O!Deliver(k)
  <2>1. Fate(k) \in {"direct", "begun"} /\ Fate(k)' = "sent" /\ \A l \in Job \ {k} : Fate(l)' = Fate(l)
    BY <1>5, <1>7, <1>8, <1>9
  <2>2. O!Becomes(k, {"direct", "begun"}, "sent")
    BY <2>1, BecomesStep
  <2> QED
    BY <1>1, <1>3, <1>9, <2>2 DEF O!Deliver
<1> QED
  BY <1>2, <1>9 DEF O!Next

\* A worker that starts, announces itself or ends takes no notification along.
LEMMA WorkerKeeps ==
  ASSUME NEW w \in Worker, UNCHANGED <<spc, sent>>,
         WorkerStart(w) \/ WorkerStop(w) \/ WorkerRegister(w) \/ WorkerQuit(w)
  PROVE  UNCHANGED O!vars
<1>1. UNCHANGED <<jobQueue, dpc, djob, wjob>>
  BY DEF WorkerStart, WorkerStop, WorkerRegister, WorkerQuit, queues, dispatcher
<1>2. Waiting' = Waiting
  BY <1>1 DEF Waiting, Held
<1> QED
  BY <1>1, <1>2, NoticeStutters

\* feishu/notice.go:107-152 with worker/job.go is a bounded FIFO outbox, for any
\* notifications, workers and capacity: each notification goes one way, through
\* the queue in order or past it, and is sent once or dropped for want of room.
THEOREM NoticesGoThroughTheOutbox == Spec => BoundedOutbox
<1>1. Init => O!Init
  <2> SUFFICES ASSUME Init PROVE O!Init
    OBVIOUS
  <2>1. Waiting = <<>> /\ \A j \in Job : ~ Contains(Waiting, j)
    BY ConcatEmptySeq DEF Init, DInit, Waiting, Held, Contains
  <2>2. \A j \in Job : ~ Begun(j)
    BY NilAssumption DEF Init, DInit, Begun
  <2>3. \A j \in Job : Fate(j) = "new"
    BY <2>1, <2>2 DEF Init, Fate
  <2> QED
    BY <2>1, <2>3 DEF Init, O!Init
<1>2. NoticeInv /\ [Next]_vars => [O!Next]_O!vars
  <2> SUFFICES ASSUME NoticeInv, [Next]_vars PROVE [O!Next]_O!vars
    OBVIOUS
  <2>1. ASSUME NEW j \in Job, Send(j) \/ SendSync(j) \/ AsyncSelect(j) PROVE O!Next
    BY <2>1, SendRefines, SendSyncRefines, AsyncSelectRefines
  <2>2. ASSUME DispatchStep, UNCHANGED <<spc, sent>> PROVE [O!Next]_O!vars
    BY <2>2, DispatchKeeps, HandOverRefines DEF DispatchStep
  <2>3. ASSUME NEW w \in Worker, WorkerSends(w) PROVE O!Next
    BY <2>3, WorkerSendsRefines
  <2>4. ASSUME NEW w \in Worker, UNCHANGED <<spc, sent>>,
               WorkerStart(w) \/ WorkerStop(w) \/ WorkerRegister(w) \/ WorkerQuit(w)
        PROVE  [O!Next]_O!vars
    BY <2>4, WorkerKeeps
  <2>5. CASE UNCHANGED vars
    <3>1. UNCHANGED <<spc, sent, wjob>> /\ Waiting' = Waiting
      BY <2>5 DEF vars, dvars, queues, dispatcher, workers, Waiting, Held
    <3> QED
      BY <3>1, NoticeStutters
  <2> QED
    BY <2>1, <2>2, <2>3, <2>4, <2>5 DEF Next
<1> QED
  BY <1>1, <1>2, NoticeInvariant, PTL DEF Spec, BoundedOutbox, O!Spec
==============================================================================
