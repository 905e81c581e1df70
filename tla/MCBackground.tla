----------------------------- MODULE MCBackground ----------------------------
(****************************************************************************)
(* Two components that share nothing and work in the background of a        *)
(* service, by one run of TLC: the notifier with its dispatcher, and the    *)
(* lock in Redis with its renewals.  `part` says which of them a behaviour  *)
(* is about; the other one stays in its initial state.                      *)
(****************************************************************************)
EXTENDS FeishuNotice, RedisLock

VARIABLE part

parts == <<part, vars, lockVars>>

BackgroundInit == part \in {"notice", "lock"} /\ Init /\ LockInit

BackgroundNext ==
  /\ UNCHANGED part
  /\ \/ part = "notice" /\ Next /\ UNCHANGED lockVars
     \/ part = "lock" /\ LockNext /\ UNCHANGED vars

\* The fairness of Spec and that of LockSpec.  Of the part that stays in its
\* initial state only Tick and WorkerRegister are enabled.
BackgroundSpec ==
  /\ BackgroundInit /\ [][BackgroundNext]_parts
  /\ \A j \in Job : WF_vars(SendSync(j)) /\ WF_vars(AsyncSelect(j))
  /\ WF_vars(DispatchStep /\ UNCHANGED <<spc, sent>>)
  /\ \A w \in Worker :
       /\ WF_vars(WorkerSends(w))
       /\ WF_vars(part = "notice" /\ WorkerRegister(w) /\ UNCHANGED <<spc, sent>>)
  /\ WF_lockVars(part = "lock" /\ Tick)
  /\ \A p \in Client :
       WF_lockVars(ClientStep(p)) /\ WF_lockVars(RenewStep(p)) /\ WF_lockVars(RenewEnds(p))
==============================================================================
