-------------------------------- MODULE Pprof --------------------------------
(****************************************************************************)
(* pprof of server/run.go: one goroutine starts a server when pprof.enable  *)
(* is on and none runs, another shuts it down when it is off.  They share   *)
(* server and isRun without synchronization: each access is a step, and the *)
(* two assignments before ListenAndServe may be seen in either order.  The  *)
(* port is left out: Listen may fail on any.                                *)
(*                                                                          *)
(* net/http is external: Shutdown closes the listener at once, makes the    *)
(* ListenAndServe of its server return, now or when it is called later, and *)
(* waits for the connections in use.                                        *)
(****************************************************************************)
VARIABLES
  pprofOn,  \* pprof.enable
  isRun,
  known,    \* server # nil
  unseen,   \* assignments made and not seen yet, of {"server", "isRun"}
  runner,   \* "tick", "test", "publish", "listen", "serve", "clear"
  shut,     \* the last server made has been shut down
  closer,   \* "tick", "test", "shutdown", "drain", "reset"
  mine,     \* the server that the closer shut down is the last one made
  lost      \* history: the closer cleared isRun of a server it had not shut down

pprofVars == <<pprofOn, isRun, known, unseen, runner, shut, closer, mine, lost>>

PprofInit ==
  /\ pprofOn = TRUE /\ isRun = FALSE /\ known = FALSE /\ unseen = {}
  /\ runner = "tick" /\ shut = FALSE
  /\ closer = "tick" /\ mine = FALSE /\ lost = FALSE

SwitchPprof ==
  /\ pprofOn' = ~pprofOn
  /\ UNCHANGED <<isRun, known, unseen, runner, shut, closer, mine, lost>>

------------------------------------------------------------------------------
(* The loop of pprof *)

RunnerTick ==
  /\ runner = "tick" /\ pprofOn /\ runner' = "test"
  /\ UNCHANGED <<pprofOn, isRun, known, unseen, shut, closer, mine, lost>>

RunnerTest ==
  /\ runner = "test"
  /\ IF isRun THEN runner' = "tick" /\ UNCHANGED <<unseen, shut, mine>>
     ELSE /\ runner' = "publish" /\ unseen' = {"server", "isRun"}
          /\ shut' = FALSE /\ mine' = FALSE
  /\ UNCHANGED <<pprofOn, isRun, known, closer, lost>>

\* Mutant: isRun is left to what follows.
PublishServer(x) ==
  /\ x \in unseen /\ unseen' = unseen \ {x}
  /\ isRun' = isRun
  /\ known' = (known \/ x = "server")
  /\ runner' = IF unseen' = {} THEN "listen" ELSE runner
  /\ UNCHANGED <<pprofOn, shut, closer, mine, lost>>

\* server = &http.Server{...}; isRun = true
Publish(x) ==
  /\ x \in unseen /\ unseen' = unseen \ {x}
  /\ isRun' = (isRun \/ x = "isRun")
  /\ known' = (known \/ x = "server")
  /\ runner' = IF unseen' = {} THEN "listen" ELSE runner
  /\ UNCHANGED <<pprofOn, shut, closer, mine, lost>>

\* ListenAndServe: it may fail, and it does if its server was shut down.
Listen ==
  /\ runner = "listen"
  /\ runner' \in {"clear"} \cup (IF shut THEN {} ELSE {"serve"})
  /\ UNCHANGED <<pprofOn, isRun, known, unseen, shut, closer, mine, lost>>

Served ==
  /\ runner = "serve" /\ shut /\ runner' = "clear"
  /\ UNCHANGED <<pprofOn, isRun, known, unseen, shut, closer, mine, lost>>

Clear ==
  /\ runner = "clear" /\ isRun' = FALSE /\ runner' = "tick"
  /\ UNCHANGED <<pprofOn, known, unseen, shut, closer, mine, lost>>

------------------------------------------------------------------------------
(* The goroutine that closes *)

CloserTick ==
  /\ closer = "tick" /\ ~pprofOn /\ closer' = "test"
  /\ UNCHANGED <<pprofOn, isRun, known, unseen, runner, shut, mine, lost>>

CloserTest ==
  /\ closer = "test" /\ closer' = IF isRun THEN "shutdown" ELSE "tick"
  /\ UNCHANGED <<pprofOn, isRun, known, unseen, runner, shut, mine, lost>>

\* Shutdown of the server it sees: the one before, if the last is not seen yet.
Shutdown ==
  /\ closer = "shutdown"
  /\ IF ~known THEN closer' = "tick" /\ UNCHANGED <<shut, mine>>
     ELSE /\ closer' = "drain"
          /\ mine' = ("server" \notin unseen)
          /\ shut' = (shut \/ mine')
  /\ UNCHANGED <<pprofOn, isRun, known, unseen, runner, lost>>

\* Shutdown returns: the last connection has been closed.
Drained ==
  /\ closer = "drain" /\ closer' = "reset"
  /\ UNCHANGED <<pprofOn, isRun, known, unseen, runner, shut, mine, lost>>

Reset ==
  /\ closer = "reset" /\ closer' = "tick" /\ isRun' = FALSE
  /\ lost' = (lost \/ (isRun /\ ~mine /\ runner \in {"publish", "listen", "serve"}))
  /\ UNCHANGED <<pprofOn, known, unseen, runner, shut, mine>>

Run == RunnerTick \/ RunnerTest \/ Listen \/ Served \/ Clear \/ (\E x \in unseen : Publish(x))
CloseIt == CloserTick \/ CloserTest \/ Shutdown \/ Drained \/ Reset

PprofNext == SwitchPprof \/ Run \/ CloseIt

\* Goroutines and tickers go on, and the requests of pprof end.
PprofFairness == WF_pprofVars(Run) /\ WF_pprofVars(CloseIt)

PprofSpec == PprofInit /\ [][PprofNext]_pprofVars /\ PprofFairness

------------------------------------------------------------------------------
(* Properties *)

\* When pprof is switched off for good its server stops, at whatever step of
\* either goroutine that happens: unless a Shutdown that took long, or saw the
\* server before, cleared isRun of a server it had not shut down.  Nothing
\* stops that one any more.
StopsWhenOff == <>[]~pprofOn => <>[](runner # "serve") \/ <>lost
==============================================================================
