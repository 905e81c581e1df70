----------------------------- MODULE MCServices -----------------------------
(****************************************************************************)
(* The components that share nothing and are small, checked by one run of   *)
(* TLC: `part` says which of them a behaviour is about.  The others stay in *)
(* their initial state.                                                     *)
(****************************************************************************)
EXTENDS Metrics, Pprof, FeishuCache, Orm, OrmFields, Slices, Report, ApolloMap

VARIABLE part

parts == <<metricsVars, pprofVars, feishuVars, ormVars, fieldsVars, slicesVars, reportVars, apolloVars>>
vars  == <<part, parts>>

Init ==
  /\ part \in 1..8
  /\ MetricsInit /\ PprofInit /\ FeishuInit /\ OrmInit
  /\ FieldsInit /\ SlicesInit /\ ReportInit /\ ApolloInit

Next ==
  /\ UNCHANGED part
  /\ part # 1 => UNCHANGED metricsVars
  /\ part # 2 => UNCHANGED pprofVars
  /\ part # 3 => UNCHANGED feishuVars
  /\ part # 4 => UNCHANGED ormVars
  /\ part # 5 => UNCHANGED fieldsVars
  /\ part # 6 => UNCHANGED slicesVars
  /\ part # 7 => UNCHANGED reportVars
  /\ part # 8 => UNCHANGED apolloVars
  /\ \/ part = 1 /\ MetricsNext
     \/ part = 2 /\ PprofNext
     \/ part = 3 /\ FeishuNext
     \/ part = 4 /\ OrmNext
     \/ part = 5 /\ FieldsNext
     \/ part = 6 /\ SlicesNext
     \/ part = 7 /\ ReportNext
     \/ part = 8 /\ ApolloNext

\* Only pprof has a property that needs fairness.
Spec == Init /\ [][Next]_vars /\ PprofFairness
==============================================================================
