----------------------------- MODULE QueryRunner -----------------------------
(***************************************************************************)
(* client/query_runner.py: queries of the sampler run one after the other, *)
(* with a report after every batch, until the process is interrupted,      *)
(* which may happen between any two steps of the loop.                     *)
(***************************************************************************)
EXTENDS QuerySampler

CONSTANTS batch_size, MaxQueries   \* bound: of query_count

ASSUME BatchAssumption == batch_size \in Nat \ {0}

VARIABLES results,   \* of the current batch: [n, success]
          query_count, reports, runner,
          succeeded  \* history: the queries that were answered

RunnerVars == <<SamplerVars, results, query_count, reports, runner, succeeded>>
Runner == <<results, query_count, reports, runner, succeeded>>

RunnerInit ==
  /\ SamplerInit
  /\ results = <<>> /\ query_count = 0 /\ reports = <<>> /\ runner = "sample" /\ succeeded = {}

(* A structured query; the parameters of the result are not modelled.      *)
Sample ==
  /\ runner = "sample" /\ query_count < MaxQueries
  /\ SamplerStep
  /\ UNCHANGED Runner

(* run_query(): an answer, an error of requests, or one of another kind,   *)
(* which ends the process.                                                 *)
RunQuery ==
  /\ runner = "sample" /\ QueryIsReady
  /\ \/ \E success \in BOOLEAN :
          /\ results' = Append(results, [n |-> query_count + 1, success |-> success])
          /\ succeeded' = IF success THEN succeeded \cup {query_count + 1} ELSE succeeded
          /\ runner' = "count"
     \/ runner' = "died" /\ UNCHANGED <<results, succeeded>>
  /\ query' = NoQuery
  /\ UNCHANGED <<corpus, mode, shape, query_count, reports>>

CountQuery ==
  /\ runner = "count"
  /\ query_count' = query_count + 1
  /\ runner' = IF (query_count + 1) % batch_size = 0 THEN "report" ELSE "sample"
  /\ UNCHANGED <<SamplerVars, results, reports, succeeded>>

(* print_statistics(): nothing about a batch in which nothing succeeded.   *)
Report(rs) == IF \E i \in DOMAIN rs : rs[i].success THEN Append(reports, rs) ELSE reports
PrintStatistics ==
  /\ runner = "report"
  /\ reports' = Report(results)
  /\ runner' = "reset"
  /\ UNCHANGED <<SamplerVars, results, query_count, succeeded>>
ResetResults ==
  /\ runner = "reset"
  /\ results' = <<>>
  /\ runner' = "sample"
  /\ UNCHANGED <<SamplerVars, query_count, reports, succeeded>>

NoLastReport == reports   \* mutant: the handler only logs
LastReport == Report(results)
Interrupt ==
  /\ runner \notin {"died", "stopped"}
  /\ reports' = LastReport
  /\ runner' = "stopped"
  /\ query' = NoQuery
  /\ UNCHANGED <<corpus, mode, shape, results, query_count, succeeded>>

RunnerNext ==
  \/ Sample \/ RunQuery \/ CountQuery \/ PrintStatistics \/ ResetResults \/ Interrupt

(***************************************************************************)
(* Properties                                                              *)
(***************************************************************************)
(* Whenever the runner is interrupted, each query that was answered has    *)
(* been in a report.  It was in one report only, except for a batch whose  *)
(* report was interrupted, and full batches are as large as they should be.*)
InReport(n) == {i \in DOMAIN reports : \E j \in DOMAIN reports[i] : reports[i][j].n = n}
EveryQueryReported ==
  LET last(i) == runner = "stopped" /\ i = Len(reports)
  IN /\ runner = "stopped" => \A n \in succeeded : InReport(n) # {}
     /\ \A i, j \in DOMAIN reports : i < j /\ (\E n \in succeeded : {i, j} \subseteq InReport(n)) =>
          last(j) /\ reports[i] = reports[j]
     /\ \A i \in DOMAIN reports : Len(reports[i]) = batch_size \/ last(i)
=============================================================================
