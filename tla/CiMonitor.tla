------------------------------ MODULE CiMonitor ------------------------------
(***************************************************************************)
(* scripts/ci_monitor.py: a scheduled job that asks GitHub for the state   *)
(* of the main branch, workflow by workflow, and opens an issue when a     *)
(* workflow has failed for the latest commit.  Commits, workflow runs,     *)
(* people who close issues and a second monitor go on in between.          *)
(***************************************************************************)
EXTENDS Naturals, FiniteSets, Sequences, SequencesExt

CONSTANTS Workflows,     \* the repository's workflows, a sequence
          OwnWorkflow,   \* the one the monitor runs in
          Monitors, MaxEvents, MaxPasses   \* bounds: what happens at GitHub, and passes of all monitors

ASSUME WorkflowsAssumption == Workflows \in Seq(ToSet(Workflows))
ASSUME MonitorsAssumption == IsFiniteSet(Monitors)

VARIABLES head,       \* the latest commit of the main branch
          runs,       \* workflow -> its latest run: [sha, conclusion]
          failures,   \* history: <<workflow, sha>> that have failed
          issues,     \* the issues labelled ci-failure: [sha, open, assigned]
          monitor,    \* monitor -> where its pass is
          passes, events

CiVars == <<head, runs, failures, issues, monitor, passes, events>>
Server == <<head, runs, failures, events>>

Modes == {"check_only", "check_and_create_issue", "create_issue"}
NoOutput == [has_failed |-> FALSE, sha |-> 0]
OpenIssues == {n \in DOMAIN issues : issues[n].open}

CiInit ==
  /\ head = 1
  /\ runs = [w \in ToSet(Workflows) |-> [sha |-> 0, conclusion |-> "success"]]
  /\ failures = {}
  /\ issues = <<>>
  /\ monitor = [m \in Monitors |-> [pc |-> "off", mode |-> "check_only", sha |-> 0, next |-> 1, failed |-> {},
                                    undisturbed |-> TRUE, output |-> NoOutput]]
  /\ passes = 0 /\ events = 0

(***************************************************************************)
(* GitHub.  What moves on under a pass is noted.                           *)
(***************************************************************************)
Disturb == /\ events < MaxEvents
           /\ events' = events + 1
           /\ monitor' = [m \in Monitors |-> [monitor[m] EXCEPT !.undisturbed = @ /\ monitor[m].pc = "off"]]
Watched == \E m \in Monitors : monitor[m].pc # "off"

Push == /\ head' = head + 1 /\ Disturb
        /\ UNCHANGED <<runs, failures, issues, passes>>
StartRun(w) ==
  /\ runs[w] # [sha |-> head, conclusion |-> "null"]
  /\ runs' = [runs EXCEPT ![w] = [sha |-> head, conclusion |-> "null"]]
  /\ Disturb
  /\ UNCHANGED <<head, failures, issues, passes>>
FinishRun(w) ==
  /\ runs[w].conclusion = "null"
  /\ \E c \in {"success", "failure"} :
       /\ runs' = [runs EXCEPT ![w].conclusion = c]
       /\ failures' = IF c = "failure" THEN failures \cup {<<w, runs[w].sha>>} ELSE failures
  /\ Disturb
  /\ UNCHANGED <<head, issues, passes>>
CloseIssue(n) ==
  /\ issues' = [issues EXCEPT ![n].open = FALSE]
  /\ UNCHANGED <<Server, monitor, passes>>

(***************************************************************************)
(* A pass.  A request that fails ends it, except where it is caught.       *)
(***************************************************************************)
Goto(m, pc) == monitor' = [monitor EXCEPT ![m].pc = pc]
Off(m) == [monitor[m] EXCEPT !.pc = "off", !.mode = "check_only", !.sha = 0, !.next = 1, !.failed = {}, !.undisturbed = TRUE]
Leave(m) == monitor' = [monitor EXCEPT ![m] = Off(m)]
Start(m) ==
  /\ monitor[m].pc = "off" /\ passes < MaxPasses
  /\ passes' = passes + 1
  /\ \E mode \in Modes :
       LET begun == [monitor EXCEPT ![m].mode = mode]
           output == monitor[m].output
       IN monitor' = IF mode # "create_issue" THEN [begun EXCEPT ![m].pc = "commit"]
                     ELSE IF output.has_failed THEN [begun EXCEPT ![m].pc = "existing", ![m].sha = output.sha]
                     ELSE monitor
  /\ UNCHANGED <<Server, issues>>

GetMainBranchCommit(m) ==
  /\ monitor[m].pc = "commit"
  /\ \/ monitor' = [monitor EXCEPT ![m].pc = "workflows", ![m].sha = head]
     \/ Leave(m)
  /\ UNCHANGED <<Server, issues, passes>>
GetRepositoryWorkflows(m) ==
  /\ monitor[m].pc = "workflows"
  /\ Goto(m, "runs") \/ Leave(m)
  /\ UNCHANGED <<Server, issues, passes>>

LatestRun(w) == runs[w]
HasFailedSome(w, sha) == LatestRun(w).conclusion = "failure"                          \* mutant: a run of any commit
HasNotSucceeded(w, sha) == LatestRun(w).sha = sha /\ LatestRun(w).conclusion # "success"   \* mutant: a run that goes on
HasFailed(w, sha) == LatestRun(w).sha = sha /\ LatestRun(w).conclusion = "failure"

(* A workflow that cannot be asked about is passed over.                   *)
CheckWorkflowRuns(m) ==
  /\ monitor[m].pc = "runs" /\ monitor[m].next <= Len(Workflows)
  /\ LET w == Workflows[monitor[m].next]
         past == [monitor EXCEPT ![m].next = @ + 1]
     IN \/ monitor' = IF w # OwnWorkflow /\ HasFailed(w, monitor[m].sha)
                      THEN [past EXCEPT ![m].failed = @ \cup {w}] ELSE past
        \/ w # OwnWorkflow /\ monitor' = [past EXCEPT ![m].undisturbed = FALSE]
  /\ UNCHANGED <<Server, issues, passes>>

SetOutputs(m) ==
  /\ monitor[m].pc = "runs" /\ monitor[m].next > Len(Workflows)
  /\ LET has_failed == monitor[m].failed # {}
         output == [has_failed |-> has_failed, sha |-> monitor[m].sha]
     IN monitor' = IF has_failed /\ monitor[m].mode = "check_and_create_issue"
                   THEN [monitor EXCEPT ![m].output = output, ![m].pc = "existing"]
                   ELSE [monitor EXCEPT ![m] = [Off(m) EXCEPT !.output = output]]
  /\ UNCHANGED <<Server, issues, passes>>

(***************************************************************************)
(* create_ci_issue_if_needed()                                             *)
(***************************************************************************)
ExistingOfCommit == 0   \* mutant: the titles are compared, with this commit's short sha
Existing == IF OpenIssues = {} THEN 0 ELSE CHOOSE n \in OpenIssues : \A o \in OpenIssues : o <= n

CreateIfNone(n) == IF n = 0 THEN "create" ELSE "assign"
CheckExistingIssues(m) ==
  /\ monitor[m].pc = "existing"
  /\ \/ monitor' = [monitor EXCEPT ![m].pc = CreateIfNone(Existing), ![m].next = Existing]
     \/ Leave(m)
  /\ UNCHANGED <<Server, issues, passes>>

NewIssue(sha) == [sha |-> sha, open |-> TRUE, assigned |-> FALSE]
(* The answer to the request may be lost after the issue was made.         *)
CreateIssue(m) ==
  /\ monitor[m].pc = "create"
  /\ \/ /\ issues' = Append(issues, NewIssue(monitor[m].sha))
        /\ \/ monitor' = [monitor EXCEPT ![m].pc = "assign", ![m].next = Len(issues')]
           \/ Leave(m)
     \/ Leave(m) /\ UNCHANGED issues
  /\ UNCHANGED <<Server, passes>>

(* The result is only printed: the pass says True either way.              *)
AssignViaGraphql(n) == {[issues EXCEPT ![n].assigned = TRUE], issues}
AssignIssue(m) ==
  /\ monitor[m].pc = "assign"
  /\ issues' \in AssignViaGraphql(monitor[m].next)
  /\ Leave(m)
  /\ UNCHANGED <<Server, passes>>

MonitorStep(m) ==
  \/ Start(m) \/ GetMainBranchCommit(m) \/ GetRepositoryWorkflows(m) \/ CheckWorkflowRuns(m)
  \/ SetOutputs(m) \/ CheckExistingIssues(m) \/ CreateIssue(m) \/ AssignIssue(m)
CiNext ==
  \/ \E m \in Monitors : MonitorStep(m)
  \/ Watched /\ (Push \/ \E w \in ToSet(Workflows) : StartRun(w) \/ FinishRun(w))
  \/ \E n \in OpenIssues : CloseIssue(n)

(***************************************************************************)
(* Properties                                                              *)
(***************************************************************************)
(* An issue names a commit for which a workflow has really failed, however *)
(* the branch moves while the workflows are asked about one by one.        *)
IssuesNameFailures == \A n \in DOMAIN issues : \E f \in failures : f[1] # OwnWorkflow /\ f[2] = issues[n].sha

(* A pass that reached every workflow while nothing changed says what is   *)
(* so: the outputs report a failure iff a workflow failed for the commit.  *)
QuietPassIsRight ==
  [][ \A m \in Monitors : monitor[m].pc = "runs" /\ monitor'[m].pc # "runs" /\ monitor[m].undisturbed =>
        (monitor'[m].output.has_failed <=>
           \E w \in ToSet(Workflows) \ {OwnWorkflow} : runs[w] = [sha |-> head, conclusion |-> "failure"]) ]_CiVars

(* A monitor that looks before it writes can double an issue that another  *)
(* one is about to open, but no more than that: there are never more open  *)
(* issues than monitors.                                                   *)
OpenIssuesBounded == Cardinality(OpenIssues) <= Cardinality(Monitors)

(* What the monitor tells is so: its issues are about failures and do not  *)
(* pile up, and its outputs are those of the branch.                       *)
MonitorIsRight == [](IssuesNameFailures /\ OpenIssuesBounded) /\ QuietPassIsRight
=============================================================================
