-------------------------------- MODULE Tools --------------------------------
(***************************************************************************)
(* The programs around the server: the image copier, the load client with  *)
(* its query sampler, the monitor of the continuous integration, the       *)
(* sketch of the shared cache, and the programs that fetch what other      *)
(* sites have.  They share nothing, and one of them runs.                  *)
(***************************************************************************)
EXTENDS ImageCopy, QueryRunner, CiMonitor, CacheSketch, Fetchers

VARIABLE tool

vars == <<tool, ImageVars, RunnerVars, CiVars, SketchVars, FetcherVars>>
AllTools == {"images", "load", "monitor", "sketch", "gatherer", "finder"}

Init ==
  /\ tool \in AllTools
  /\ ImageInit /\ RunnerInit /\ CiInit /\ SketchInit /\ FetcherInit
  /\ tool # "load" => /\ corpus = CHOOSE c \in Corpora : TRUE
                      /\ mode = "uniform"
                      /\ shape = CHOOSE sh \in Shapes : ShapeIsValid(sh)
  /\ tool # "gatherer" => ending = "not_found"

Images == tool = "images" /\ ImageNext /\ UNCHANGED <<tool, RunnerVars, CiVars, SketchVars, FetcherVars>>
Load == tool = "load" /\ RunnerNext /\ UNCHANGED <<tool, ImageVars, CiVars, SketchVars, FetcherVars>>
Monitoring == tool = "monitor" /\ CiNext /\ UNCHANGED <<tool, ImageVars, RunnerVars, SketchVars, FetcherVars>>
Sketching == tool = "sketch" /\ SketchNext /\ UNCHANGED <<tool, ImageVars, RunnerVars, CiVars, FetcherVars>>
Fetching == /\ (tool = "gatherer" /\ GathererNext) \/ (tool = "finder" /\ FinderNext)
            /\ UNCHANGED <<tool, ImageVars, RunnerVars, CiVars, SketchVars>>

Next == Images \/ Load \/ Monitoring \/ Sketching \/ Fetching

(* The processes of the pool and the main process of the copier are        *)
(* scheduled by the system; nothing obliges anyone to start a tool.        *)
Fairness == WF_vars(tool = "images" /\ ImageProgress /\ UNCHANGED <<tool, RunnerVars, CiVars, SketchVars, FetcherVars>>)
Spec == Init /\ [][Next]_vars /\ Fairness

(* Of what a tool has listed, nothing is left behind when it reports its   *)
(* end: images are in the bucket or counted failed, and what a site lists  *)
(* was fetched, or the report says what was not.                           *)
ToolsLeaveNothing == NothingLeftBehind /\ []FetchersLeaveNothing
=============================================================================
