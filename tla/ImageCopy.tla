------------------------------ MODULE ImageCopy ------------------------------
(***************************************************************************)
(* scripts/copy_images_to_s3.py: list the images the database asks for,    *)
(* subtract the ones in the bucket, and let a pool of worker processes     *)
(* download, convert and upload what is missing.  The script is run again  *)
(* and again; the bucket is what stays.                                    *)
(***************************************************************************)
EXTENDS Naturals, FiniteSets, Sequences, SequencesExt, FiniteSetsExt

CONSTANTS DbRows,          \* the printings: [card, face, png], face 2 for the back of a card
          ImageWorkers,    \* the processes of the pool
          ImageSizes,      \* the sizes, in the order they are converted in
          MaxImageRuns     \* bound: how often the script is run

ASSUME ImageAssumption == IsFiniteSet(DbRows)

VARIABLES bucket,     \* object key <<card, face, size>> -> the row whose picture it holds
          image       \* the state of the script, a record

ImageVars == <<bucket, image>>

SizeSet == ToSet(ImageSizes)
DEFAULT_FACE == 1
Faces == {DEFAULT_FACE, 2}
Idle == [at |-> "idle"]

(* What a set code and a limit leave of the rows.                          *)
FetchCardsFromDb == SUBSET DbRows
Args == [rows : FetchCardsFromDb, skip_existing : BOOLEAN, dry_run : BOOLEAN]

ImageInit ==
  /\ bucket = << >>
  /\ image = [pc |-> "stopped", runs |-> 0, args |-> [rows |-> {}, skip_existing |-> TRUE, dry_run |-> FALSE],
              s3_cards |-> {}, todo |-> {}, tasks |-> 0, worker |-> [w \in ImageWorkers |-> Idle],
              results |-> {}, successful |-> {}, failed |-> {}]

(* main() up to the listing of the bucket.  A row of a third face makes    *)
(* CardImage raise.                                                        *)
GetDbCards ==
  /\ image.pc = "stopped" /\ image.runs < MaxImageRuns
  /\ \E a \in Args :
       image' = [image EXCEPT !.pc = IF \A r \in a.rows : r.face \in Faces THEN "list" ELSE "stopped",
                              !.runs = @ + 1, !.args = a, !.successful = {}, !.failed = {}]
  /\ UNCHANGED bucket

S3Cards(args) == IF args.skip_existing THEN DOMAIN bucket ELSE {}

GetS3Cards ==
  /\ image.pc = "list"
  /\ image' = [image EXCEPT !.pc = "group", !.s3_cards = S3Cards(image.args)]
  /\ UNCHANGED bucket

(* The images that are missing, one task for the card and face they are    *)
(* of.  No row at all is None, and subtracting from it raises.             *)
MissingSizes(r) == {s \in SizeSet : <<r.card, r.face, s>> \notin image.s3_cards}
CardsWithoutImages ==   \* mutant: only a card of which there is no image at all
  {r \in image.args.rows : MissingSizes(r) = SizeSet}
CardsWithMissingImages == {r \in image.args.rows : MissingSizes(r) # {}}

StartPool ==
  /\ image.pc = "group"
  /\ image' = IF image.args.rows = {} THEN [image EXCEPT !.pc = "stopped"]
              ELSE [image EXCEPT !.pc = "pool", !.todo = CardsWithMissingImages,
                                 !.tasks = Cardinality(CardsWithMissingImages)]
  /\ UNCHANGED bucket

(***************************************************************************)
(* process_card() in a worker.  A task has no size left out: all of them   *)
(* are made again.                                                         *)
(***************************************************************************)
NoneDone == [s \in SizeSet |-> FALSE]
AllDone == [s \in SizeSet |-> TRUE]
Return(r, res) == [row |-> r, res |-> res]

Take(w) ==
  /\ image.worker[w] = Idle
  /\ \E r \in image.todo :
       LET begun == [image EXCEPT !.todo = @ \ {r}]
       IN image' = IF ~r.png THEN [begun EXCEPT !.results = @ \cup {Return(r, NoneDone)}]
                   ELSE IF image.args.dry_run THEN [begun EXCEPT !.results = @ \cup {Return(r, AllDone)}]
                   ELSE [begun EXCEPT !.worker[w] = [at |-> "download", row |-> r, res |-> NoneDone, k |-> 1]]
  /\ UNCHANGED bucket

(* An error that is not one of requests or of cwebp leaves process_card(): *)
(* the task's result is the exception.                                     *)
Raised == [s \in {} |-> FALSE]
DeliverNoError(w, res) ==   \* mutant: the exception stays in the worker
  image' = IF res = Raised THEN [image EXCEPT !.worker[w] = Idle]
           ELSE [image EXCEPT !.worker[w] = Idle, !.results = @ \cup {Return(image.worker[w].row, res)}]
Deliver(w, res) ==
  image' = [image EXCEPT !.worker[w] = Idle, !.results = @ \cup {Return(image.worker[w].row, res)}]

Download(w) ==
  /\ image.worker[w].at = "download"
  /\ \/ image' = [image EXCEPT !.worker[w].at = "convert"]
     \/ Deliver(w, NoneDone)
     \/ Deliver(w, Raised)
  /\ UNCHANGED bucket

(* The key of every size has the default face, whatever the row's face is. *)
S3Key(r, size) == <<r.card, DEFAULT_FACE, size>>

UploadToS3(r, size) == [key \in DOMAIN bucket \cup {S3Key(r, size)} |->
                          IF key = S3Key(r, size) THEN r ELSE bucket[key]]

(* One size: converted and uploaded, or one of the two fails, or the       *)
(* upload raises what is not a ClientError.                                *)
NextSize(w, res) ==
  LET job == image.worker[w]
  IN IF job.k = Len(ImageSizes) THEN Deliver(w, res)
     ELSE image' = [image EXCEPT !.worker[w].k = @ + 1, !.worker[w].res = res]

ConvertAndUpload(w) ==
  /\ image.worker[w].at = "convert"
  /\ LET job == image.worker[w]
         size == ImageSizes[job.k]
     IN \/ /\ bucket' = UploadToS3(job.row, size)
           /\ NextSize(w, [job.res EXCEPT ![size] = TRUE])
        \/ /\ NextSize(w, job.res)
           /\ UNCHANGED bucket
        \/ /\ Deliver(w, Raised)
           /\ UNCHANGED bucket

(***************************************************************************)
(* main() counts what comes back, in any order.  An exception ends the     *)
(* counting; the pool is closed and works off what it was given.           *)
(***************************************************************************)
IsSuccessIfAny(res) == \E s \in DOMAIN res : res[s]   \* mutant: any(results.values())
IsSuccess(res) == \A s \in DOMAIN res : res[s]

CountResult ==
  /\ image.pc = "pool"
  /\ \E x \in image.results :
       image' = IF x.res = Raised THEN [image EXCEPT !.pc = "raised", !.results = @ \ {x}]
                ELSE IF IsSuccess(x.res)
                THEN [image EXCEPT !.results = @ \ {x}, !.successful = @ \cup {x.row}]
                ELSE [image EXCEPT !.results = @ \ {x}, !.failed = @ \cup {x.row}]
  /\ UNCHANGED bucket

JoinPool ==
  /\ image.todo = {} /\ \A w \in ImageWorkers : image.worker[w] = Idle
  /\ \/ image.pc = "pool" /\ Cardinality(image.successful) + Cardinality(image.failed) = image.tasks
        /\ image' = [image EXCEPT !.pc = "stopped"]
     \/ image.pc = "raised" /\ image' = [image EXCEPT !.pc = "stopped", !.results = {}]
  /\ UNCHANGED bucket

(* A listing raises, or the machine goes down, workers and all.            *)
ImageKill ==
  /\ image.pc # "stopped"
  /\ image' = [image EXCEPT !.pc = "stopped", !.todo = {}, !.worker = [w \in ImageWorkers |-> Idle],
                            !.results = {}]
  /\ UNCHANGED bucket

ImageProgress ==
  \/ GetS3Cards \/ StartPool \/ CountResult \/ JoinPool
  \/ \E w \in ImageWorkers : Take(w) \/ Download(w) \/ ConvertAndUpload(w)
ImageNext == GetDbCards \/ ImageProgress \/ ImageKill

(***************************************************************************)
(* Properties                                                              *)
(***************************************************************************)
WholeInBucket(r) == \A s \in SizeSet : <<r.card, r.face, s>> \in DOMAIN bucket

(* A run that counts all of its tasks leaves no single-faced card of its   *)
(* list behind: each one is complete in the bucket or was counted failed,  *)
(* also when an earlier run was killed between two sizes of it.            *)
NothingLeftBehind ==
  [][ (image.pc = "pool" /\ image'.pc = "stopped" /\ image.todo = {} /\ ~image.args.dry_run
         /\ Cardinality(image.successful \cup image.failed) = image.tasks)
      => \A r \in image.args.rows : r.face = DEFAULT_FACE => WholeInBucket(r) \/ r \in image.failed ]_ImageVars

(* "Skip cards that already have all images in S3 (default: True)": a card *)
(* that a run has counted successful is no task of a later one.            *)
DoneCardsAreSkipped ==
  image.pc = "pool" /\ image.args.skip_existing =>
    \A r \in image.todo : ~\A s \in SizeSet : S3Key(r, s) \in image.s3_cards

(* The script comes to its end: the pool gives a result for every task.    *)
ImageRunEnds == image.pc # "stopped" ~> image.pc = "stopped"
=============================================================================
