------------------------------ MODULE ImageJobs ------------------------------
(***************************************************************************)
(* The Darkroom: rows of image_jobs, the files beside them, the driver of  *)
(* each job with the queue it reads, the machine that may have to be woken,*)
(* the imager's renders, and the watchdog.                                 *)
(***************************************************************************)
EXTENDS Integers, Sequences, FiniteSets

CONSTANTS
  Job, Conn, None,
  Budget,         \* image_daily_budget
  MaxBatch,       \* image_max_batch
  MinDim, MaxDim, \* bounds of a side, in pixels
  TargetPixels,   \* the area a source image is scaled to
  RawSides, RawBatches, \* what callers ask for
  Uploads         \* sizes of the images callers upload

ASSUME DimsAssumption ==
  /\ MinDim \in Nat \ {0} /\ MaxDim \in Nat /\ MinDim <= MaxDim
  /\ MinDim % 8 = 0 /\ MaxDim % 8 = 0 /\ TargetPixels \in Nat \ {0}
ASSUME BudgetAssumption == Budget \in Nat \ {0} /\ MaxBatch \in Nat \ {0}
ASSUME NoneIsNoConn == None \notin Conn
ASSUME CallersAssumption ==
  RawSides \subseteq Int /\ RawBatches \subseteq Int /\ Uploads \subseteq Nat \X Nat

VARIABLES
  rows,       \* image_jobs
  disk,       \* job -> its directory: the images, and the source image
  counted,    \* API calls that passed the budget and have not inserted yet
  wakeable,   \* IMAGE_MACHINE is configured
  driver, queue, \* job -> _drive_job, and its _Pending queue
  power,      \* the imager's machine: "off", "booting" or "on"
  phase,      \* connection -> "new", "open", "closing" (finally) or "closed"
  busy,       \* connection -> LiveWorker.current_image_jobs
  requests, results, \* messages under way on a connection
  render      \* job -> the imager's run_image_job

tables == <<rows, disk, counted, wakeable>>
drivers == <<driver, queue>>
wire == <<power, phase, requests, results, render>>
imgVars == <<tables, drivers, busy, wire>>

Active == {"pending", "waking", "running"}
Final == {"done", "error"}
Index == 0 .. MaxBatch - 1
Workflow == {"txt2img", "img2img"}

Row == [status: {"absent"} \cup Active \cup Final, api: BOOLEAN, workflow: Workflow,
        source: BOOLEAN, side: 0 .. MaxDim, batch: 0 .. MaxBatch, images: SUBSET Index]
NoRow == [status |-> "absent", api |-> FALSE, workflow |-> "txt2img", source |-> FALSE,
          side |-> 0, batch |-> 0, images |-> {}]

Directory == [images: SUBSET Index, input: BOOLEAN]
Emptied == [images |-> {}, input |-> FALSE]

Driver == [at: {"none", "start", "wake", "poll", "mark", "send", "collect"},
           conn: Conn \cup {None}, expected: 0 .. MaxBatch, got: SUBSET Index]
NoDriver == [at |-> "none", conn |-> None, expected |-> 0, got |-> {}]

\* What a driver reads: an image, the worker's failure or the loss of the worker.
Item(kind, index, total) == [kind |-> kind, index |-> index, total |-> total]
Items == [kind: {"image", "failed", "lost"}, index: Index, total: 0 .. MaxBatch]

Render == [at: {"none", "rendering", "sending", "over"}, sent: 0 .. MaxBatch,
           total: 0 .. MaxBatch]
NoRender == [at |-> "none", sent |-> 0, total |-> 0]

ImageTypeOK ==
  /\ rows \in [Job -> Row]
  /\ disk \in [Job -> Directory]
  /\ counted \subseteq Job /\ wakeable \in BOOLEAN
  /\ driver \in [Job -> Driver] /\ queue \in [Job -> Seq(Items)]
  /\ power \in {"off", "booting", "on"}
  /\ phase \in [Conn -> {"new", "open", "closing", "closed"}]
  /\ busy \in [Conn -> SUBSET Job] /\ requests \in [Conn -> SUBSET Job]
  /\ results \in [Conn -> Seq(Job \X Items)]
  /\ render \in [Job -> Render]

ImageInit ==
  /\ rows = [j \in Job |-> NoRow] /\ disk = [j \in Job |-> Emptied]
  /\ counted = {} /\ wakeable \in BOOLEAN
  /\ driver = [j \in Job |-> NoDriver] /\ queue = [j \in Job |-> <<>>]
  /\ power \in {"off", "on"}
  /\ phase = [c \in Conn |-> "new"] /\ busy = [c \in Conn |-> {}]
  /\ requests = [c \in Conn |-> {}] /\ results = [c \in Conn |-> <<>>]
  /\ render = [j \in Job |-> NoRender]

Imagers == {c \in Conn : phase[c] = "open"}
\* pick_imager prefers idle imagers.
Pick == IF \E c \in Imagers : busy[c] = {} THEN {c \in Imagers : busy[c] = {}} ELSE Imagers

(***************************************************************************)
(* What callers ask for.                                                   *)
(***************************************************************************)
Clamp(v, lo, hi) == IF v < lo THEN lo ELSE IF v > hi THEN hi ELSE v
Step8(v) == v - (v % 8)

NormalSide(v) == Step8(Clamp(v, MinDim, MaxDim))

\* Slip: the scaled side is not brought to a multiple of 8.
PreparedSideUnrounded(w, h) ==
  LET fits == {n \in 1 .. MaxDim : (2 * n - 1) * (2 * n - 1) * h <= 4 * TargetPixels * w}
  IN  Clamp(Cardinality(fits), MinDim, MaxDim)

\* w * sqrt(TargetPixels / (w * h)), rounded, clamped and brought to a step of 8:
\* n is at most the rounded side iff (n - 1/2)^2 * h <= TargetPixels * w.
PreparedSide(w, h) ==
  LET fits == {n \in 1 .. MaxDim : (2 * n - 1) * (2 * n - 1) * h <= 4 * TargetPixels * w}
  IN  Step8(Clamp(Cardinality(fits), MinDim, MaxDim))

\* A source image decides the workflow and the size.
Prepared(workflow, w, h, batch) ==
  [NoRow EXCEPT !.workflow = "img2img", !.source = TRUE, !.side = PreparedSide(w, h),
                !.batch = Clamp(batch, 1, MaxBatch)]
Plain(workflow, side, batch) ==
  [NoRow EXCEPT !.workflow = workflow, !.side = NormalSide(side),
                !.batch = Clamp(batch, 1, MaxBatch)]

Wanted ==
  {Plain(f, v, b) : f \in Workflow, v \in RawSides, b \in RawBatches} \cup
  {Prepared(f, u[1], u[2], b) :
     f \in Workflow, u \in {v \in Uploads : v[1] >= 8 /\ v[2] >= 8}, b \in RawBatches}

(***************************************************************************)
(* submit_job.                                                             *)
(***************************************************************************)
ApiJobs == {j \in Job : rows[j].status # "absent" /\ rows[j].api}

CountToday(j) ==
  /\ rows[j].status = "absent" /\ j \notin counted
  /\ Cardinality(ApiJobs) < Budget
  /\ counted' = counted \cup {j}
  /\ UNCHANGED <<rows, disk, wakeable, drivers, busy, wire>>

NobodyHome == Imagers = {} /\ ~wakeable
Insert(j, row) ==
  /\ rows' = [rows EXCEPT ![j] = row]
  /\ disk' = [disk EXCEPT ![j] = [images |-> {}, input |-> row.source]]
  /\ driver' = [driver EXCEPT ![j].at = "start"]
  /\ UNCHANGED <<wakeable, queue, busy, wire>>

SubmitApi(j) ==
  /\ j \in counted
  /\ counted' = counted \ {j}
  /\ \/ /\ NobodyHome
        /\ UNCHANGED <<rows, disk, wakeable, drivers, busy, wire>>
     \/ /\ ~NobodyHome
        /\ \E row \in Wanted : Insert(j, [row EXCEPT !.status = "pending", !.api = TRUE])

SubmitForm(j) ==
  /\ rows[j].status = "absent" /\ j \notin counted /\ ~NobodyHome
  /\ \E row \in Wanted : Insert(j, [row EXCEPT !.status = "pending"])
  /\ UNCHANGED counted

\* Same parameters, and the same source while its file is there.
Reroll(j, k) ==
  /\ rows[j].status # "absent" /\ rows[k].status = "absent" /\ k \notin counted
  /\ ~NobodyHome
  /\ LET source == rows[j].source /\ disk[j].input
         row == [rows[j] EXCEPT !.status = "pending", !.api = FALSE, !.images = {},
                                !.source = source]
     IN  Insert(k, row)
  /\ UNCHANGED counted

(***************************************************************************)
(* _drive_job: the finally clause is part of every end.                    *)
(***************************************************************************)
\* Slip: the imager keeps the job on its list.
EndsLeavingBusy(j) ==
  /\ driver' = [driver EXCEPT ![j] = NoDriver]
  /\ queue' = [queue EXCEPT ![j] = <<>>]
  /\ UNCHANGED busy

Ends(j) ==
  /\ driver' = [driver EXCEPT ![j] = NoDriver]
  /\ queue' = [queue EXCEPT ![j] = <<>>]
  /\ busy' = [c \in Conn |-> IF c = driver[j].conn THEN busy[c] \ {j} ELSE busy[c]]
Fails(j) ==
  /\ Ends(j)
  /\ rows' = [rows EXCEPT ![j].status = "error"]

Take(j) ==
  \E c \in Pick :
    /\ driver' = [driver EXCEPT ![j].at = "mark", ![j].conn = c]
    /\ busy' = [busy EXCEPT ![c] = @ \cup {j}]

FindImager(j) ==
  /\ driver[j].at = "start"
  /\ \/ /\ Take(j)
        /\ UNCHANGED <<rows, queue>>
     \/ /\ NobodyHome
        /\ Fails(j)
     \/ /\ Imagers = {} /\ wakeable
        /\ rows' = [rows EXCEPT ![j].status = "waking"]
        /\ driver' = [driver EXCEPT ![j].at = "wake"]
        /\ UNCHANGED <<queue, busy>>
  /\ UNCHANGED <<disk, counted, wakeable, wire>>

\* The packet may be lost on its way; the agent cannot know.
Wake(j) ==
  /\ driver[j].at = "wake"
  /\ \/ /\ Fails(j)
        /\ UNCHANGED power
     \/ /\ driver' = [driver EXCEPT ![j].at = "poll"]
        /\ power' \in {power, IF power = "off" THEN "booting" ELSE power}
        /\ UNCHANGED <<rows, queue, busy>>
  /\ UNCHANGED <<disk, counted, wakeable, phase, requests, results, render>>

PollRegistry(j) ==
  /\ driver[j].at = "poll"
  /\ Take(j)
  /\ UNCHANGED <<tables, queue, wire>>
WakeTimeout(j) ==
  /\ driver[j].at = "poll"
  /\ Fails(j)
  /\ UNCHANGED <<disk, counted, wakeable, wire>>

MarkRunning(j) ==
  /\ driver[j].at = "mark"
  /\ rows' = [rows EXCEPT ![j].status = "running"]
  /\ driver' = [driver EXCEPT ![j].at = "send"]
  /\ UNCHANGED <<disk, counted, wakeable, queue, busy, wire>>

SendRequest(j) ==
  /\ driver[j].at = "send"
  /\ LET c == driver[j].conn
     IN  \/ /\ phase[c] = "open"
            /\ requests' = [requests EXCEPT ![c] = @ \cup {j}]
            /\ driver' = [driver EXCEPT ![j].at = "collect", ![j].expected = rows[j].batch]
            /\ UNCHANGED <<rows, queue, busy>>
         \/ /\ phase[c] # "open"
            /\ Fails(j)
            /\ UNCHANGED requests
  /\ UNCHANGED <<disk, counted, wakeable, power, phase, results, render>>

\* Slip: the batch of the request says how many images come.
CollectRequested(j) ==
  /\ driver[j].at = "collect" /\ queue[j] # <<>>
  /\ LET item == Head(queue[j])
         got == driver[j].got \cup {item.index}
     IN  IF item.kind # "image" THEN Fails(j) /\ UNCHANGED disk
         ELSE /\ disk' = [disk EXCEPT ![j].images = @ \cup {item.index}]
              /\ IF Cardinality(got) >= driver[j].expected
                 THEN /\ Ends(j)
                      /\ rows' = [rows EXCEPT ![j].status = "done", ![j].images = got]
                 ELSE /\ driver' = [driver EXCEPT ![j].got = got]
                      /\ queue' = [queue EXCEPT ![j] = Tail(@)]
                      /\ UNCHANGED <<rows, busy>>
  /\ UNCHANGED <<counted, wakeable, wire>>

\* The worker is authoritative about how many images come.
Collect(j) ==
  /\ driver[j].at = "collect" /\ queue[j] # <<>>
  /\ LET item == Head(queue[j])
         got == driver[j].got \cup {item.index}
     IN  IF item.kind # "image" THEN Fails(j) /\ UNCHANGED disk
         ELSE /\ disk' = [disk EXCEPT ![j].images = @ \cup {item.index}]
              /\ IF Cardinality(got) >= item.total
                 THEN /\ Ends(j)
                      /\ rows' = [rows EXCEPT ![j].status = "done", ![j].images = got]
                 ELSE /\ driver' = [driver EXCEPT ![j].got = got, ![j].expected = item.total]
                      /\ queue' = [queue EXCEPT ![j] = Tail(@)]
                      /\ UNCHANGED <<rows, busy>>
  /\ UNCHANGED <<counted, wakeable, wire>>

RenderTimeout(j) ==
  /\ driver[j].at = "collect"
  /\ Fails(j)
  /\ UNCHANGED <<disk, counted, wakeable, wire>>

(***************************************************************************)
(* The imager.  A render goes on when its connection is lost, and sends    *)
(* over whatever connection the process has by then.                       *)
(***************************************************************************)
StartRender(c, j) ==
  /\ j \in requests[c]
  /\ requests' = [requests EXCEPT ![c] = @ \ {j}]
  /\ render' = [render EXCEPT ![j].at = "rendering"]
  /\ UNCHANGED <<tables, drivers, busy, power, phase, results>>

\* The workflow decides how many images the graph saves.
Rendered(j) ==
  /\ render[j].at = "rendering"
  /\ \E n \in 1 .. MaxBatch :
       render' = [render EXCEPT ![j] = [at |-> "sending", sent |-> 0, total |-> n]]
  /\ UNCHANGED <<tables, drivers, busy, power, phase, requests, results>>

Send(j, item) ==
  \E c \in Imagers : results' = [results EXCEPT ![c] = Append(@, <<j, item>>)]

\* Slip: the loop goes one image too far.
SendImageOnward(j) ==
  /\ render[j].at = "sending"
  /\ LET n == render[j].sent + 1
     IN  /\ Send(j, Item("image", n - 1, render[j].total))
         /\ render' = [render EXCEPT ![j].sent = n,
                         ![j].at = IF n > render[j].total THEN "over" ELSE @]
  /\ UNCHANGED <<tables, drivers, busy, power, phase, requests>>

SendImage(j) ==
  /\ render[j].at = "sending"
  /\ LET n == render[j].sent + 1
     IN  \/ /\ Send(j, Item("image", n - 1, render[j].total))
            /\ render' = [render EXCEPT ![j].sent = n,
                            ![j].at = IF n = render[j].total THEN "over" ELSE @]
         \/ /\ Imagers = {}
            /\ render' = [render EXCEPT ![j].at = "over"]
            /\ UNCHANGED results
  /\ UNCHANGED <<tables, drivers, busy, power, phase, requests>>

\* ComfyUI refused, failed, timed out or saved nothing.
RenderFails(j) ==
  /\ render[j].at = "rendering"
  /\ render' = [render EXCEPT ![j].at = "over"]
  /\ \/ Send(j, Item("failed", 0, 1))
     \/ Imagers = {} /\ UNCHANGED results
  /\ UNCHANGED <<tables, drivers, busy, power, phase, requests>>

(***************************************************************************)
(* The socket, at the orchestrator's end.                                  *)
(***************************************************************************)
\* resolve_image: a result nobody waits for is dropped.
HandleResult(c) ==
  /\ phase[c] = "open" /\ results[c] # <<>>
  /\ LET j == Head(results[c])[1]  item == Head(results[c])[2]
     IN  IF driver[j].at # "none"
         THEN queue' = [queue EXCEPT ![j] = Append(@, item)] /\ UNCHANGED busy
         ELSE busy' = [busy EXCEPT ![c] = @ \ {j}] /\ UNCHANGED queue
  /\ results' = [results EXCEPT ![c] = Tail(@)]
  /\ UNCHANGED <<tables, driver, power, phase, requests, render>>

Connect(c) ==
  /\ phase[c] = "new" /\ power = "on" /\ Imagers = {}
  /\ phase' = [phase EXCEPT ![c] = "open"]
  /\ UNCHANGED <<tables, drivers, busy, power, requests, results, render>>

Disconnect(c) ==
  /\ phase[c] = "open"
  /\ phase' = [phase EXCEPT ![c] = "closing"]
  /\ requests' = [requests EXCEPT ![c] = {}] /\ results' = [results EXCEPT ![c] = <<>>]
  /\ UNCHANGED <<tables, drivers, busy, power, render>>

\* fail_image_jobs.
FailInFlight(c) ==
  /\ phase[c] = "closing"
  /\ phase' = [phase EXCEPT ![c] = "closed"]
  /\ queue' = [j \in Job |-> IF j \in busy[c] /\ driver[j].at # "none"
                             THEN Append(queue[j], Item("lost", 0, 0)) ELSE queue[j]]
  /\ UNCHANGED <<tables, driver, busy, power, requests, results, render>>

(***************************************************************************)
(* The machine, the watchdog and restarts of the orchestrator.             *)
(***************************************************************************)
\* Operators wake the machine from the dashboard too.
Boot ==
  /\ \/ power = "booting" /\ power' = "on"
     \/ power = "off" /\ power' = "booting"
  /\ UNCHANGED <<tables, drivers, busy, phase, requests, results, render>>

Shutdown ==
  /\ power = "on" /\ power' = "off"
  /\ phase' = [c \in Conn |-> IF phase[c] = "open" THEN "closing" ELSE phase[c]]
  /\ requests' = [c \in Conn |-> {}] /\ results' = [c \in Conn |-> <<>>]
  /\ render' = [j \in Job |-> IF render[j].at = "none" THEN NoRender
                              ELSE [render[j] EXCEPT !.at = "over"]]
  /\ UNCHANGED <<tables, drivers, busy>>

\* Slip: jobs that wait for the machine are not looked at.
StaleRunning == {j \in Job : rows[j].status \in {"pending", "running"} /\ driver[j].at = "none"}
\* Slip: whether a driver has the job is not looked at.
StaleAny == {j \in Job : rows[j].status \in Active}

\* Rows not updated for 15 minutes.  The query and the check of is_pending are
\* one step: a driver writes its row more often than that.
Stale == {j \in Job : rows[j].status \in Active /\ driver[j].at = "none"}

Sweep(old) ==
  /\ old \subseteq Stale /\ old # {}
  /\ rows' = [j \in Job |-> IF j \in old THEN [rows[j] EXCEPT !.status = "error"] ELSE rows[j]]
  /\ UNCHANGED <<disk, counted, wakeable, drivers, busy, wire>>

\* image_retention_days: the files go, the rows stay.
SweepOld(j) ==
  /\ rows[j].status = "done" /\ disk[j] # Emptied
  /\ disk' = [disk EXCEPT ![j] = Emptied]
  /\ UNCHANGED <<rows, counted, wakeable, drivers, busy, wire>>

Restart ==
  /\ counted' = {}
  /\ driver' = [j \in Job |-> NoDriver] /\ queue' = [j \in Job |-> <<>>]
  /\ busy' = [c \in Conn |-> {}]
  /\ phase' = [c \in Conn |-> IF phase[c] \in {"open", "closing"} THEN "closed" ELSE phase[c]]
  /\ requests' = [c \in Conn |-> {}] /\ results' = [c \in Conn |-> <<>>]
  /\ UNCHANGED <<rows, disk, wakeable, power, render>>

Drive(j) == \/ FindImager(j) \/ Wake(j) \/ PollRegistry(j) \/ WakeTimeout(j)
            \/ MarkRunning(j) \/ SendRequest(j) \/ Collect(j) \/ RenderTimeout(j)
Watch == \E old \in SUBSET Job : Sweep(old)

ImageNext ==
  \/ \E j \in Job : \/ CountToday(j) \/ SubmitApi(j) \/ SubmitForm(j) \/ Drive(j)
                    \/ Rendered(j) \/ SendImage(j) \/ RenderFails(j) \/ SweepOld(j)
  \/ \E j, k \in Job : Reroll(j, k)
  \/ \E c \in Conn : \/ Connect(c) \/ Disconnect(c) \/ FailInFlight(c) \/ HandleResult(c)
                     \/ \E j \in Job : StartRender(c, j)
  \/ Boot \/ Shutdown \/ Watch \/ Restart

\* Drivers go on, their timeouts included, and the watchdog comes by.
ImageFairness == (\A j \in Job : WF_imgVars(Drive(j))) /\ WF_imgVars(Watch)
ImageSpec == ImageInit /\ [][ImageNext]_imgVars /\ ImageFairness

(***************************************************************************)
(* A finished job has every image its render saved, and they were written: *)
(* only the retention sweep, which empties the directory, takes them away. *)
(***************************************************************************)
DoneIsWhole ==
  \A j \in Job : rows[j].status = "done" =>
    /\ rows[j].images = 0 .. render[j].total - 1
    /\ disk[j] = Emptied \/ rows[j].images \subseteq disk[j].images

(***************************************************************************)
(* A job ends once: late images, lost connections, restarts and sweeps do  *)
(* not touch one that is done or failed.                                   *)
(***************************************************************************)
EndsOnce ==
  [][\A j \in Job : rows[j].status \in Final => rows'[j].status = rows[j].status]_imgVars

(***************************************************************************)
(* The watchdog takes no job from under its driver, and no job ends twice: *)
(* nobody drives a row that is final.                                      *)
(***************************************************************************)
DrivenWhileActive ==
  \A j \in Job : driver[j].at # "none" => rows[j].status \in Active

(***************************************************************************)
(* An imager that looks busy is: every job on its list has a driver that   *)
(* waits for it.  An idle imager is what Pilot's image tool asks for.      *)
(***************************************************************************)
BusyIsServed ==
  \A c \in Conn : \A j \in busy[c] : driver[j].at # "none" /\ driver[j].conn = c

(***************************************************************************)
(* No driver is left over and none is missing: what is driven is active,   *)
(* what keeps an imager busy is driven.                                    *)
(***************************************************************************)
DriversServe == DrivenWhileActive /\ BusyIsServed

(***************************************************************************)
(* What is asked of an imager renders: sides it accepts, and a source only *)
(* for a workflow with a place for one.                                    *)
(***************************************************************************)
RequestsRender ==
  \A j \in Job : rows[j].status # "absent" =>
    /\ rows[j].side \in MinDim .. MaxDim /\ rows[j].side % 8 = 0
    /\ rows[j].source => rows[j].workflow = "img2img"

(***************************************************************************)
(* Rows, files, drivers and renders have their types, and rows can be      *)
(* rendered, uploads of any size and re-rolls included.                    *)
(***************************************************************************)
ImageInv == ImageTypeOK /\ RequestsRender

(***************************************************************************)
(* Every job ends, whatever is lost, and with the orchestrator restarting. *)
(***************************************************************************)
JobsEnd == \A j \in Job : rows[j].status \in Active ~> rows[j].status \in Final
=============================================================================
