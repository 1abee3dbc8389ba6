--------------------------- MODULE ImageJobsProofs ---------------------------
(***************************************************************************)
(* Proofs about ImageJobs, for any jobs and connections, budgets, sizes    *)
(* and uploads.                                                            *)
(***************************************************************************)
EXTENDS ImageJobs, FiniteSetTheorems, TLAPS

-----------------------------------------------------------------------------
(* What callers ask for.                                                   *)

\* A clamped number is a number between the bounds.
LEMMA ClampLemma ==
  ASSUME NEW v \in Int, NEW lo \in Nat, NEW hi \in Nat, lo <= hi
  PROVE Clamp(v, lo, hi) \in lo .. hi
BY DEF Clamp

\* Bringing a side to a multiple of 8 keeps it between the bounds.
LEMMA SideLemma ==
  ASSUME NEW v \in MinDim .. MaxDim
  PROVE /\ Step8(v) \in MinDim .. MaxDim /\ Step8(v) \in 0 .. MaxDim
        /\ Step8(v) % 8 = 0
<1> USE DimsAssumption
<1> DEFINE q == v \div 8
           m == MinDim \div 8
<1>1. /\ v \in Nat /\ q \in Int /\ v = 8 * q + (v % 8) /\ v % 8 \in 0 .. 7
  OBVIOUS
<1>2. m \in Int /\ MinDim = 8 * m OBVIOUS
<1> HIDE DEF q, m
<1>3. Step8(v) = 8 * q BY <1>1 DEF Step8
<1>4. (8 * q) % 8 = 0 BY <1>1
<1>5. q >= m BY <1>1, <1>2
<1> QED BY <1>1, <1>2, <1>3, <1>4, <1>5

\* A row of NoRow with a side and a batch within bounds.
LEMMA RowLemma ==
  ASSUME NEW f \in Workflow, NEW source \in BOOLEAN, NEW side \in 0 .. MaxDim,
         NEW batch \in 0 .. MaxBatch, NEW row,
         row = [status |-> "absent", api |-> FALSE, workflow |-> f, source |-> source,
                side |-> side, batch |-> batch, images |-> {}]
  PROVE /\ row \in Row /\ row.status = "absent" /\ row.images = {} /\ row.side = side
        /\ row.source = source /\ row.workflow = f
BY DEF Row

\* Whatever the form or the API were given, the row can be rendered.
LEMMA WantedLemma ==
  ASSUME NEW row \in Wanted
  PROVE /\ row \in Row /\ row.status = "absent" /\ row.images = {}
        /\ row.side \in MinDim .. MaxDim /\ row.side % 8 = 0
        /\ row.source => row.workflow = "img2img"
<1> USE DimsAssumption, BudgetAssumption, CallersAssumption
<1>1. \A b \in RawBatches : Clamp(b, 1, MaxBatch) \in 1 .. MaxBatch BY ClampLemma
<1>2. CASE \E f \in Workflow, v \in RawSides, b \in RawBatches : row = Plain(f, v, b)
  <2>1. PICK f \in Workflow, v \in RawSides, b \in RawBatches : row = Plain(f, v, b)
    BY <1>2
  <2>2. Clamp(v, MinDim, MaxDim) \in MinDim .. MaxDim BY ClampLemma
  <2>3. /\ NormalSide(v) \in MinDim .. MaxDim /\ NormalSide(v) \in 0 .. MaxDim
        /\ NormalSide(v) % 8 = 0
    BY <2>2, SideLemma DEF NormalSide
  <2>4. row = [status |-> "absent", api |-> FALSE, workflow |-> f, source |-> FALSE,
               side |-> NormalSide(v), batch |-> Clamp(b, 1, MaxBatch), images |-> {}]
    BY <2>1 DEF Plain, NoRow
  <2>5. Clamp(b, 1, MaxBatch) \in 0 .. MaxBatch BY <1>1
  <2> QED BY <2>3, <2>4, <2>5, RowLemma
<1>3. CASE \E f \in Workflow, u \in {v \in Uploads : v[1] >= 8 /\ v[2] >= 8},
              b \in RawBatches : row = Prepared(f, u[1], u[2], b)
  <2>1. PICK f \in Workflow, u \in Uploads, b \in RawBatches :
          row = Prepared(f, u[1], u[2], b)
    BY <1>3
  <2> DEFINE w == u[1]
             h == u[2]
             fits == {n \in 1 .. MaxDim :
                        (2 * n - 1) * (2 * n - 1) * h <= 4 * TargetPixels * w}
  <2>2. Cardinality(fits) \in Nat
    <3>2. fits \subseteq 1 .. MaxDim OBVIOUS
    <3> HIDE DEF fits
    <3>1. MaxDim \in Int /\ 1 \in Int OBVIOUS
    <3>4. IsFiniteSet(1 .. MaxDim) BY ONLY <3>1, FS_Interval
    <3>3. IsFiniteSet(fits) BY <3>4, <3>2, FS_Subset
    <3> QED BY <3>3, FS_CardinalityType
  <2>3. Clamp(Cardinality(fits), MinDim, MaxDim) \in MinDim .. MaxDim
    <3> HIDE DEF fits
    <3>1. /\ MinDim \in Nat /\ MaxDim \in Nat /\ MinDim <= MaxDim
          /\ Cardinality(fits) \in Int
      BY <2>2
    <3> QED BY ONLY <3>1, ClampLemma
  <2>4. /\ PreparedSide(w, h) \in MinDim .. MaxDim /\ PreparedSide(w, h) \in 0 .. MaxDim
        /\ PreparedSide(w, h) % 8 = 0
    BY <2>3, SideLemma DEF PreparedSide
  <2> HIDE DEF fits, w, h
  <2>5. row = Prepared(f, w, h, b) BY <2>1 DEF w, h
  <2>6. row = [status |-> "absent", api |-> FALSE, workflow |-> "img2img",
               source |-> TRUE, side |-> PreparedSide(w, h),
               batch |-> Clamp(b, 1, MaxBatch), images |-> {}]
    BY <2>5 DEF Prepared, NoRow
  <2>7. Clamp(b, 1, MaxBatch) \in 0 .. MaxBatch /\ "img2img" \in Workflow
    BY <1>1 DEF Workflow
  <2> QED BY <2>4, <2>6, <2>7, RowLemma
<1> QED BY <1>2, <1>3 DEF Wanted

-----------------------------------------------------------------------------
(* The inductive invariant.                                                *)

Elems(s) == {s[i] : i \in 1 .. Len(s)}

\* A render counts up to its total, and has not begun to before it has one.
RendersFit ==
  \A j \in Job :
    /\ render[j].sent <= render[j].total
    /\ render[j].at \in {"none", "rendering"} => render[j].sent = 0
    /\ render[j].at = "sending" => render[j].sent < render[j].total

\* An image under way, or waiting for its driver, was sent by the job's render.
ItemFits(j, item) ==
  item.kind = "image" => item.index < render[j].sent /\ item.total = render[j].total
ItemsFit ==
  /\ \A c \in Conn : \A m \in Elems(results[c]) : ItemFits(m[1], m[2])
  /\ \A j \in Job : \A item \in Elems(queue[j]) : ItemFits(j, item)

\* A job is requested once, by its only driver, and rendered once.
Asked(j) == rows[j].status # "absent" /\ driver[j].at \in {"none", "collect"}
RequestedOnce ==
  /\ \A c \in Conn, j \in Job : j \in requests[c] =>
       /\ Asked(j) /\ render[j].at = "none"
       /\ \A d \in Conn : j \in requests[d] => d = c
  /\ \A j \in Job : render[j].at # "none" => Asked(j)

\* What a driver holds fits where it is.
DriversFit ==
  \A j \in Job :
    /\ driver[j].at = "none" => driver[j] = NoDriver
    /\ driver[j].at \in {"start", "wake", "poll"} => driver[j].conn = None
    /\ driver[j].at \in {"mark", "send", "collect"} => driver[j].conn \in Conn
    /\ driver[j].got \subseteq 0 .. render[j].sent - 1
    /\ driver[j].got \subseteq disk[j].images
    /\ j \in counted => rows[j].status = "absent"

\* A job that is done has its images, and its render is over.
DoneIsOver ==
  \A j \in Job : rows[j].status = "done" =>
    /\ render[j].at = "over"
    /\ rows[j].images = 0 .. render[j].total - 1
    /\ disk[j] = Emptied \/ rows[j].images \subseteq disk[j].images

DarkroomInv ==
  /\ ImageTypeOK /\ RequestsRender
  /\ RendersFit /\ ItemsFit
  /\ RequestedOnce /\ DriversFit
  /\ DrivenWhileActive /\ BusyIsServed
  /\ DoneIsOver

-----------------------------------------------------------------------------
(* Updates, as their readers see them.                                     *)

\* The elements of a queue, as it grows and shrinks.
LEMMA ElemsLemma ==
  ASSUME NEW S, NEW s \in Seq(S)
  PROVE /\ Elems(s) \subseteq S
        /\ \A e : Elems(Append(s, e)) = Elems(s) \cup {e}
        /\ s # <<>> => Head(s) \in Elems(s) /\ Elems(Tail(s)) \subseteq Elems(s)
BY DEF Elems

LEMMA NoElems == Elems(<<>>) = {}
BY DEF Elems

\* What is under way is about jobs.
LEMMA JobsLemma ==
  ASSUME ImageTypeOK, NEW c \in Conn
  PROVE /\ requests[c] \subseteq Job /\ busy[c] \subseteq Job
        /\ \A m \in Elems(results[c]) : m[1] \in Job /\ m[2] \in Items
BY DEF ImageTypeOK, Elems

LEMMA QueueLemma ==
  ASSUME ImageTypeOK, NEW j \in Job
  PROVE Elems(queue[j]) \subseteq Items
BY DEF ImageTypeOK, Elems

\* What is sent is at the end of some imager's queue.
LEMMA SendingLemma ==
  ASSUME ImageTypeOK, NEW j \in Job, NEW item \in Items, Send(j, item)
  PROVE /\ results' \in [Conn -> Seq(Job \X Items)]
        /\ \A c \in Conn : \A m \in Elems(results'[c]) :
             m \in Elems(results[c]) \/ m = <<j, item>>
<1>1. PICK c \in Conn : results' = [results EXCEPT ![c] = Append(@, <<j, item>>)]
  BY DEF Send, Imagers
<1>2. results[c] \in Seq(Job \X Items) /\ <<j, item>> \in Job \X Items
  BY DEF ImageTypeOK
<1>3. Append(results[c], <<j, item>>) \in Seq(Job \X Items)
  BY <1>2
<1>4. Elems(Append(results[c], <<j, item>>)) = Elems(results[c]) \cup {<<j, item>>}
  BY ONLY <1>2, ElemsLemma
<1> QED BY <1>1, <1>3, <1>4 DEF ImageTypeOK

\* Enough of a render's images are all of them.
LEMMA WholeLemma ==
  ASSUME NEW s \in Nat, NEW t \in Nat, s <= t,
         NEW S \in SUBSET (0 .. s - 1), Cardinality(S) >= t
  PROVE S = 0 .. t - 1 /\ s = t
<1>1. IsFiniteSet(0 .. s - 1) /\ Cardinality(0 .. s - 1) = s
  BY FS_Interval, 0 \in Int, s - 1 \in Int
<1>2. /\ Cardinality(S) <= Cardinality(0 .. s - 1) /\ Cardinality(S) \in Nat
      /\ Cardinality(S) = Cardinality(0 .. s - 1) => S = 0 .. s - 1
  BY <1>1, FS_Subset, FS_CardinalityType
<1> QED BY <1>1, <1>2

Statuses == {"absent"} \cup Active \cup Final

\* A row whose status is written keeps the rest.
LEMMA StatusLemma ==
  ASSUME rows \in [Job -> Row], NEW j \in Job, NEW s \in Statuses,
         NEW r, r = [rows EXCEPT ![j].status = s]
  PROVE /\ r \in [Job -> Row]
        /\ \A k \in Job : k # j => r[k] = rows[k]
        /\ r[j].status = s /\ r[j].side = rows[j].side /\ (r[j].source => rows[j].source)
        /\ r[j].workflow = rows[j].workflow /\ r[j].images = rows[j].images
BY DEF Row, Statuses

-----------------------------------------------------------------------------
(* Every step keeps the invariant.                                         *)

\* A driver that fails: the row is final, and the imager is free of it.
LEMMA FailsLemma ==
  ASSUME DarkroomInv, NEW j \in Job, driver[j].at # "none", Fails(j),
         UNCHANGED <<disk, counted, wakeable, phase, requests, results, render>>,
         power' \in {"off", "booting", "on"}
  PROVE DarkroomInv'
<1> USE DEF DarkroomInv
<1>0. ImageTypeOK OBVIOUS
<1>1. rows' \in [Job -> Row]
  BY <1>0, StatusLemma DEF Fails, Statuses, Final, ImageTypeOK
<1>2. NoDriver \in Driver
  BY BudgetAssumption DEF Driver, NoDriver, Index
<1>3. driver' \in [Job -> Driver]
  BY <1>0, <1>2 DEF Fails, Ends, ImageTypeOK
<1>4. queue' \in [Job -> Seq(Items)]
  BY <1>0 DEF Fails, Ends, ImageTypeOK
<1>5. busy' \in [Conn -> SUBSET Job]
  BY <1>0 DEF Fails, Ends, ImageTypeOK
<1>6. /\ rows'[j].status = "error"
      /\ \A k \in Job :
           /\ rows'[k].side = rows[k].side /\ (rows'[k].source => rows[k].source)
           /\ rows'[k].workflow = rows[k].workflow
           /\ k # j => rows'[k] = rows[k]
  BY <1>0, StatusLemma DEF Fails, Statuses, Final, ImageTypeOK
<1>7. driver'[j] = NoDriver /\ \A k \in Job : k # j => driver'[k] = driver[k]
  BY <1>0 DEF Fails, Ends, ImageTypeOK
<1>8. queue'[j] = <<>> /\ \A k \in Job : k # j => queue'[k] = queue[k]
  BY <1>0 DEF Fails, Ends, ImageTypeOK
<1>9. \A c \in Conn : \A k \in busy'[c] : k \in busy[c] /\ (c = driver[j].conn => k # j)
  BY <1>0 DEF Fails, Ends, ImageTypeOK
<1>10. disk' = disk /\ counted' = counted /\ wakeable' = wakeable /\ phase' = phase
      /\ requests' = requests /\ results' = results /\ render' = render
  OBVIOUS
<1>11. power' \in {"off", "booting", "on"}
  OBVIOUS
<1>12. ImageTypeOK'
  BY <1>1, <1>2, <1>3, <1>4, <1>5, <1>6, <1>7, <1>8, <1>9, <1>10, <1>11 DEF ImageTypeOK
<1>13. RequestsRender'
  BY <1>6 DEF RequestsRender, DrivenWhileActive, Active
<1>14. RendersFit'
  BY <1>10 DEF RendersFit
<1>15. ItemsFit'
  BY <1>8, <1>10, JobsLemma, NoElems DEF ItemsFit, ItemFits
<1>16. RequestedOnce'
  BY <1>6, <1>7, <1>10 DEF RequestedOnce, Asked, DrivenWhileActive, Active, NoDriver
<1>17. DriversFit'
  <2> SUFFICES ASSUME NEW k \in Job PROVE DriversFit!(k)'
    BY DEF DriversFit
  <2>1. CASE k = j
    BY <1>6, <1>7, <1>10, <2>1 DEF DriversFit, DrivenWhileActive, NoDriver, Active
  <2>2. CASE k # j
    BY <1>6, <1>7, <1>10, <2>2 DEF DriversFit
  <2> QED BY <2>1, <2>2
<1>18. DrivenWhileActive'
  BY <1>6, <1>7 DEF DrivenWhileActive, NoDriver, Active
<1>19. BusyIsServed'
  BY <1>7, <1>9, JobsLemma, NoneIsNoConn DEF BusyIsServed, DriversFit, NoDriver
<1>20. DoneIsOver'
  BY <1>6, <1>10 DEF DoneIsOver, DrivenWhileActive, Active, Emptied
<1> QED BY <1>12, <1>13, <1>14, <1>15, <1>16, <1>17, <1>18, <1>19, <1>20

\* A driver that takes an imager.
LEMMA TakeLemma ==
  ASSUME DarkroomInv, NEW j \in Job, driver[j].at \in {"start", "poll"}, Take(j),
         UNCHANGED <<tables, queue, wire>>
  PROVE DarkroomInv'
<1> USE DEF DarkroomInv
<1>0. ImageTypeOK OBVIOUS
<1>1. PICK c \in Conn :
        /\ driver' = [driver EXCEPT ![j].at = "mark", ![j].conn = c]
        /\ busy' = [busy EXCEPT ![c] = @ \cup {j}]
  BY DEF Take, Pick, Imagers
<1>2. driver' \in [Job -> Driver] /\ busy' \in [Conn -> SUBSET Job]
  BY <1>0, <1>1 DEF Driver, ImageTypeOK
<1>3. /\ \A k \in Job : k # j => driver'[k] = driver[k]
      /\ driver'[j].at = "mark" /\ driver'[j].conn = c /\ driver'[j].got = driver[j].got
  BY <1>0, <1>1 DEF Driver, ImageTypeOK
<1>4. \A d \in Conn : \A k \in busy'[d] : k \in busy[d] \/ (d = c /\ k = j)
  BY <1>0, <1>1 DEF ImageTypeOK
<1>5. rows' = rows /\ disk' = disk /\ counted' = counted /\ wakeable' = wakeable
      /\ queue' = queue /\ power' = power /\ phase' = phase /\ requests' = requests
      /\ results' = results /\ render' = render
  BY DEF tables, wire
<1>6. ImageTypeOK'
  BY <1>1, <1>2, <1>3, <1>4, <1>5 DEF ImageTypeOK
<1>7. RequestsRender'
  BY <1>5 DEF RequestsRender
<1>8. RendersFit'
  BY <1>5 DEF RendersFit
<1>9. ItemsFit'
  BY <1>5, JobsLemma DEF ItemsFit, ItemFits
<1>10. RequestedOnce'
  BY <1>3, <1>5 DEF RequestedOnce, Asked, DrivenWhileActive, Active, NoDriver
<1>11. DriversFit'
  BY <1>3, <1>5 DEF DriversFit, DrivenWhileActive, NoDriver, Active
<1>12. DrivenWhileActive'
  BY <1>3, <1>5 DEF DrivenWhileActive, NoDriver, Active
<1>13. BusyIsServed'
  BY <1>3, <1>4, JobsLemma, NoneIsNoConn DEF BusyIsServed, DriversFit, NoDriver
<1>14. DoneIsOver'
  BY <1>5 DEF DoneIsOver, DrivenWhileActive, Active, Emptied
<1> QED BY <1>6, <1>7, <1>8, <1>9, <1>10, <1>11, <1>12, <1>13, <1>14

\* A job that is inserted starts with a driver and nothing else.
LEMMA InsertLemma ==
  ASSUME DarkroomInv, NEW j \in Job, rows[j].status = "absent", NEW row \in Row,
         row.status = "pending", row.images = {},
         row.side \in MinDim .. MaxDim /\ row.side % 8 = 0,
         row.source => row.workflow = "img2img",
         Insert(j, row), counted' \subseteq counted, j \notin counted'
  PROVE DarkroomInv'
<1> USE DEF DarkroomInv
<1>0. ImageTypeOK OBVIOUS
<1>1. driver[j] = NoDriver
  BY <1>0 DEF DriversFit, DrivenWhileActive, Active, Driver, ImageTypeOK
<1>2. rows' \in [Job -> Row] /\ driver' \in [Job -> Driver] /\ disk' \in [Job -> Directory]
  BY <1>0, <1>1 DEF Insert, ImageTypeOK, Driver, NoDriver, Directory, Row
<1>3. rows'[j] = row /\ \A k \in Job : k # j => rows'[k] = rows[k]
  BY <1>0 DEF Insert, ImageTypeOK
<1>4. /\ \A k \in Job : k # j => driver'[k] = driver[k]
      /\ driver'[j].at = "start" /\ driver'[j].conn = None /\ driver'[j].got = {}
  BY <1>0, <1>1 DEF Driver, Insert, NoDriver, ImageTypeOK
<1>5. \A k \in Job : k # j => disk'[k] = disk[k]
  BY <1>0 DEF Insert, ImageTypeOK
<1>6. counted' \subseteq counted /\ j \notin counted'
  OBVIOUS
<1>7. wakeable' = wakeable /\ queue' = queue /\ busy' = busy /\ power' = power
      /\ phase' = phase /\ requests' = requests /\ results' = results /\ render' = render
  BY DEF Insert, wire
<1>8. ImageTypeOK'
  BY <1>1, <1>2, <1>3, <1>4, <1>5, <1>6, <1>7 DEF ImageTypeOK
<1>9. RequestsRender'
  BY <1>3 DEF RequestsRender
<1>10. RendersFit'
  BY <1>7 DEF RendersFit
<1>11. ItemsFit'
  BY <1>7, JobsLemma DEF ItemsFit, ItemFits
<1>12. RequestedOnce'
  BY <1>1, <1>3, <1>4, <1>7 DEF RequestedOnce, Asked, DrivenWhileActive, Active, NoDriver
<1>13. DriversFit'
  <2> SUFFICES ASSUME NEW k \in Job PROVE DriversFit!(k)'
    BY DEF DriversFit
  <2>1. CASE k = j
    BY <1>1, <1>3, <1>4, <1>5, <1>6, <1>7, <2>1 DEF DriversFit, DrivenWhileActive,
       NoDriver, Active
  <2>2. CASE k # j
    BY <1>1, <1>3, <1>4, <1>5, <1>6, <1>7, <2>2 DEF DriversFit
  <2> QED BY <2>1, <2>2
<1>14. DrivenWhileActive'
  BY <1>1, <1>3, <1>4 DEF DrivenWhileActive, NoDriver, Active
<1>15. BusyIsServed'
  BY <1>1, <1>4, <1>7, JobsLemma, NoneIsNoConn DEF BusyIsServed, DriversFit, NoDriver
<1>16. DoneIsOver'
  BY <1>3, <1>5, <1>7 DEF DoneIsOver, DrivenWhileActive, Active, Emptied
<1> QED BY <1>8, <1>9, <1>10, <1>11, <1>12, <1>13, <1>14, <1>15, <1>16

\* A driver that moves on before its request is sent.
LEMMA MovesLemma ==
  ASSUME DarkroomInv, NEW j \in Job, NEW a \in {"wake", "poll", "send"},
         IF a = "send" THEN driver[j].at = "mark" ELSE driver[j].at \in {"start", "wake"},
         driver' = [driver EXCEPT ![j].at = a],
         NEW s \in Active, rows' = [rows EXCEPT ![j].status = s],
         UNCHANGED <<disk, counted, wakeable, queue, busy, phase, requests, results, render>>,
         power' \in {"off", "booting", "on"}
  PROVE DarkroomInv'
<1> USE DEF DarkroomInv
<1>0. ImageTypeOK OBVIOUS
<1>1. rows' \in [Job -> Row]
  BY <1>0, StatusLemma DEF Statuses, ImageTypeOK
<1>2. driver' \in [Job -> Driver]
  BY <1>0 DEF Driver, ImageTypeOK
<1>3. /\ rows'[j].status \in Active
      /\ \A k \in Job :
           /\ rows'[k].side = rows[k].side /\ (rows'[k].source => rows[k].source)
           /\ rows'[k].workflow = rows[k].workflow
           /\ k # j => rows'[k] = rows[k]
  BY <1>0, StatusLemma DEF Statuses, ImageTypeOK, DrivenWhileActive
<1>4. /\ \A k \in Job : k # j => driver'[k] = driver[k]
      /\ driver'[j].at = a /\ driver'[j].conn = driver[j].conn
      /\ driver'[j].got = driver[j].got
  BY <1>0 DEF Driver, ImageTypeOK
<1>5. disk' = disk /\ counted' = counted /\ wakeable' = wakeable /\ queue' = queue
      /\ busy' = busy /\ phase' = phase /\ requests' = requests /\ results' = results
      /\ render' = render
  OBVIOUS
<1>6. power' \in {"off", "booting", "on"}
  OBVIOUS
<1>7. ImageTypeOK'
  BY <1>1, <1>2, <1>3, <1>4, <1>5, <1>6 DEF ImageTypeOK
<1>8. RequestsRender'
  BY <1>3 DEF RequestsRender, DrivenWhileActive, Active
<1>9. RendersFit'
  BY <1>5 DEF RendersFit
<1>10. ItemsFit'
  BY <1>5, JobsLemma DEF ItemsFit, ItemFits
<1>11. RequestedOnce'
  BY <1>3, <1>4, <1>5 DEF RequestedOnce, Asked, DrivenWhileActive, Active, NoDriver
<1>12. DriversFit'
  <2> SUFFICES ASSUME NEW k \in Job PROVE DriversFit!(k)'
    BY DEF DriversFit
  <2>1. CASE k = j
    BY <1>3, <1>4, <1>5, <2>1 DEF DriversFit, DrivenWhileActive, NoDriver, Active
  <2>2. CASE k # j
    BY <1>3, <1>4, <1>5, <2>2 DEF DriversFit
  <2> QED BY <2>1, <2>2
<1>13. DrivenWhileActive'
  BY <1>3, <1>4 DEF DrivenWhileActive, NoDriver, Active
<1>14. BusyIsServed'
  BY <1>4, <1>5, JobsLemma, NoneIsNoConn DEF BusyIsServed, DriversFit, NoDriver
<1>15. DoneIsOver'
  BY <1>3, <1>5 DEF DoneIsOver, DrivenWhileActive, Active, Emptied
<1> QED BY <1>7, <1>8, <1>9, <1>10, <1>11, <1>12, <1>13, <1>14, <1>15

\* A call that was counted.
LEMMA CountLemma ==
  ASSUME DarkroomInv, NEW j \in Job, CountToday(j)
  PROVE DarkroomInv'
<1> USE DEF DarkroomInv
<1>0. ImageTypeOK OBVIOUS
<1>1. rows[j].status = "absent" /\ counted' = counted \cup {j}
  BY DEF CountToday
<1>2. rows' = rows /\ disk' = disk /\ wakeable' = wakeable /\ driver' = driver
      /\ queue' = queue /\ busy' = busy /\ power' = power /\ phase' = phase
      /\ requests' = requests /\ results' = results /\ render' = render
  BY DEF CountToday, wire, drivers
<1>3. ImageTypeOK'
  BY <1>1, <1>2 DEF ImageTypeOK
<1>4. RequestsRender'
  BY <1>2 DEF RequestsRender
<1>5. RendersFit'
  BY <1>2 DEF RendersFit
<1>6. ItemsFit'
  BY <1>2, JobsLemma DEF ItemsFit, ItemFits
<1>7. RequestedOnce'
  BY <1>2 DEF RequestedOnce, Asked, DrivenWhileActive, Active, NoDriver
<1>8. DriversFit'
  BY <1>1, <1>2 DEF DriversFit, DrivenWhileActive, NoDriver, Active
<1>9. DrivenWhileActive'
  BY <1>2 DEF DrivenWhileActive, NoDriver, Active
<1>10. BusyIsServed'
  BY <1>2, JobsLemma, NoneIsNoConn DEF BusyIsServed, DriversFit, NoDriver
<1>11. DoneIsOver'
  BY <1>2 DEF DoneIsOver, DrivenWhileActive, Active, Emptied
<1> QED BY <1>3, <1>4, <1>5, <1>6, <1>7, <1>8, <1>9, <1>10, <1>11

\* A request that reaches the imager: the job was not requested before.
LEMMA SendLemma ==
  ASSUME DarkroomInv, NEW j \in Job, driver[j].at = "send",
         requests' = [requests EXCEPT ![driver[j].conn] = @ \cup {j}],
         driver' = [driver EXCEPT ![j].at = "collect", ![j].expected = rows[j].batch],
         UNCHANGED <<tables, queue, busy, power, phase, results, render>>
  PROVE DarkroomInv'
<1> USE DEF DarkroomInv
<1>0. ImageTypeOK OBVIOUS
<1>1. driver[j].conn \in Conn
  BY DEF DriversFit
<1>2. /\ driver' \in [Job -> Driver] /\ requests' \in [Conn -> SUBSET Job]
  <2>1. requests \in [Conn -> SUBSET Job] /\ driver \in [Job -> Driver]
    BY <1>0 DEF ImageTypeOK
  <2>2. rows[j].batch \in 0 .. MaxBatch
    BY <1>0 DEF ImageTypeOK, Row
  <2>3. driver' \in [Job -> Driver]
    BY ONLY <2>1, <2>2, j \in Job,
       driver' = [driver EXCEPT ![j].at = "collect", ![j].expected = rows[j].batch] DEF Driver
  <2>4. requests' \in [Conn -> SUBSET Job]
    BY <1>1, <2>1
  <2> QED BY <2>3, <2>4
<1>3. \A c \in Conn : \A k \in Job : k \in requests'[c] =>
        k \in requests[c] \/ (c = driver[j].conn /\ k = j)
  BY <1>0, <1>1 DEF ImageTypeOK
<1>4. /\ \A k \in Job : k # j => driver'[k] = driver[k]
      /\ driver'[j].at = "collect" /\ driver'[j].conn = driver[j].conn
      /\ driver'[j].got = driver[j].got
  BY <1>0 DEF Driver, ImageTypeOK
<1>5. /\ render[j].at = "none" /\ rows[j].status # "absent"
      /\ \A c \in Conn : j \notin requests[c]
  BY DEF RequestedOnce, Asked, DrivenWhileActive, Active
<1>6. rows' = rows /\ disk' = disk /\ counted' = counted /\ wakeable' = wakeable
      /\ queue' = queue /\ busy' = busy /\ power' = power /\ phase' = phase
      /\ results' = results /\ render' = render
  BY DEF tables
<1>7. ImageTypeOK'
  BY <1>1, <1>2, <1>3, <1>4, <1>5, <1>6 DEF ImageTypeOK
<1>8. RequestsRender'
  BY <1>6 DEF RequestsRender
<1>9. RendersFit'
  BY <1>6 DEF RendersFit
<1>10. ItemsFit'
  BY <1>6, JobsLemma DEF ItemsFit, ItemFits
<1>11. RequestedOnce'
  <2>1. \A k \in Job : Asked(k) => rows'[k].status # "absent"
                                     /\ driver'[k].at \in {"none", "collect"}
    BY <1>1, <1>3, <1>4, <1>5, <1>6 DEF Asked
  <2>2. rows'[j].status # "absent" /\ driver'[j].at \in {"none", "collect"}
    BY <1>1, <1>3, <1>4, <1>5, <1>6
  <2>3. ASSUME NEW c \in Conn, NEW k \in Job, k \in requests'[c]
        PROVE /\ rows'[k].status # "absent" /\ driver'[k].at \in {"none", "collect"}
              /\ render[k].at = "none" /\ \A d \in Conn : k \in requests'[d] => d = c
    <3>1. CASE k = j
      BY <1>1, <1>3, <1>4, <1>5, <1>6, <2>2, <2>3, <3>1
    <3>2. CASE k # j
      BY <1>1, <1>3, <1>4, <1>5, <1>6, <2>1, <2>3, <3>2 DEF RequestedOnce
    <3> QED BY <3>1, <3>2
  <2>4. \A k \in Job : render'[k].at # "none" =>
               rows'[k].status # "absent" /\ driver'[k].at \in {"none", "collect"}
    BY <1>1, <1>3, <1>4, <1>5, <1>6, <2>1 DEF RequestedOnce
  <2>5. render' = render BY <1>1, <1>3, <1>4, <1>5, <1>6
  <2> QED BY ONLY <2>3, <2>4, <2>5 DEF RequestedOnce, Asked
<1>12. DriversFit'
  <2> SUFFICES ASSUME NEW k \in Job PROVE DriversFit!(k)'
    BY DEF DriversFit
  <2>1. CASE k = j
    BY <1>4, <1>6, <2>1 DEF DriversFit, DrivenWhileActive, NoDriver, Active
  <2>2. CASE k # j
    BY <1>4, <1>6, <2>2 DEF DriversFit
  <2> QED BY <2>1, <2>2
<1>13. DrivenWhileActive'
  BY <1>4, <1>6 DEF DrivenWhileActive, NoDriver, Active
<1>14. BusyIsServed'
  <2> SUFFICES ASSUME NEW c \in Conn, NEW k \in busy[c]
               PROVE driver'[k].at # "none" /\ driver'[k].conn = c
    BY <1>4, <1>6 DEF BusyIsServed
  <2>1. k \in Job /\ driver[k].at # "none" /\ driver[k].conn = c
    BY JobsLemma DEF BusyIsServed
  <2> QED BY <1>4, <1>6, <2>1
<1>15. DoneIsOver'
  BY <1>6 DEF DoneIsOver, DrivenWhileActive, Active, Emptied
<1> QED BY <1>7, <1>8, <1>9, <1>10, <1>11, <1>12, <1>13, <1>14, <1>15

\* A request that arrives starts the only render of its job.
LEMMA StartRenderLemma ==
  ASSUME DarkroomInv, NEW c \in Conn, NEW j \in Job, StartRender(c, j)
  PROVE DarkroomInv'
<1> USE DEF DarkroomInv
<1>0. ImageTypeOK OBVIOUS
<1>1. /\ render' \in [Job -> Render] /\ requests' \in [Conn -> SUBSET Job]
  BY <1>0 DEF StartRender, Render, ImageTypeOK
<1>2. /\ j \in requests[c] /\ j \notin requests'[c]
      /\ \A d \in Conn : requests'[d] \subseteq requests[d]
            /\ (d # c => requests'[d] = requests[d])
  BY <1>0 DEF StartRender, ImageTypeOK
<1>3. /\ render'[j].at = "rendering" /\ render'[j].sent = render[j].sent
      /\ render'[j].total = render[j].total
            /\ \A k \in Job : k # j => render'[k] = render[k]
  BY <1>0 DEF StartRender, Render, ImageTypeOK
<1>4. render[j].at = "none" /\ rows[j].status # "absent"
      /\ driver[j].at \in {"none", "collect"}
  BY <1>2 DEF RequestedOnce, Asked
<1>5. rows' = rows /\ disk' = disk /\ counted' = counted /\ wakeable' = wakeable
      /\ driver' = driver /\ queue' = queue /\ busy' = busy /\ power' = power
      /\ phase' = phase /\ results' = results
  BY DEF StartRender, tables, drivers
<1>6. ImageTypeOK'
  BY <1>1, <1>2, <1>3, <1>4, <1>5 DEF ImageTypeOK
<1>7. RequestsRender'
  BY <1>5 DEF RequestsRender
<1>8. RendersFit'
  BY <1>3, <1>4 DEF RendersFit
<1>9. ItemsFit'
  BY <1>3, <1>4, <1>5, JobsLemma DEF ItemsFit, ItemFits
<1>10. RequestedOnce'
  BY <1>2, <1>3, <1>4, <1>5 DEF RequestedOnce, Asked, DrivenWhileActive, Active, NoDriver
<1>11. DriversFit'
  BY <1>3, <1>4, <1>5 DEF DriversFit, DrivenWhileActive, NoDriver, Active
<1>12. DrivenWhileActive'
  BY <1>5 DEF DrivenWhileActive, NoDriver, Active
<1>13. BusyIsServed'
  BY <1>5, JobsLemma, NoneIsNoConn DEF BusyIsServed, DriversFit, NoDriver
<1>14. DoneIsOver'
  BY <1>3, <1>4, <1>5 DEF DoneIsOver, DrivenWhileActive, Active, Emptied
<1> QED BY <1>6, <1>7, <1>8, <1>9, <1>10, <1>11, <1>12, <1>13, <1>14

\* Connections and machines that come and go unnoticed.
LEMMA PowerLemma ==
  ASSUME DarkroomInv, phase' \in [Conn -> {"new", "open", "closing", "closed"}],
         power' \in {"off", "booting", "on"}, UNCHANGED <<tables, drivers, busy>>,
         UNCHANGED <<requests, results, render>>
  PROVE DarkroomInv'
<1> USE DEF DarkroomInv
<1>0. ImageTypeOK OBVIOUS
<1>1. phase' \in [Conn -> {"new", "open", "closing", "closed"}]
      /\ power' \in {"off", "booting", "on"}
  OBVIOUS
<1>2. rows' = rows /\ disk' = disk /\ counted' = counted /\ wakeable' = wakeable
      /\ driver' = driver /\ queue' = queue /\ busy' = busy /\ requests' = requests
      /\ results' = results /\ render' = render
  BY DEF tables, drivers
<1>3. ImageTypeOK'
  BY <1>1, <1>2 DEF ImageTypeOK
<1>4. RequestsRender'
  BY <1>2 DEF RequestsRender
<1>5. RendersFit'
  BY <1>2 DEF RendersFit
<1>6. ItemsFit'
  BY <1>2, JobsLemma DEF ItemsFit, ItemFits
<1>7. RequestedOnce'
  BY <1>2 DEF RequestedOnce, Asked, DrivenWhileActive, Active, NoDriver
<1>8. DriversFit'
  BY <1>2 DEF DriversFit, DrivenWhileActive, NoDriver, Active
<1>9. DrivenWhileActive'
  BY <1>2 DEF DrivenWhileActive, NoDriver, Active
<1>10. BusyIsServed'
  BY <1>2, JobsLemma, NoneIsNoConn DEF BusyIsServed, DriversFit, NoDriver
<1>11. DoneIsOver'
  BY <1>2 DEF DoneIsOver, DrivenWhileActive, Active, Emptied
<1> QED BY <1>3, <1>4, <1>5, <1>6, <1>7, <1>8, <1>9, <1>10, <1>11

\* A render that knows its total has sent nothing.
LEMMA RenderedLemma ==
  ASSUME DarkroomInv, NEW j \in Job, Rendered(j)
  PROVE DarkroomInv'
<1> USE DEF DarkroomInv
<1>0. ImageTypeOK OBVIOUS
<1>1. PICK n \in 1 .. MaxBatch :
        render' = [render EXCEPT ![j] = [at |-> "sending", sent |-> 0, total |-> n]]
  BY DEF Rendered
<1>2. render' \in [Job -> Render]
  BY <1>0, <1>1, BudgetAssumption DEF Render, ImageTypeOK
<1>3. /\ render[j].at = "rendering" /\ render[j].sent = 0 /\ n \in 1 .. MaxBatch
      /\ render'[j].at = "sending" /\ render'[j].sent = 0 /\ render'[j].total = n
      /\ \A k \in Job : k # j => render'[k] = render[k]
  BY <1>0, <1>1 DEF Rendered, RendersFit, ImageTypeOK
<1>4. rows' = rows /\ disk' = disk /\ counted' = counted /\ wakeable' = wakeable
      /\ driver' = driver /\ queue' = queue /\ power' = power /\ phase' = phase
      /\ busy' = busy /\ requests' = requests /\ results' = results
  BY DEF Rendered, tables, drivers
<1>5. ImageTypeOK'
  BY <1>1, <1>2, <1>3, <1>4 DEF ImageTypeOK
<1>6. RequestsRender'
  BY <1>4 DEF RequestsRender
<1>7. RendersFit'
  BY <1>3 DEF RendersFit
<1>8. ItemsFit'
  <2>1. ASSUME NEW k \in Job, NEW item \in Items, item.kind = "image",
               item.index < render[k].sent, item.total = render[k].total
        PROVE item.index < render'[k].sent /\ item.total = render'[k].total
    BY <1>3, <1>4, <2>1, BudgetAssumption DEF Items, Index
  <2> QED BY <1>3, <1>4, <2>1, JobsLemma, QueueLemma DEF ItemsFit, ItemFits
<1>9. RequestedOnce'
  BY <1>3, <1>4 DEF RequestedOnce, Asked, DrivenWhileActive, Active, NoDriver
<1>10. DriversFit'
  <2> SUFFICES ASSUME NEW k \in Job PROVE DriversFit!(k)'
    BY DEF DriversFit
  <2>1. CASE k = j
    BY <1>3, <1>4, <2>1 DEF DriversFit, DrivenWhileActive, NoDriver, Active
  <2>2. CASE k # j
    BY <1>3, <1>4, <2>2 DEF DriversFit
  <2> QED BY <2>1, <2>2
<1>11. DrivenWhileActive'
  BY <1>4 DEF DrivenWhileActive, NoDriver, Active
<1>12. BusyIsServed'
  BY <1>4, JobsLemma, NoneIsNoConn DEF BusyIsServed, DriversFit, NoDriver
<1>13. DoneIsOver'
  BY <1>3, <1>4 DEF DoneIsOver, DrivenWhileActive, Active, Emptied
<1> QED BY <1>5, <1>6, <1>7, <1>8, <1>9, <1>10, <1>11, <1>12, <1>13

\* Connections that close, and what was on them.
LEMMA ConnectionLostLemma ==
  ASSUME DarkroomInv, requests' \in [Conn -> SUBSET Job],
         results' \in [Conn -> Seq(Job \X Items)],
         \A c \in Conn : requests'[c] \subseteq requests[c]
               /\ results'[c] \in {results[c], <<>>},
         phase' \in [Conn -> {"new", "open", "closing", "closed"}], UNCHANGED <<tables, drivers, busy, power, render>>
  PROVE DarkroomInv'
<1> USE DEF DarkroomInv
<1>0. ImageTypeOK OBVIOUS
<1>1. phase' \in [Conn -> {"new", "open", "closing", "closed"}]
      /\ requests' \in [Conn -> SUBSET Job]
      /\ results' \in [Conn -> Seq(Job \X Items)]
  OBVIOUS
<1>2. \A c \in Conn : requests'[c] \subseteq requests[c]
  OBVIOUS
<1>3. \A c \in Conn : \A m \in Elems(results'[c]) : m \in Elems(results[c])
  BY NoElems
<1>4. rows' = rows /\ disk' = disk /\ counted' = counted /\ wakeable' = wakeable
      /\ driver' = driver /\ queue' = queue /\ power' = power /\ busy' = busy
      /\ render' = render
  BY DEF tables, drivers
<1>5. ImageTypeOK'
  BY <1>1, <1>2, <1>3, <1>4 DEF ImageTypeOK
<1>6. RequestsRender'
  BY <1>4 DEF RequestsRender
<1>7. RendersFit'
  BY <1>4 DEF RendersFit
<1>8. ItemsFit'
  BY <1>3, <1>4, JobsLemma DEF ItemsFit, ItemFits
<1>9. RequestedOnce'
  BY <1>2, <1>4 DEF RequestedOnce, Asked, DrivenWhileActive, Active, NoDriver
<1>10. DriversFit'
  BY <1>4 DEF DriversFit, DrivenWhileActive, NoDriver, Active
<1>11. DrivenWhileActive'
  BY <1>4 DEF DrivenWhileActive, NoDriver, Active
<1>12. BusyIsServed'
  BY <1>4, JobsLemma, NoneIsNoConn DEF BusyIsServed, DriversFit, NoDriver
<1>13. DoneIsOver'
  BY <1>4 DEF DoneIsOver, DrivenWhileActive, Active, Emptied
<1> QED BY <1>5, <1>6, <1>7, <1>8, <1>9, <1>10, <1>11, <1>12, <1>13

\* The watchdog ends rows nobody drives.
LEMMA SweepLemma ==
  ASSUME DarkroomInv, NEW old \in SUBSET Job, Sweep(old)
  PROVE DarkroomInv'
<1> USE DEF DarkroomInv
<1>0. ImageTypeOK OBVIOUS
<1>1. \A r \in Row : [r EXCEPT !.status = "error"] \in Row
  BY DEF Row, Final
<1>2. rows' \in [Job -> Row]
  BY <1>0, <1>1 DEF Sweep, ImageTypeOK
<1>3. \A k \in Job :
        /\ rows'[k].side = rows[k].side /\ (rows'[k].source => rows[k].source)
        /\ rows'[k].workflow = rows[k].workflow
        /\ k \notin old => rows'[k] = rows[k]
        /\ k \in old => /\ rows'[k].status = "error" /\ driver[k].at = "none"
                        /\ rows[k].status \in Active
  BY <1>0 DEF Sweep, Stale, Row, ImageTypeOK
<1>4. disk' = disk /\ counted' = counted /\ wakeable' = wakeable /\ driver' = driver
      /\ queue' = queue /\ power' = power /\ phase' = phase /\ busy' = busy
      /\ requests' = requests /\ results' = results /\ render' = render
  BY DEF Sweep, wire, drivers
<1>5. ImageTypeOK'
  BY <1>1, <1>2, <1>3, <1>4 DEF ImageTypeOK
<1>6. RequestsRender'
  BY <1>3 DEF RequestsRender, Active
<1>7. RendersFit'
  BY <1>4 DEF RendersFit
<1>8. ItemsFit'
  BY <1>4, JobsLemma DEF ItemsFit, ItemFits
<1>9. RequestedOnce'
  BY <1>3, <1>4 DEF RequestedOnce, Asked, DrivenWhileActive, Active, NoDriver
<1>10. DriversFit'
  BY <1>3, <1>4 DEF DriversFit, DrivenWhileActive, NoDriver, Active
<1>11. DrivenWhileActive'
  BY <1>3, <1>4 DEF DrivenWhileActive, NoDriver, Active
<1>12. BusyIsServed'
  BY <1>4, JobsLemma, NoneIsNoConn DEF BusyIsServed, DriversFit, NoDriver
<1>13. DoneIsOver'
  BY <1>3, <1>4 DEF DoneIsOver, DrivenWhileActive, Active, Emptied
<1> QED BY <1>5, <1>6, <1>7, <1>8, <1>9, <1>10, <1>11, <1>12, <1>13

\* The retention sweep empties the directory of a job that is done.
LEMMA SweepOldLemma ==
  ASSUME DarkroomInv, NEW j \in Job, SweepOld(j)
  PROVE DarkroomInv'
<1> USE DEF DarkroomInv
<1>0. ImageTypeOK OBVIOUS
<1>1. disk' \in [Job -> Directory]
  BY <1>0 DEF SweepOld, Emptied, Directory, ImageTypeOK
<1>2. /\ rows[j].status = "done" /\ disk'[j] = Emptied /\ driver[j] = NoDriver
      /\ \A k \in Job : k # j => disk'[k] = disk[k]
  BY <1>0 DEF SweepOld, DrivenWhileActive, Active, DriversFit, ImageTypeOK
<1>3. rows' = rows /\ counted' = counted /\ wakeable' = wakeable /\ driver' = driver
      /\ queue' = queue /\ power' = power /\ phase' = phase /\ busy' = busy
      /\ requests' = requests /\ results' = results /\ render' = render
  BY DEF SweepOld, wire, drivers
<1>4. ImageTypeOK'
  BY <1>1, <1>2, <1>3 DEF ImageTypeOK
<1>5. RequestsRender'
  BY <1>3 DEF RequestsRender
<1>6. RendersFit'
  BY <1>3 DEF RendersFit
<1>7. ItemsFit'
  BY <1>3, JobsLemma DEF ItemsFit, ItemFits
<1>8. RequestedOnce'
  BY <1>3 DEF RequestedOnce, Asked, DrivenWhileActive, Active, NoDriver
<1>9. DriversFit'
  BY <1>2, <1>3 DEF DriversFit, DrivenWhileActive, NoDriver, Active
<1>10. DrivenWhileActive'
  BY <1>3 DEF DrivenWhileActive, NoDriver, Active
<1>11. BusyIsServed'
  BY <1>3, JobsLemma, NoneIsNoConn DEF BusyIsServed, DriversFit, NoDriver
<1>12. DoneIsOver'
  BY <1>2, <1>3 DEF DoneIsOver, DrivenWhileActive, Active, Emptied
<1> QED BY <1>4, <1>5, <1>6, <1>7, <1>8, <1>9, <1>10, <1>11, <1>12

\* A machine that is switched off takes its renders along.
LEMMA ShutdownLemma ==
  ASSUME DarkroomInv, Shutdown
  PROVE DarkroomInv'
<1> USE DEF DarkroomInv
<1>0. ImageTypeOK OBVIOUS
<1>1. NoRender \in Render /\ \A r \in Render : [r EXCEPT !.at = "over"] \in Render
  BY BudgetAssumption DEF Render, NoRender
<1>2. render' \in [Job -> Render]
  BY <1>0, <1>1 DEF Shutdown, ImageTypeOK
<1>3. /\ phase' \in [Conn -> {"new", "open", "closing", "closed"}]
      /\ requests' \in [Conn -> SUBSET Job] /\ results' \in [Conn -> Seq(Job \X Items)]
      /\ power' \in {"off", "booting", "on"}
  BY <1>0 DEF Shutdown, ImageTypeOK
<1>4. \A k \in Job :
        /\ render'[k].at = (IF render[k].at = "none" THEN "none" ELSE "over")
        /\ render[k].at # "none" => render'[k].sent = render[k].sent
              /\ render'[k].total = render[k].total
        /\ render[k].at = "none" => render'[k].sent = 0 /\ render'[k].total = 0
                                    /\ render[k].sent = 0
  BY <1>0 DEF Shutdown, RendersFit, Render, NoRender, ImageTypeOK
<1>5. \A c \in Conn : requests'[c] = {} /\ Elems(results'[c]) = {}
  BY <1>0, NoElems DEF Shutdown, ImageTypeOK
<1>6. rows' = rows /\ disk' = disk /\ counted' = counted /\ wakeable' = wakeable
      /\ driver' = driver /\ queue' = queue /\ busy' = busy
  BY DEF Shutdown, tables, drivers
<1>7. ImageTypeOK'
  BY <1>1, <1>2, <1>3, <1>4, <1>5, <1>6 DEF ImageTypeOK
<1>8. RequestsRender'
  BY <1>6 DEF RequestsRender
<1>9. RendersFit'
  BY <1>4 DEF RendersFit
<1>10. ItemsFit'
  <2>1. ASSUME NEW k \in Job, NEW item \in Items, item.kind = "image",
               item.index < render[k].sent, item.total = render[k].total
        PROVE item.index < render'[k].sent /\ item.total = render'[k].total
    BY <1>4, <1>5, <1>6, <2>1, BudgetAssumption DEF Items, Index
  <2> QED BY <1>4, <1>5, <1>6, <2>1, JobsLemma, QueueLemma DEF ItemsFit, ItemFits
<1>11. RequestedOnce'
  BY <1>4, <1>5, <1>6 DEF RequestedOnce, Asked, DrivenWhileActive, Active, NoDriver
<1>12. DriversFit'
  BY <1>4, <1>6 DEF DriversFit, DrivenWhileActive, NoDriver, Active
<1>13. DrivenWhileActive'
  BY <1>6 DEF DrivenWhileActive, NoDriver, Active
<1>14. BusyIsServed'
  BY <1>6, JobsLemma, NoneIsNoConn DEF BusyIsServed, DriversFit, NoDriver
<1>15. DoneIsOver'
  BY <1>4, <1>6 DEF DoneIsOver, DrivenWhileActive, Active, Emptied
<1> QED BY <1>7, <1>8, <1>9, <1>10, <1>11, <1>12, <1>13, <1>14, <1>15

\* A restart forgets the drivers, not the rows.
LEMMA RestartLemma ==
  ASSUME DarkroomInv, Restart
  PROVE DarkroomInv'
<1> USE DEF DarkroomInv
<1>0. ImageTypeOK OBVIOUS
<1>1. NoDriver \in Driver
  BY BudgetAssumption DEF Driver, NoDriver, Index
<1>2. /\ counted' \subseteq Job /\ driver' \in [Job -> Driver]
      /\ queue' \in [Job -> Seq(Items)]
      /\ busy' \in [Conn -> SUBSET Job]
            /\ phase' \in [Conn -> {"new", "open", "closing", "closed"}]
      /\ requests' \in [Conn -> SUBSET Job] /\ results' \in [Conn -> Seq(Job \X Items)]
  BY <1>0, <1>1 DEF Restart, ImageTypeOK
<1>3. counted' = {}
      /\ \A k \in Job : driver'[k] = NoDriver /\ driver'[k].at = "none"
            /\ driver'[k].got = {}
  BY <1>0 DEF Restart, NoDriver, ImageTypeOK
<1>4. \A k \in Job : Elems(queue'[k]) = {}
  BY <1>0, NoElems DEF Restart, ImageTypeOK
<1>5. \A c \in Conn : busy'[c] = {} /\ requests'[c] = {} /\ Elems(results'[c]) = {}
  BY <1>0, NoElems DEF Restart, ImageTypeOK
<1>6. rows' = rows /\ disk' = disk /\ wakeable' = wakeable /\ power' = power
      /\ render' = render
  BY DEF Restart
<1>7. ImageTypeOK'
  BY <1>1, <1>2, <1>3, <1>4, <1>5, <1>6 DEF ImageTypeOK
<1>8. RequestsRender'
  BY <1>6 DEF RequestsRender
<1>9. RendersFit'
  BY <1>6 DEF RendersFit
<1>10. ItemsFit'
  BY <1>4, <1>5, <1>6, JobsLemma DEF ItemsFit, ItemFits
<1>11. RequestedOnce'
  BY <1>3, <1>5, <1>6 DEF RequestedOnce, Asked, DrivenWhileActive, Active, NoDriver
<1>12. DriversFit'
  <2> SUFFICES ASSUME NEW k \in Job PROVE DriversFit!(k)'
    BY DEF DriversFit
  <2> QED BY <1>3, <1>6
<1>13. DrivenWhileActive'
  BY <1>3, <1>6 DEF DrivenWhileActive, NoDriver, Active
<1>14. BusyIsServed'
  BY <1>3, <1>5, JobsLemma, NoneIsNoConn DEF BusyIsServed, DriversFit, NoDriver
<1>15. DoneIsOver'
  BY <1>6 DEF DoneIsOver, DrivenWhileActive, Active, Emptied
<1> QED BY <1>7, <1>8, <1>9, <1>10, <1>11, <1>12, <1>13, <1>14, <1>15

\* An image that is sent counts; one that cannot be sent ends the render.
LEMMA SentLemma ==
  ASSUME DarkroomInv, NEW j \in Job, SendImage(j)
  PROVE DarkroomInv'
<1> USE DEF DarkroomInv
<1>0. ImageTypeOK OBVIOUS
<1>1. render[j].at = "sending" /\ render[j].sent \in Nat
      /\ render[j].total \in 0 .. MaxBatch
      /\ render[j].sent < render[j].total
  BY <1>0, BudgetAssumption DEF SendImage, RendersFit, Render, ImageTypeOK
<1>2. Item("image", render[j].sent, render[j].total) \in Items
  BY <1>1, BudgetAssumption DEF Item, Items, Index
<1>3. /\ results' \in [Conn -> Seq(Job \X Items)]
      /\ \A c \in Conn : \A m \in Elems(results'[c]) :
           m \in Elems(results[c]) \/
           (/\ m = <<j, Item("image", render[j].sent, render[j].total)>>
            /\ render'[j].sent = render[j].sent + 1 /\ render'[j].total = render[j].total)
  <2>0. (render[j].sent + 1) - 1 = render[j].sent BY <1>1
  <2>1. CASE Send(j, Item("image", (render[j].sent + 1) - 1, render[j].total))
                /\ render' = [render EXCEPT ![j].sent = render[j].sent + 1,
                     ![j].at = IF render[j].sent + 1 = render[j].total THEN "over" ELSE @]
    <3>1. Send(j, Item("image", render[j].sent, render[j].total)) BY <2>0, <2>1
    <3> QED BY <2>1, <3>1, <1>0, <1>2, SendingLemma DEF ImageTypeOK, Render
  <2>2. CASE results' = results
    BY <2>2, <1>0 DEF ImageTypeOK
  <2> QED BY <2>1, <2>2 DEF SendImage
<1>4. PICK s \in 0 .. MaxBatch, a \in {"sending", "over"} :
        /\ render' = [render EXCEPT ![j].sent = s, ![j].at = a]
        /\ s \in {render[j].sent, render[j].sent + 1}
        /\ a = "sending" => s < render[j].total
  <2>1. /\ render[j].sent \in 0 .. MaxBatch /\ render[j].sent + 1 \in 0 .. MaxBatch
        /\ render[j].sent + 1 # render[j].total => render[j].sent + 1 < render[j].total
    BY <1>1, BudgetAssumption
  <2>2. \/ render' = [render EXCEPT ![j].sent = render[j].sent + 1,
                          ![j].at = IF render[j].sent + 1 = render[j].total THEN "over" ELSE @]
        \/ render' = [render EXCEPT ![j].at = "over"]
    BY DEF SendImage
  <2>3. render' = [render EXCEPT ![j].at = "over"] =>
          render' = [render EXCEPT ![j].sent = render[j].sent, ![j].at = "over"]
    BY <1>0 DEF ImageTypeOK, Render
  <2>4. CASE render[j].sent + 1 = render[j].total
    BY <1>1, <2>1, <2>2, <2>3, <2>4
  <2>5. CASE render[j].sent + 1 # render[j].total
    BY <1>1, <2>1, <2>2, <2>3, <2>5
  <2> QED BY <2>4, <2>5
<1>5. render' \in [Job -> Render]
  BY <1>0, <1>4 DEF Render, ImageTypeOK
<1>6. /\ render[j].at = "sending" /\ render[j].sent < render[j].total
      /\ render[j].sent \in Nat /\ render[j].total \in Nat
      /\ render'[j].total = render[j].total /\ render'[j].at \in {"sending", "over"}
      /\ render'[j].sent \in {render[j].sent, render[j].sent + 1}
      /\ render'[j].at = "sending" => render'[j].sent < render'[j].total
      /\ \A k \in Job : k # j => render'[k] = render[k]
  BY <1>0, <1>1, <1>4, BudgetAssumption DEF Render, ImageTypeOK
<1>7. rows' = rows /\ disk' = disk /\ counted' = counted /\ wakeable' = wakeable
      /\ driver' = driver /\ queue' = queue /\ busy' = busy /\ requests' = requests
  BY DEF SendImage, tables, drivers
<1>8. phase' = phase /\ power' = power
  BY DEF SendImage
<1>9. ImageTypeOK'
  BY <1>1, <1>2, <1>3, <1>4, <1>5, <1>6, <1>7, <1>8 DEF ImageTypeOK
<1>10. RequestsRender'
  BY <1>7 DEF RequestsRender
<1>11. RendersFit'
  BY <1>6 DEF RendersFit
<1>12. ItemsFit'
  <2>1. ASSUME NEW k \in Job, NEW item \in Items, item.kind = "image",
               item.index < render[k].sent, item.total = render[k].total
        PROVE item.index < render'[k].sent /\ item.total = render'[k].total
    BY <1>6, <2>1, BudgetAssumption DEF Items, Index
  <2>2. ASSUME NEW c \in Conn, NEW m \in Elems(results'[c]), m[2].kind = "image"
        PROVE m[2].index < render'[m[1]].sent /\ m[2].total = render'[m[1]].total
    <3>1. CASE m \in Elems(results[c])
      BY <1>3, <1>6, <1>7, <2>1, <2>2, <3>1, JobsLemma DEF ItemsFit, ItemFits
    <3>2. CASE m \notin Elems(results[c])
      BY <1>3, <1>6, <1>7, <2>2, <3>2 DEF Item
    <3> QED BY <3>1, <3>2
  <2>3. \A k \in Job : queue'[k] = queue[k] BY <1>3, <1>6, <1>7
  <2> QED BY <2>1, <2>2, <2>3, QueueLemma DEF ItemsFit, ItemFits
<1>13. RequestedOnce'
  BY <1>6, <1>7 DEF RequestedOnce, Asked, DrivenWhileActive, Active, NoDriver
<1>14. DriversFit'
  <2> SUFFICES ASSUME NEW k \in Job PROVE DriversFit!(k)'
    BY DEF DriversFit
  <2>3. 0 .. render[j].sent - 1 \subseteq 0 .. render'[j].sent - 1
    BY <1>6
  <2>1. CASE k = j
    BY <1>6, <1>7, <2>1, <2>3 DEF DriversFit, DrivenWhileActive, NoDriver, Active
  <2>2. CASE k # j
    BY <1>6, <1>7, <2>2 DEF DriversFit
  <2> QED BY <2>1, <2>2
<1>15. DrivenWhileActive'
  BY <1>7 DEF DrivenWhileActive, NoDriver, Active
<1>16. BusyIsServed'
  BY <1>7, JobsLemma, NoneIsNoConn DEF BusyIsServed, DriversFit, NoDriver
<1>17. DoneIsOver'
  BY <1>6, <1>7 DEF DoneIsOver, DrivenWhileActive, Active, Emptied
<1> QED BY <1>9, <1>10, <1>11, <1>12, <1>13, <1>14, <1>15, <1>16, <1>17

\* A render that fails is over, and says so if it can.
LEMMA RenderFailsLemma ==
  ASSUME DarkroomInv, NEW j \in Job, RenderFails(j)
  PROVE DarkroomInv'
<1> USE DEF DarkroomInv
<1>0. ImageTypeOK OBVIOUS
<1>1. Item("failed", 0, 1) \in Items
  BY BudgetAssumption DEF Item, Items, Index
<1>2. /\ results' \in [Conn -> Seq(Job \X Items)]
      /\ \A c \in Conn : \A m \in Elems(results'[c]) :
           m \in Elems(results[c]) \/ m = <<j, Item("failed", 0, 1)>>
  BY <1>0, <1>1, SendingLemma DEF RenderFails, ImageTypeOK
<1>3. render' \in [Job -> Render]
  BY <1>0 DEF RenderFails, Render, ImageTypeOK
<1>4. /\ render[j].at = "rendering" /\ render'[j].at = "over"
      /\ render'[j].sent = render[j].sent /\ render'[j].total = render[j].total
      /\ \A k \in Job : k # j => render'[k] = render[k]
  BY <1>0 DEF RenderFails, Render, ImageTypeOK
<1>5. rows' = rows /\ disk' = disk /\ counted' = counted /\ wakeable' = wakeable
      /\ driver' = driver /\ queue' = queue /\ power' = power /\ phase' = phase
      /\ busy' = busy /\ requests' = requests
  BY DEF RenderFails, tables, drivers
<1>6. ImageTypeOK'
  BY <1>1, <1>2, <1>3, <1>4, <1>5 DEF ImageTypeOK
<1>7. RequestsRender'
  BY <1>5 DEF RequestsRender
<1>8. RendersFit'
  BY <1>4 DEF RendersFit
<1>9. ItemsFit'
  <2>1. ASSUME NEW k \in Job, NEW item \in Items, item.kind = "image",
               item.index < render[k].sent, item.total = render[k].total
        PROVE item.index < render'[k].sent /\ item.total = render'[k].total
    BY <1>4, <2>1, BudgetAssumption DEF Items, Index
  <2>2. ASSUME NEW c \in Conn, NEW m \in Elems(results'[c]), m[2].kind = "image"
        PROVE m[2].index < render'[m[1]].sent /\ m[2].total = render'[m[1]].total
    <3>1. CASE m \in Elems(results[c])
      BY <1>2, <1>4, <1>5, <2>1, <2>2, <3>1, JobsLemma DEF ItemsFit, ItemFits
    <3>2. CASE m \notin Elems(results[c])
      BY <1>2, <1>4, <1>5, <2>2, <3>2 DEF Item
    <3> QED BY <3>1, <3>2
  <2>3. \A k \in Job : queue'[k] = queue[k] BY <1>2, <1>4, <1>5
  <2> QED BY <2>1, <2>2, <2>3, QueueLemma DEF ItemsFit, ItemFits
<1>10. RequestedOnce'
  BY <1>4, <1>5 DEF RequestedOnce, Asked, DrivenWhileActive, Active, NoDriver
<1>11. DriversFit'
  BY <1>4, <1>5 DEF DriversFit, DrivenWhileActive, NoDriver, Active
<1>12. DrivenWhileActive'
  BY <1>5 DEF DrivenWhileActive, NoDriver, Active
<1>13. BusyIsServed'
  BY <1>5, JobsLemma, NoneIsNoConn DEF BusyIsServed, DriversFit, NoDriver
<1>14. DoneIsOver'
  BY <1>4, <1>5 DEF DoneIsOver, DrivenWhileActive, Active, Emptied
<1> QED BY <1>6, <1>7, <1>8, <1>9, <1>10, <1>11, <1>12, <1>13, <1>14

\* A result that arrives is the driver's, or frees the imager.
LEMMA HandleResultLemma ==
  ASSUME DarkroomInv, NEW c \in Conn, HandleResult(c)
  PROVE DarkroomInv'
<1> USE DEF DarkroomInv
<1>0. ImageTypeOK OBVIOUS
<1>1. /\ results[c] # <<>> /\ results[c] \in Seq(Job \X Items)
  BY <1>0 DEF HandleResult, ImageTypeOK
<1>2. Head(results[c]) \in Elems(results[c])
      /\ Elems(Tail(results[c])) \subseteq Elems(results[c])
  BY ONLY <1>1, ElemsLemma
<1>3. PICK j \in Job, item \in Items : Head(results[c]) = <<j, item>>
  BY <1>1
<1>4. ItemFits(j, item)
  BY <1>2, <1>3 DEF ItemsFit
<1>5. /\ \/ queue' = [queue EXCEPT ![j] = Append(@, item)] /\ busy' = busy
         \/ queue' = queue /\ busy' = [busy EXCEPT ![c] = @ \ {j}]
      /\ results' = [results EXCEPT ![c] = Tail(@)]
  BY <1>3 DEF HandleResult
<1>6. /\ queue[j] \in Seq(Items) /\ Append(queue[j], item) \in Seq(Items)
  BY <1>0, <1>3 DEF ImageTypeOK
<1>7. Elems(Append(queue[j], item)) = Elems(queue[j]) \cup {item}
  BY ONLY <1>3, <1>6, ElemsLemma
<1>8. /\ queue' \in [Job -> Seq(Items)] /\ busy' \in [Conn -> SUBSET Job]
      /\ results' \in [Conn -> Seq(Job \X Items)]
  <2>1. Tail(results[c]) \in Seq(Job \X Items) BY <1>1
  <2>2. results' \in [Conn -> Seq(Job \X Items)] BY <1>0, <1>5, <2>1 DEF ImageTypeOK
  <2>3. queue' \in [Job -> Seq(Items)] BY <1>0, <1>5, <1>6 DEF ImageTypeOK
  <2>4. busy' \in [Conn -> SUBSET Job] BY <1>0, <1>5 DEF ImageTypeOK
  <2> QED BY <2>2, <2>3, <2>4
<1>9. \A d \in Conn : Elems(results'[d]) \subseteq Elems(results[d])
  BY <1>0, <1>2, <1>5 DEF ImageTypeOK
<1>10. \A k \in Job : \A i \in Elems(queue'[k]) :
        i \in Elems(queue[k]) \/ (k = j /\ i = item)
  <2> SUFFICES ASSUME NEW k \in Job, NEW i \in Elems(queue'[k])
               PROVE i \in Elems(queue[k]) \/ (k = j /\ i = item)
    OBVIOUS
  <2>1. queue'[k] = queue[k] \/ (k = j /\ queue'[k] = Append(queue[j], item))
    BY <1>0, <1>5 DEF ImageTypeOK
  <2> QED BY <1>7, <2>1
<1>11. \A d \in Conn : busy'[d] \subseteq busy[d]
  BY <1>0, <1>5 DEF ImageTypeOK
<1>12. rows' = rows /\ disk' = disk /\ counted' = counted /\ wakeable' = wakeable
      /\ driver' = driver /\ power' = power /\ phase' = phase /\ requests' = requests
      /\ render' = render
  BY DEF HandleResult, tables
<1>13. ImageTypeOK'
  BY <1>1, <1>2, <1>3, <1>4, <1>5, <1>6, <1>7, <1>8, <1>9, <1>10, <1>11, <1>12
     DEF ImageTypeOK
<1>14. RequestsRender'
  BY <1>12 DEF RequestsRender
<1>15. RendersFit'
  BY <1>12 DEF RendersFit
<1>16. ItemsFit'
  <2>1. \A k \in Job : Elems(queue[k]) \subseteq Items BY QueueLemma
  <2> QED BY <1>4, <1>9, <1>10, <1>12, <2>1, JobsLemma DEF ItemsFit, ItemFits
<1>17. RequestedOnce'
  BY <1>12 DEF RequestedOnce, Asked, DrivenWhileActive, Active, NoDriver
<1>18. DriversFit'
  BY <1>12 DEF DriversFit, DrivenWhileActive, NoDriver, Active
<1>19. DrivenWhileActive'
  BY <1>12 DEF DrivenWhileActive, NoDriver, Active
<1>20. BusyIsServed'
  BY <1>11, <1>12, JobsLemma, NoneIsNoConn DEF BusyIsServed, DriversFit, NoDriver
<1>21. DoneIsOver'
  BY <1>12 DEF DoneIsOver, DrivenWhileActive, Active, Emptied
<1> QED BY <1>13, <1>14, <1>15, <1>16, <1>17, <1>18, <1>19, <1>20, <1>21

\* The drivers of a lost imager are told.
LEMMA FailInFlightLemma ==
  ASSUME DarkroomInv, NEW c \in Conn, FailInFlight(c)
  PROVE DarkroomInv'
<1> USE DEF DarkroomInv
<1>0. ImageTypeOK OBVIOUS
<1>1. Item("lost", 0, 0) \in Items /\ Item("lost", 0, 0).kind = "lost"
  BY BudgetAssumption DEF Item, Items, Index
<1>2. \A k \in Job :
        /\ queue[k] \in Seq(Items) /\ Append(queue[k], Item("lost", 0, 0)) \in Seq(Items)
  BY <1>0, <1>1 DEF ImageTypeOK
<1>3. \A k \in Job :
        Elems(Append(queue[k], Item("lost", 0, 0))) = Elems(queue[k]) \cup {Item("lost", 0, 0)}
  BY ONLY <1>2, ElemsLemma
<1>4. queue' \in [Job -> Seq(Items)]
      /\ phase' \in [Conn -> {"new", "open", "closing", "closed"}]
  BY <1>0, <1>2 DEF FailInFlight, ImageTypeOK
<1>5. \A k \in Job : \A i \in Elems(queue'[k]) :
        i \in Elems(queue[k]) \/ i = Item("lost", 0, 0)
  BY <1>0, <1>3 DEF FailInFlight, ImageTypeOK
<1>6. rows' = rows /\ disk' = disk /\ counted' = counted /\ wakeable' = wakeable
      /\ driver' = driver /\ power' = power /\ busy' = busy /\ requests' = requests
      /\ results' = results /\ render' = render
  BY DEF FailInFlight, tables
<1>7. ImageTypeOK'
  BY <1>1, <1>2, <1>3, <1>4, <1>5, <1>6 DEF ImageTypeOK
<1>8. RequestsRender'
  BY <1>6 DEF RequestsRender
<1>9. RendersFit'
  BY <1>6 DEF RendersFit
<1>10. ItemsFit'
  <2>1. \A k \in Job : Elems(queue[k]) \subseteq Items BY QueueLemma
  <2> QED BY <1>1, <1>5, <1>6, <2>1, JobsLemma DEF ItemsFit, ItemFits
<1>11. RequestedOnce'
  BY <1>6 DEF RequestedOnce, Asked, DrivenWhileActive, Active, NoDriver
<1>12. DriversFit'
  BY <1>6 DEF DriversFit, DrivenWhileActive, NoDriver, Active
<1>13. DrivenWhileActive'
  BY <1>6 DEF DrivenWhileActive, NoDriver, Active
<1>14. BusyIsServed'
  BY <1>6, JobsLemma, NoneIsNoConn DEF BusyIsServed, DriversFit, NoDriver
<1>15. DoneIsOver'
  BY <1>6 DEF DoneIsOver, DrivenWhileActive, Active, Emptied
<1> QED BY <1>7, <1>8, <1>9, <1>10, <1>11, <1>12, <1>13, <1>14, <1>15

\* The parts of Collect.
Kept(j, item) == /\ disk' = [disk EXCEPT ![j].images = @ \cup {item.index}]
                 /\ UNCHANGED <<counted, wakeable, wire>>
Enlarged(j, item) == driver[j].got \cup {item.index}
Completes(j, item) ==
  /\ Ends(j)
  /\ rows' = [rows EXCEPT ![j].status = "done", ![j].images = Enlarged(j, item)]
Continues(j, item) ==
  /\ driver' = [driver EXCEPT ![j].got = Enlarged(j, item), ![j].expected = item.total]
  /\ queue' = [queue EXCEPT ![j] = Tail(@)]
  /\ UNCHANGED <<rows, busy>>

\* The image that completes the batch ends the job with all of them.
LEMMA CompletesLemma ==
  ASSUME DarkroomInv, NEW j \in Job, driver[j].at = "collect",
         NEW item \in Items, item.kind = "image", ItemFits(j, item), Kept(j, item),
         Cardinality(Enlarged(j, item)) >= item.total, Completes(j, item)
  PROVE DarkroomInv'
<1> USE DEF DarkroomInv
<1>0. ImageTypeOK OBVIOUS
<1>1. /\ disk'[j].images = disk[j].images \cup {item.index}
      /\ \A k \in Job : k # j => disk'[k] = disk[k]
  BY <1>0 DEF Kept, Directory, ImageTypeOK
<1>2. /\ item.index \in Index /\ item.total \in 0 .. MaxBatch
      /\ driver[j].got \subseteq Index
      /\ render[j].sent \in Nat /\ render[j].total \in Nat /\ item.index \in Nat
  BY <1>0, BudgetAssumption DEF Items, Index, Driver, Render, ImageTypeOK
<1>3. /\ Enlarged(j, item) \subseteq 0 .. render[j].sent - 1
      /\ Enlarged(j, item) \subseteq disk'[j].images
      /\ Enlarged(j, item) \subseteq Index
      /\ item.total = render[j].total /\ item.index \in Enlarged(j, item)
  BY <1>1, <1>2, BudgetAssumption DEF Enlarged, ItemFits, DriversFit, Index
<1>4. disk' \in [Job -> Directory]
  BY <1>0, <1>2 DEF Kept, Directory, ImageTypeOK
<1>5. render[j].sent <= render[j].total
  BY DEF RendersFit
<1>6. Enlarged(j, item) = 0 .. render[j].total - 1 /\ render[j].sent = render[j].total
      /\ render[j].total > 0
  <2> DEFINE got == Enlarged(j, item)
  <2>1. Cardinality(got) >= render[j].total /\ got \in SUBSET (0 .. render[j].sent - 1)
        /\ item.index \in got
    BY <1>3
  <2> HIDE DEF got
  <2>2. got = 0 .. render[j].total - 1 /\ render[j].sent = render[j].total
    BY ONLY <1>2, <1>5, <2>1, WholeLemma
  <2>3. render[j].total > 0 BY <1>2, <2>1, <2>2
  <2> QED BY <2>2, <2>3 DEF got
<1>7. render[j].at = "over"
  <2>1. render[j].at \in {"none", "rendering", "sending", "over"}
    BY <1>0 DEF Render, ImageTypeOK
  <2>2. /\ render[j].at \in {"none", "rendering"} => render[j].sent = 0
        /\ render[j].at = "sending" => render[j].sent < render[j].total
    BY DEF RendersFit
  <2> QED BY <1>2, <1>6, <2>1, <2>2
<1>8. rows' \in [Job -> Row]
  <2>1. \A r \in Row, S \in SUBSET Index : [r EXCEPT !.status = "done", !.images = S] \in Row
    BY DEF Row, Final
  <2>2. rows \in [Job -> Row] BY <1>0 DEF ImageTypeOK
  <2>3. rows' = [rows EXCEPT ![j] = [rows[j] EXCEPT !.status = "done", !.images = Enlarged(j, item)]]
    BY <2>2 DEF Completes
  <2> QED BY <1>3, <2>1, <2>2, <2>3
<1>9. /\ rows'[j].status = "done" /\ rows'[j].images = Enlarged(j, item)
      /\ \A k \in Job :
           /\ rows'[k].side = rows[k].side /\ (rows'[k].source => rows[k].source)
           /\ rows'[k].workflow = rows[k].workflow
           /\ k # j => rows'[k] = rows[k]
  BY <1>0 DEF Completes, Row, ImageTypeOK
<1>10. NoDriver \in Driver
  BY BudgetAssumption DEF Driver, NoDriver, Index
<1>11. driver' \in [Job -> Driver] /\ queue' \in [Job -> Seq(Items)]
      /\ busy' \in [Conn -> SUBSET Job]
  BY <1>0, <1>10 DEF Completes, Ends, ImageTypeOK
<1>12. driver'[j] = NoDriver /\ \A k \in Job : k # j => driver'[k] = driver[k]
  BY <1>0 DEF Completes, Ends, ImageTypeOK
<1>13. queue'[j] = <<>> /\ \A k \in Job : k # j => queue'[k] = queue[k]
  BY <1>0 DEF Completes, Ends, ImageTypeOK
<1>14. \A c \in Conn : \A k \in busy'[c] : k \in busy[c] /\ (c = driver[j].conn => k # j)
  BY <1>0 DEF Completes, Ends, ImageTypeOK
<1>15. counted' = counted /\ wakeable' = wakeable /\ power' = power /\ phase' = phase
      /\ requests' = requests /\ results' = results /\ render' = render
  BY DEF Kept, wire
<1>16. ImageTypeOK'
  BY <1>1, <1>2, <1>3, <1>4, <1>5, <1>6, <1>7, <1>8, <1>9, <1>10, <1>11, <1>12, <1>13,
     <1>14, <1>15 DEF ImageTypeOK
<1>17. RequestsRender'
  BY <1>9 DEF RequestsRender, DrivenWhileActive, Active
<1>18. RendersFit'
  BY <1>15 DEF RendersFit
<1>19. ItemsFit'
  BY <1>13, <1>15, JobsLemma, NoElems DEF ItemsFit, ItemFits
<1>20. RequestedOnce'
  BY <1>9, <1>12, <1>15 DEF RequestedOnce, Asked, DrivenWhileActive, Active, NoDriver
<1>21. DriversFit'
  <2> SUFFICES ASSUME NEW k \in Job PROVE DriversFit!(k)'
    BY DEF DriversFit
  <2>1. CASE k = j
    BY <1>1, <1>9, <1>12, <1>15, <2>1 DEF DriversFit, DrivenWhileActive, NoDriver, Active
  <2>2. CASE k # j
    BY <1>1, <1>9, <1>12, <1>15, <2>2 DEF DriversFit
  <2> QED BY <2>1, <2>2
<1>22. DrivenWhileActive'
  BY <1>9, <1>12 DEF DrivenWhileActive, NoDriver, Active
<1>23. BusyIsServed'
  BY <1>12, <1>14, JobsLemma, NoneIsNoConn DEF BusyIsServed, DriversFit, NoDriver
<1>24. DoneIsOver'
  <2> SUFFICES ASSUME NEW k \in Job, rows'[k].status = "done"
               PROVE DoneIsOver!(k)!2'
    BY DEF DoneIsOver
  <2>1. CASE k = j
    BY <1>3, <1>6, <1>7, <1>9, <1>15, <2>1
  <2>2. CASE k # j
    <3>1. rows'[k] = rows[k] /\ disk'[k] = disk[k] /\ render'[k] = render[k]
      BY <1>1, <1>9, <1>15, <2>2
    <3> QED BY <3>1 DEF DoneIsOver
  <2> QED BY <2>1, <2>2
<1> QED BY <1>16, <1>17, <1>18, <1>19, <1>20, <1>21, <1>22, <1>23, <1>24

\* An image that does not complete the batch is kept.
LEMMA ContinuesLemma ==
  ASSUME DarkroomInv, NEW j \in Job, driver[j].at = "collect",
         NEW item \in Items, item.kind = "image", ItemFits(j, item), Kept(j, item), Continues(j, item),
         queue[j] # <<>>
  PROVE DarkroomInv'
<1> USE DEF DarkroomInv
<1>0. ImageTypeOK OBVIOUS
<1>1. /\ disk'[j].images = disk[j].images \cup {item.index}
      /\ \A k \in Job : k # j => disk'[k] = disk[k]
  BY <1>0 DEF Kept, Directory, ImageTypeOK
<1>2. /\ item.index \in Index /\ item.total \in 0 .. MaxBatch
      /\ driver[j].got \subseteq Index
      /\ render[j].sent \in Nat /\ render[j].total \in Nat /\ item.index \in Nat
  BY <1>0, BudgetAssumption DEF Items, Index, Driver, Render, ImageTypeOK
<1>3. /\ Enlarged(j, item) \subseteq 0 .. render[j].sent - 1
      /\ Enlarged(j, item) \subseteq disk'[j].images
      /\ Enlarged(j, item) \subseteq Index
      /\ item.total = render[j].total /\ item.index \in Enlarged(j, item)
  BY <1>1, <1>2, BudgetAssumption DEF Enlarged, ItemFits, DriversFit, Index
<1>4. disk' \in [Job -> Directory]
  BY <1>0, <1>2 DEF Kept, Directory, ImageTypeOK
<1>5. queue[j] \in Seq(Items)
  BY <1>0 DEF ImageTypeOK
<1>6. Tail(queue[j]) \in Seq(Items)
  BY <1>5
<1>7. Elems(Tail(queue[j])) \subseteq Elems(queue[j])
  BY <1>5, ElemsLemma
<1>8. driver' \in [Job -> Driver]
  <2>1. \A d \in Driver, S \in SUBSET Index, n \in 0 .. MaxBatch :
          [d EXCEPT !.got = S, !.expected = n] \in Driver
    BY DEF Driver
  <2>2. driver \in [Job -> Driver] BY <1>0 DEF ImageTypeOK
  <2>3. driver' = [driver EXCEPT ![j] = [driver[j] EXCEPT !.got = Enlarged(j, item),
                                                        !.expected = item.total]]
    BY <2>2 DEF Continues
  <2> QED BY <1>2, <1>3, <2>1, <2>2, <2>3
<1>9. queue' \in [Job -> Seq(Items)]
  BY <1>0, <1>6 DEF Continues, ImageTypeOK
<1>10. /\ \A k \in Job : k # j => driver'[k] = driver[k]
      /\ driver'[j].at = "collect" /\ driver'[j].conn = driver[j].conn
      /\ driver'[j].got = Enlarged(j, item)
  BY <1>0 DEF Continues, Driver, ImageTypeOK
<1>11. \A k \in Job : Elems(queue'[k]) \subseteq Elems(queue[k])
  BY <1>0, <1>7 DEF Continues, ImageTypeOK
<1>12. rows' = rows /\ counted' = counted /\ wakeable' = wakeable /\ power' = power
      /\ phase' = phase /\ busy' = busy /\ requests' = requests /\ results' = results
      /\ render' = render
  BY DEF Kept, Continues, wire
<1>13. ImageTypeOK'
  BY <1>1, <1>2, <1>3, <1>4, <1>5, <1>6, <1>7, <1>8, <1>9, <1>10, <1>11, <1>12
     DEF ImageTypeOK
<1>14. RequestsRender'
  BY <1>12 DEF RequestsRender
<1>15. RendersFit'
  BY <1>12 DEF RendersFit
<1>16. ItemsFit'
  BY <1>11, <1>12, JobsLemma DEF ItemsFit, ItemFits
<1>17. RequestedOnce'
  BY <1>10, <1>12 DEF RequestedOnce, Asked, DrivenWhileActive, Active, NoDriver
<1>18. DriversFit'
  <2> SUFFICES ASSUME NEW k \in Job PROVE DriversFit!(k)'
    BY DEF DriversFit
  <2>1. CASE k = j
    BY <1>1, <1>10, <1>12, <1>3, <2>1 DEF DriversFit, DrivenWhileActive, NoDriver, Active
  <2>2. CASE k # j
    BY <1>1, <1>10, <1>12, <2>2 DEF DriversFit
  <2> QED BY <2>1, <2>2
<1>19. DrivenWhileActive'
  BY <1>10, <1>12 DEF DrivenWhileActive, NoDriver, Active
<1>20. BusyIsServed'
  <2> SUFFICES ASSUME NEW c \in Conn, NEW k \in busy[c]
               PROVE driver'[k].at # "none" /\ driver'[k].conn = c
    BY <1>10, <1>12 DEF BusyIsServed
  <2>1. k \in Job /\ driver[k].at # "none" /\ driver[k].conn = c
    BY JobsLemma DEF BusyIsServed
  <2> QED BY <1>10, <1>12, <2>1
<1>21. DoneIsOver'
  BY <1>1, <1>12 DEF DoneIsOver, DrivenWhileActive, Active, Emptied
<1> QED BY <1>13, <1>14, <1>15, <1>16, <1>17, <1>18, <1>19, <1>20, <1>21

\* A driver reads one item: it fails, ends or goes on.
LEMMA CollectLemma ==
  ASSUME DarkroomInv, NEW j \in Job, Collect(j)
  PROVE DarkroomInv'
<1>1. ImageTypeOK /\ driver[j].at = "collect" /\ queue[j] # <<>>
  BY DEF DarkroomInv, Collect
<1> DEFINE item == Head(queue[j])
<1>2. item \in Items /\ item \in Elems(queue[j])
  <2>1. queue[j] \in Seq(Items) BY <1>1 DEF ImageTypeOK
  <2> QED BY ONLY <1>1, <2>1, ElemsLemma
<1>3. ItemFits(j, item) BY <1>2 DEF DarkroomInv, ItemsFit
<1>4. power' = power /\ power \in {"off", "booting", "on"}
  BY <1>1 DEF Collect, wire, ImageTypeOK
<1>5. CASE item.kind # "image"
  <2>1. Fails(j) /\ UNCHANGED <<disk, counted, wakeable, phase, requests, results, render>>
    BY <1>5 DEF Collect, wire
  <2> QED BY <1>1, <1>4, <2>1, FailsLemma
<1>6. CASE item.kind = "image"
  <2>1. Kept(j, item)
    BY <1>6 DEF Collect, Kept
  <2>2. CASE Cardinality(Enlarged(j, item)) >= item.total
    <3>1. Completes(j, item) BY <1>6, <2>2 DEF Collect, Completes, Enlarged
    <3> HIDE DEF item
    <3> QED BY <1>1, <1>2, <1>3, <1>6, <2>1, <2>2, <3>1, CompletesLemma
  <2>3. CASE ~(Cardinality(Enlarged(j, item)) >= item.total)
    <3>1. Continues(j, item) BY <1>6, <2>3 DEF Collect, Continues, Enlarged
    <3> HIDE DEF item
    <3> QED BY <1>1, <1>2, <1>3, <1>6, <2>1, <3>1, ContinuesLemma
  <2> QED BY <2>2, <2>3
<1> QED BY <1>5, <1>6

\* Jobs come from the API, from the form and from re-rolls.
LEMMA SubmitLemma ==
  ASSUME DarkroomInv, NEW j \in Job, SubmitApi(j) \/ SubmitForm(j)
  PROVE DarkroomInv'
<1>1. ImageTypeOK BY DEF DarkroomInv
<1>2. \A row \in Wanted, b \in BOOLEAN :
        LET r == [row EXCEPT !.status = "pending", !.api = b]
        IN  /\ r \in Row /\ r.status = "pending" /\ r.images = {}
            /\ r.side \in MinDim .. MaxDim /\ r.side % 8 = 0
            /\ r.source => r.workflow = "img2img"
  BY WantedLemma DEF Row, Active
<1>3. \A row \in Wanted :
        LET r == [row EXCEPT !.status = "pending"]
        IN  /\ r \in Row /\ r.status = "pending" /\ r.images = {}
            /\ r.side \in MinDim .. MaxDim /\ r.side % 8 = 0
            /\ r.source => r.workflow = "img2img"
  BY WantedLemma DEF Row, Active
<1>4. CASE SubmitApi(j)
  <2>1. /\ j \in counted /\ counted' = counted \ {j} BY <1>4 DEF SubmitApi
  <2>2. rows[j].status = "absent" BY <2>1 DEF DarkroomInv, DriversFit
  <2>3. CASE UNCHANGED <<rows, disk, wakeable, drivers, busy, wire>>
    <3> USE <2>1, <2>3 DEF drivers, wire, DarkroomInv
    <3>1. counted' \subseteq counted OBVIOUS
    <3>2. ImageTypeOK' BY <1>1 DEF ImageTypeOK
    <3>3. RequestsRender' /\ DrivenWhileActive' BY DEF RequestsRender, DrivenWhileActive
    <3>4. RendersFit' /\ ItemsFit' BY DEF RendersFit, ItemsFit, ItemFits
    <3>5. RequestedOnce' BY DEF RequestedOnce, Asked
    <3>6. DriversFit' BY <3>1 DEF DriversFit
    <3>7. BusyIsServed' /\ DoneIsOver' BY DEF BusyIsServed, DoneIsOver
    <3> QED BY <3>2, <3>3, <3>4, <3>5, <3>6, <3>7
  <2>4. CASE \E row \in Wanted : Insert(j, [row EXCEPT !.status = "pending", !.api = TRUE])
    <3>1. PICK row \in Wanted : Insert(j, [row EXCEPT !.status = "pending", !.api = TRUE])
      BY <2>4
    <3> DEFINE r == [row EXCEPT !.status = "pending", !.api = TRUE]
    <3>2. /\ r \in Row /\ r.status = "pending" /\ r.images = {}
          /\ r.side \in MinDim .. MaxDim /\ r.side % 8 = 0
          /\ r.source => r.workflow = "img2img"
      BY <1>2
    <3>3. Insert(j, r) BY <3>1
    <3> HIDE DEF r
    <3> QED BY <2>1, <2>2, <3>2, <3>3, InsertLemma
  <2> QED BY <1>4, <2>3, <2>4 DEF SubmitApi
<1>5. CASE SubmitForm(j)
  <2>1. PICK row \in Wanted : Insert(j, [row EXCEPT !.status = "pending"])
    BY <1>5 DEF SubmitForm
  <2> DEFINE r == [row EXCEPT !.status = "pending"]
  <2>2. /\ r \in Row /\ r.status = "pending" /\ r.images = {}
        /\ r.side \in MinDim .. MaxDim /\ r.side % 8 = 0
        /\ r.source => r.workflow = "img2img"
    BY <1>3
  <2>3. Insert(j, r) BY <2>1
  <2>4. rows[j].status = "absent" /\ counted' = counted /\ j \notin counted
    BY <1>5 DEF SubmitForm
  <2> HIDE DEF r
  <2> QED BY <2>2, <2>3, <2>4, InsertLemma
<1> QED BY <1>4, <1>5

\* A re-roll asks for what its original asked for.
LEMMA RerollLemma ==
  ASSUME DarkroomInv, NEW j \in Job, NEW k \in Job, Reroll(j, k)
  PROVE DarkroomInv'
<1>1. ImageTypeOK /\ RequestsRender BY DEF DarkroomInv
<1> DEFINE source == rows[j].source /\ disk[j].input
           r == [rows[j] EXCEPT !.status = "pending", !.api = FALSE, !.images = {},
                                !.source = source]
<1>2. rows[j] \in Row /\ source \in BOOLEAN BY <1>1 DEF ImageTypeOK
<1>3. /\ r \in Row /\ r.status = "pending" /\ r.images = {}
      /\ r.side = rows[j].side /\ r.workflow = rows[j].workflow
      /\ r.source => rows[j].source
  <2> HIDE DEF source
  <2>1. /\ r \in Row /\ r.status = "pending" /\ r.images = {}
        /\ r.side = rows[j].side /\ r.workflow = rows[j].workflow /\ r.source = source
    BY <1>2 DEF Row, Active
  <2>2. source => rows[j].source BY DEF source
  <2> HIDE DEF r
  <2> QED BY <2>1, <2>2
<1>4. /\ r.side \in MinDim .. MaxDim /\ r.side % 8 = 0
      /\ r.source => r.workflow = "img2img"
  <2>1. rows[j].status # "absent" BY DEF Reroll
  <2>2. /\ rows[j].side \in MinDim .. MaxDim /\ rows[j].side % 8 = 0
        /\ rows[j].source => rows[j].workflow = "img2img"
    BY <1>1, <2>1 DEF RequestsRender
  <2> HIDE DEF r
  <2> QED BY <1>3, <2>2
<1>5. Insert(k, r) BY DEF Reroll
<1>6. rows[k].status = "absent" /\ counted' = counted /\ k \notin counted BY DEF Reroll
<1> HIDE DEF r
<1> QED BY <1>3, <1>4, <1>5, <1>6, InsertLemma

\* Every step of a driver.
LEMMA DriveLemma ==
  ASSUME DarkroomInv, NEW j \in Job, Drive(j)
  PROVE DarkroomInv'
<1>1. ImageTypeOK /\ power \in {"off", "booting", "on"} BY DEF DarkroomInv, ImageTypeOK
<1>2. CASE FindImager(j)
  <2>1. /\ driver[j].at = "start"
        /\ UNCHANGED <<disk, counted, wakeable, power, phase, requests, results, render>>
    BY <1>2 DEF FindImager, wire
  <2>2. CASE Take(j) /\ UNCHANGED <<rows, queue>>
    BY <2>1, <2>2, TakeLemma DEF tables, wire
  <2>3. CASE Fails(j)
    BY <1>1, <2>1, <2>3, FailsLemma
  <2>4. CASE /\ rows' = [rows EXCEPT ![j].status = "waking"]
             /\ driver' = [driver EXCEPT ![j].at = "wake"]
             /\ UNCHANGED <<queue, busy>>
    <3>1. "waking" \in Active BY DEF Active
    <3> QED BY <1>1, <2>1, <2>4, <3>1, MovesLemma
  <2> QED BY <1>2, <2>2, <2>3, <2>4 DEF FindImager
<1>3. CASE Wake(j)
  <2>1. /\ driver[j].at = "wake" /\ power' \in {"off", "booting", "on"}
        /\ UNCHANGED <<disk, counted, wakeable, phase, requests, results, render>>
    BY <1>1, <1>3 DEF Wake
  <2>2. CASE Fails(j)
    BY <2>1, <2>2, FailsLemma
  <2>3. CASE driver' = [driver EXCEPT ![j].at = "poll"] /\ UNCHANGED <<rows, queue, busy>>
    <3>1. rows[j].status \in Active BY <2>1 DEF DarkroomInv, DrivenWhileActive
    <3>2. rows[j] \in Row BY <1>1 DEF ImageTypeOK
    <3>3. [rows[j] EXCEPT !.status = rows[j].status] = rows[j] BY <3>2 DEF Row
    <3>4. rows' = [rows EXCEPT ![j].status = rows[j].status]
      BY <1>1, <2>3, <3>3 DEF ImageTypeOK
    <3> QED BY <2>1, <2>3, <3>1, <3>4, MovesLemma
  <2> QED BY <1>3, <2>2, <2>3 DEF Wake
<1>4. CASE PollRegistry(j)
  BY <1>4, TakeLemma DEF PollRegistry
<1>5. CASE WakeTimeout(j)
  BY <1>1, <1>5, FailsLemma DEF WakeTimeout, wire
<1>6. CASE MarkRunning(j)
  <2>1. "running" \in Active BY DEF Active
  <2> QED BY <1>1, <1>6, <2>1, MovesLemma DEF MarkRunning, wire
<1>7. CASE SendRequest(j)
  <2>1. /\ driver[j].at = "send"
        /\ UNCHANGED <<disk, counted, wakeable, power, phase, results, render>>
    BY <1>7 DEF SendRequest
  <2>2. CASE Fails(j) /\ UNCHANGED requests
    BY <1>1, <2>1, <2>2, FailsLemma
  <2>3. CASE /\ requests' = [requests EXCEPT ![driver[j].conn] = @ \cup {j}]
             /\ driver' = [driver EXCEPT ![j].at = "collect", ![j].expected = rows[j].batch]
             /\ UNCHANGED <<rows, queue, busy>>
    BY <2>1, <2>3, SendLemma DEF tables
  <2> QED BY <1>7, <2>2, <2>3 DEF SendRequest
<1>8. CASE Collect(j)
  BY <1>8, CollectLemma
<1>9. CASE RenderTimeout(j)
  BY <1>1, <1>9, FailsLemma DEF RenderTimeout, wire
<1> QED BY <1>2, <1>3, <1>4, <1>5, <1>6, <1>7, <1>8, <1>9 DEF Drive

-----------------------------------------------------------------------------
(* The theorems.                                                           *)

LEMMA DarkroomInit ==
  ASSUME ImageInit
  PROVE DarkroomInv
<1> USE DEF ImageInit
<1>1. NoRow \in Row /\ NoDriver \in Driver /\ NoRender \in Render /\ Emptied \in Directory
  BY DimsAssumption, BudgetAssumption
     DEF NoRow, Row, NoDriver, Driver, NoRender, Render, Emptied, Directory, Index, Workflow
<1>2. ImageTypeOK BY <1>1 DEF ImageTypeOK
<1>3. RequestsRender /\ DrivenWhileActive BY DEF RequestsRender, NoRow, DrivenWhileActive,
   NoDriver
<1>4. RendersFit /\ ItemsFit BY NoElems DEF RendersFit, NoRender, ItemsFit
<1>5. RequestedOnce BY DEF RequestedOnce, NoRender
<1>6. DriversFit BY DEF DriversFit, NoDriver
<1>7. BusyIsServed /\ DoneIsOver BY DEF BusyIsServed, DoneIsOver, NoRow
<1> QED BY <1>2, <1>3, <1>4, <1>5, <1>6, <1>7 DEF DarkroomInv

LEMMA DarkroomStep ==
  ASSUME DarkroomInv, [ImageNext]_imgVars
  PROVE DarkroomInv'
<1>1. ImageTypeOK BY DEF DarkroomInv
<1>2. ASSUME NEW j \in Job,
             \/ CountToday(j) \/ SubmitApi(j) \/ SubmitForm(j) \/ Drive(j)
             \/ Rendered(j) \/ SendImage(j) \/ RenderFails(j) \/ SweepOld(j)
      PROVE DarkroomInv'
  BY <1>2, CountLemma, SubmitLemma, DriveLemma, RenderedLemma, SentLemma,
     RenderFailsLemma, SweepOldLemma
<1>3. ASSUME NEW j \in Job, NEW k \in Job, Reroll(j, k)
      PROVE DarkroomInv'
  BY <1>3, RerollLemma
<1>4. ASSUME NEW c \in Conn, Connect(c)
      PROVE DarkroomInv'
  <2>1. phase' \in [Conn -> {"new", "open", "closing", "closed"}]
        /\ power' \in {"off", "booting", "on"}
    BY <1>1, <1>4 DEF Connect, ImageTypeOK
  <2> QED BY <1>4, <2>1, PowerLemma DEF Connect
<1>5. ASSUME NEW c \in Conn, Disconnect(c)
      PROVE DarkroomInv'
  <2>1. phase' \in [Conn -> {"new", "open", "closing", "closed"}]
    BY <1>1, <1>5 DEF Disconnect, ImageTypeOK
  <2>2. requests' \in [Conn -> SUBSET Job] /\ results' \in [Conn -> Seq(Job \X Items)]
    BY <1>1, <1>5 DEF Disconnect, ImageTypeOK
  <2>3. \A d \in Conn : requests'[d] \subseteq requests[d]
        /\ results'[d] \in {results[d], <<>>}
    BY <1>1, <1>5 DEF Disconnect, ImageTypeOK
  <2> QED BY <1>5, <2>1, <2>2, <2>3, ConnectionLostLemma DEF Disconnect
<1>6. ASSUME NEW c \in Conn,
             \/ FailInFlight(c) \/ HandleResult(c) \/ \E j \in Job : StartRender(c, j)
      PROVE DarkroomInv'
  BY <1>6, FailInFlightLemma, HandleResultLemma, StartRenderLemma
<1>7. CASE Boot
  <2>1. phase' \in [Conn -> {"new", "open", "closing", "closed"}]
        /\ power' \in {"off", "booting", "on"}
    BY <1>1, <1>7 DEF Boot, ImageTypeOK
  <2> QED BY <1>7, <2>1, PowerLemma DEF Boot
<1>8. CASE Watch
  BY <1>8, SweepLemma DEF Watch
<1>9. CASE UNCHANGED imgVars
  <2> USE <1>9 DEF imgVars, tables, drivers, wire, DarkroomInv
  <2>1. ImageTypeOK' BY <1>1 DEF ImageTypeOK
  <2>2. RequestsRender' /\ DrivenWhileActive' BY DEF RequestsRender, DrivenWhileActive
  <2>3. RendersFit' /\ ItemsFit' BY DEF RendersFit, ItemsFit, ItemFits
  <2>4. RequestedOnce' BY DEF RequestedOnce, Asked
  <2>5. DriversFit' BY DEF DriversFit
  <2>6. BusyIsServed' /\ DoneIsOver' BY DEF BusyIsServed, DoneIsOver
  <2> QED BY <2>1, <2>2, <2>3, <2>4, <2>5, <2>6
<1> QED BY <1>2, <1>3, <1>4, <1>5, <1>6, <1>7, <1>8, <1>9, ShutdownLemma, RestartLemma
       DEF ImageNext

\* The Darkroom's inductive invariant holds in every reachable state.
THEOREM ImageInvariance == ImageSpec => []DarkroomInv
<1>1. ImageInit => DarkroomInv BY DarkroomInit
<1>2. DarkroomInv /\ [ImageNext]_imgVars => DarkroomInv' BY DarkroomStep
<1> QED BY <1>1, <1>2, PTL DEF ImageSpec

\* Rows, files, drivers and renders have their types, and every row can be rendered,
\* whatever the form, the API and the uploads say (_normalize_dims, _prepare_input).
THEOREM ImagesRender == ImageSpec => []ImageInv
<1>1. DarkroomInv => ImageInv BY DEF DarkroomInv, ImageInv
<1> QED BY <1>1, ImageInvariance, PTL

\* A job that is done has every image its render saved (_drive_job's got and total).
THEOREM DoneJobsAreWhole == ImageSpec => []DoneIsWhole
<1>1. DarkroomInv => DoneIsWhole BY DEF DarkroomInv, DoneIsOver, DoneIsWhole
<1> QED BY <1>1, ImageInvariance, PTL

\* What is driven is active, and what keeps an imager busy is driven
\* (_drive_job's finally clause, fail_image_jobs, resolve_image).
THEOREM DriversAreNeeded == ImageSpec => []DriversServe
<1>1. DarkroomInv => DriversServe BY DEF DarkroomInv, DriversServe
<1> QED BY <1>1, ImageInvariance, PTL

\* Only drivers, the watchdog and submissions write a row's status, and none of them
\* writes one that is done or failed.
LEMMA EndsOnceStep ==
  ASSUME DarkroomInv, [ImageNext]_imgVars, NEW j \in Job, rows[j].status \in Final
  PROVE rows'[j].status = rows[j].status
<1>1. ImageTypeOK /\ DrivenWhileActive BY DEF DarkroomInv
<1>2. rows[j].status # "absent" /\ rows[j].status \notin Active BY DEF Final, Active
<1>3. driver[j].at = "none" BY <1>1, <1>2 DEF DrivenWhileActive
<1>4. CASE UNCHANGED rows BY <1>4
<1>5. ASSUME NEW k \in Job, NEW row, rows[k].status = "absent", Insert(k, row)
      PROVE rows'[j].status = rows[j].status
  BY <1>1, <1>2, <1>5 DEF Insert, ImageTypeOK
<1>6. ASSUME NEW k \in Job, driver[k].at # "none", NEW r,
             rows' = [rows EXCEPT ![k] = r]
      PROVE rows'[j].status = rows[j].status
  BY <1>1, <1>3, <1>6 DEF ImageTypeOK
<1>7. ASSUME NEW k \in Job, CountToday(k) \/ SubmitApi(k) \/ SubmitForm(k)
      PROVE rows'[j].status = rows[j].status
  <2>1. k \in counted => rows[k].status = "absent" BY DEF DarkroomInv, DriversFit
  <2> QED BY <1>4, <1>5, <1>7, <2>1 DEF CountToday, SubmitApi, SubmitForm
<1>8. ASSUME NEW k \in Job, Drive(k)
      PROVE rows'[j].status = rows[j].status
  <2>1. driver[k].at # "none"
    BY <1>8 DEF Drive, FindImager, Wake, PollRegistry, WakeTimeout, MarkRunning,
       SendRequest,
                Collect, RenderTimeout
  <2>2. Fails(k) => rows'[j].status = rows[j].status
    BY <1>1, <1>3, <2>1 DEF Fails, ImageTypeOK
  <2>3. CASE FindImager(k)
    BY <1>1, <1>3, <1>4, <2>1, <2>2, <2>3 DEF FindImager, ImageTypeOK
  <2>4. CASE Wake(k) \/ PollRegistry(k) \/ WakeTimeout(k)
    BY <1>4, <2>2, <2>4 DEF Wake, PollRegistry, WakeTimeout, tables
  <2>5. CASE MarkRunning(k)
    BY <1>1, <1>3, <2>1, <2>5 DEF MarkRunning, ImageTypeOK
  <2>6. CASE SendRequest(k) \/ RenderTimeout(k)
    BY <1>4, <2>2, <2>6 DEF SendRequest, RenderTimeout
  <2>7. CASE Collect(k)
    <3>1. j # k BY <1>3, <2>1
    <3>2. \/ Fails(k) \/ UNCHANGED rows
          \/ \E r : rows' = [rows EXCEPT ![k].status = "done", ![k].images = r]
      BY <2>7 DEF Collect
    <3> QED BY <1>1, <1>4, <2>2, <3>1, <3>2 DEF ImageTypeOK
  <2> QED BY <1>8, <2>3, <2>4, <2>5, <2>6, <2>7 DEF Drive
<1>9. ASSUME NEW k \in Job, Rendered(k) \/ SendImage(k) \/ RenderFails(k) \/ SweepOld(k)
      PROVE rows'[j].status = rows[j].status
  BY <1>4, <1>9 DEF Rendered, SendImage, RenderFails, SweepOld, tables
<1>10. ASSUME NEW i \in Job, NEW k \in Job, Reroll(i, k)
       PROVE rows'[j].status = rows[j].status
  BY <1>5, <1>10 DEF Reroll
<1>11. ASSUME NEW c \in Conn, \/ Connect(c) \/ Disconnect(c) \/ FailInFlight(c) \/ HandleResult(c)
                              \/ \E k \in Job : StartRender(c, k)
       PROVE rows'[j].status = rows[j].status
  BY <1>4, <1>11 DEF Connect, Disconnect, FailInFlight, HandleResult, StartRender, tables
<1>12. CASE Watch
  BY <1>1, <1>2, <1>12 DEF Watch, Sweep, Stale, ImageTypeOK
<1>13. CASE Boot \/ Shutdown \/ Restart \/ UNCHANGED imgVars
  BY <1>4, <1>13 DEF Boot, Shutdown, Restart, imgVars, tables
<1> QED BY <1>7, <1>8, <1>9, <1>10, <1>11, <1>12, <1>13 DEF ImageNext

\* A job ends once, whatever arrives late or restarts (_drive_job, sweep_image_jobs).
THEOREM JobsEndOnce == ImageSpec => EndsOnce
<1>1. DarkroomInv /\ [ImageNext]_imgVars =>
        [\A j \in Job : rows[j].status \in Final => rows'[j].status = rows[j].status]_imgVars
  BY EndsOnceStep
<1> QED BY <1>1, ImageInvariance, PTL DEF ImageSpec, EndsOnce
=============================================================================
