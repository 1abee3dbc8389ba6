-------------------------------- MODULE Scout --------------------------------
(***************************************************************************)
(* Scout (backend/app/orchestrator/scout.py, routes/scout.py): per site, a *)
(* set of versioned recipes, each for the URLs of one pattern; and jobs    *)
(* that fetch a sample page, ask a worker for a recipe, validate it on     *)
(* that page and activate it.                                              *)
(*                                                                         *)
(* What a recipe extracts is left out: an answer is useless (a failure, no *)
(* JSON, no field map, nothing found on the sample page) or it is not.     *)
(***************************************************************************)
EXTENDS Naturals, FiniteSets, FiniteSetsExt

CONSTANTS
  Site,        \* domains; the database keeps them unique
  Recipe,      \* rows of extraction_recipes, by id
  Learning,    \* learning jobs
  Pattern,     \* URL patterns
  Length,      \* pattern -> its length
  Url,         \* pages, of any site
  Matches,     \* pattern -> the pages it matches
  Reverb,      \* the site a profile is seeded for, and the pattern of its recipe
  ItemPages,
  NoPattern    \* no pattern; also "no site"

ASSUME ScoutAssumption ==
  /\ IsFiniteSet(Recipe) /\ Reverb \in Site /\ ItemPages \in Pattern
  /\ NoPattern \notin Pattern \cup Site
  /\ Length \in [Pattern -> Nat]
  /\ Matches \in [Pattern -> SUBSET Url]

VARIABLES
  sites,       \* site_profiles: "absent", "active" or "learning"
  recipes,     \* extraction_recipes
  lessons,     \* site_learning_jobs
  errand,      \* job -> where run_learning_job is
  pupils,      \* the jobs a worker has, or whose answer is under way
  review       \* job -> what its result handler has read

scoutVars == <<sites, recipes, lessons, errand, pupils, review>>

RecipeRow ==
  [site : Site \cup {NoPattern}, version : Nat, pattern : Pattern \cup {NoPattern},
   active : BOOLEAN]
Lesson ==
  [status : {"absent", "running", "done", "error"}, site : Site \cup {NoPattern},
   pattern : Pattern \cup {NoPattern}]
Errands == {"none", "fetch", "send", "mark", "failed", "record", "over"}
Reading == [open : BOOLEAN, off : SUBSET Recipe, version : Nat]

NoRecipe == [site |-> NoPattern, version |-> 0, pattern |-> NoPattern, active |-> FALSE]
NoLesson == [status |-> "absent", site |-> NoPattern, pattern |-> NoPattern]
Nothing == [open |-> FALSE, off |-> {}, version |-> 0]

ScoutTypeOK ==
  /\ sites \in [Site -> {"absent", "active", "learning"}]
  /\ recipes \in [Recipe -> RecipeRow]
  /\ \A r \in Recipe : recipes[r] # NoRecipe => recipes[r].version > 0
  /\ lessons \in [Learning -> Lesson]
  /\ errand \in [Learning -> Errands]
  /\ pupils \subseteq Learning
  /\ review \in [Learning -> Reading]

Of(s) == {r \in Recipe : recipes[r].site = s}
Active(s) == {r \in Of(s) : recipes[r].active}

NewRecipe(r, s, v, p) ==
  /\ recipes[r] = NoRecipe
  /\ recipes' = [recipes EXCEPT
       ![r] = [site |-> s, version |-> v, pattern |-> p, active |-> TRUE]]

ScoutInit ==
  /\ sites = [s \in Site |-> "absent"]
  /\ recipes = [r \in Recipe |-> NoRecipe]
  /\ lessons = [j \in Learning |-> NoLesson]
  /\ errand = [j \in Learning |-> "none"]
  /\ pupils = {}
  /\ review = [j \in Learning |-> Nothing]

-----------------------------------------------------------------------------
(* Which recipe reads a page: recipe_for_url.                              *)

UrlMatches(r, u) == recipes[r].pattern # NoPattern /\ u \in Matches[recipes[r].pattern]

\* The sort is stable and the rows come by version: an older recipe goes before
\* a newer one of the same length.  Versions that tie come in any order.
First(rs, u) ==
  {r \in rs : \A q \in rs :
     \/ Length[recipes[q].pattern] < Length[recipes[r].pattern]
     \/ /\ Length[recipes[q].pattern] = Length[recipes[r].pattern]
        /\ recipes[r].version <= recipes[q].version}

RecipeForUrl(s, u) ==
  LET matched == {r \in Active(s) : UrlMatches(r, u)}
      plain == {r \in Active(s) : recipes[r].pattern = NoPattern}
  IN IF matched # {} THEN First(matched, u)
     ELSE {r \in plain : \A q \in plain : recipes[r].version <= recipes[q].version}

-----------------------------------------------------------------------------
(* The pages of Scout.                                                     *)

AddProfile(s, r) ==
  /\ sites[s] = "absent"
  /\ sites' = [sites EXCEPT ![s] = "active"]
  /\ NewRecipe(r, s, 1, NoPattern)
  /\ UNCHANGED <<lessons, errand, pupils, review>>

EditRecipe(r, p, active) ==
  /\ recipes[r] # NoRecipe
  /\ recipes' = [recipes EXCEPT ![r].pattern = p, ![r].active = active]
  /\ UNCHANGED <<sites, lessons, errand, pupils, review>>

\* Recipes and learning jobs go with their profile.
DeleteProfile(s) ==
  /\ sites[s] # "absent"
  /\ sites' = [sites EXCEPT ![s] = "absent"]
  /\ recipes' = [r \in Recipe |-> IF r \in Of(s) THEN NoRecipe ELSE recipes[r]]
  /\ lessons' = [j \in Learning |-> IF lessons[j].site = s THEN NoLesson ELSE lessons[j]]
  /\ UNCHANGED <<errand, pupils, review>>

LearnRecipe(j, s, p) ==
  /\ errand[j] = "none" /\ sites[s] # "absent"
  /\ lessons' = [lessons EXCEPT ![j] = [status |-> "running", site |-> s, pattern |-> p]]
  /\ sites' = [sites EXCEPT ![s] = "learning"]
  /\ errand' = [errand EXCEPT ![j] = "fetch"]
  /\ UNCHANGED <<recipes, pupils, review>>

-----------------------------------------------------------------------------
(* run_learning_job, a task of the event loop.                             *)

Goes(j, from, to) ==
  /\ errand[j] = from /\ errand' = [errand EXCEPT ![j] = to]
  /\ UNCHANGED <<sites, recipes, review>>

\* The job was deleted, or the page cannot be fetched.
FetchFails(j) == Goes(j, "fetch", "failed") /\ UNCHANGED <<lessons, pupils>>
FetchSample(j) ==
  /\ lessons[j].status # "absent"
  /\ Goes(j, "fetch", "send") /\ UNCHANGED <<lessons, pupils>>

\* No worker, or a socket that raises.
SendFails(j) == Goes(j, "send", "failed") /\ UNCHANGED <<lessons, pupils>>
SendRequest(j) ==
  /\ Goes(j, "send", "mark")
  /\ pupils' = pupils \cup {j}
  /\ UNCHANGED lessons

\* After the send, and whatever became of the job since.
MarkRunning(j) ==
  /\ Goes(j, "mark", "over")
  /\ lessons' = IF lessons[j].status = "absent" THEN lessons
                ELSE [lessons EXCEPT ![j].status = "running"]
  /\ UNCHANGED pupils
MarkCrashes(j) == Goes(j, "mark", "failed") /\ UNCHANGED <<lessons, pupils>>

\* Slip: a job that is done is not spared.
RecordReadAny(j) ==
  /\ Goes(j, "failed", IF lessons[j].status = "absent" THEN "over" ELSE "record")
  /\ UNCHANGED <<lessons, pupils>>

\* The job is looked at: one that is done is spared ...
RecordRead(j) ==
  /\ Goes(j, "failed", IF lessons[j].status \in {"absent", "done"} THEN "over" ELSE "record")
  /\ UNCHANGED <<lessons, pupils>>

\* Slip: the job is given a status of profiles.
RecordFailed(j) ==
  /\ Goes(j, "record", "over")
  /\ lessons' = IF lessons[j].status = "absent" THEN lessons
                ELSE [lessons EXCEPT ![j].status = "failed"]
  /\ UNCHANGED pupils

\* ... and the error is committed, over whatever was saved since.
RecordError(j) ==
  /\ Goes(j, "record", "over")
  /\ lessons' = IF lessons[j].status = "absent" THEN lessons
                ELSE [lessons EXCEPT ![j].status = "error"]
  /\ UNCHANGED pupils

-----------------------------------------------------------------------------
(* handle_site_learning_result, on the worker's receive loop.              *)

\* The worker or its connection dies: nobody tells the job.
Forget(j) ==
  /\ j \in pupils /\ pupils' = pupils \ {j}
  /\ UNCHANGED <<sites, recipes, lessons, errand, review>>

\* Slip: the old recipe is switched off before the new one is validated.
HandleUselessLate(j) ==
  /\ j \in pupils /\ pupils' = pupils \ {j}
  /\ lessons[j].status # "absent"
  /\ lessons' = [lessons EXCEPT ![j].status = "error"]
  /\ recipes' = [r \in Recipe |->
       IF recipes[r].site = lessons[j].site /\ recipes[r].pattern = lessons[j].pattern
         THEN [recipes[r] EXCEPT !.active = FALSE] ELSE recipes[r]]
  /\ UNCHANGED <<sites, errand, review>>

\* A recipe that does not extract anything changes nothing but the job.
HandleUseless(j) ==
  /\ j \in pupils /\ pupils' = pupils \ {j}
  /\ lessons[j].status # "absent"
  /\ lessons' = [lessons EXCEPT ![j].status = "error"]
  /\ UNCHANGED <<sites, recipes, errand, review>>

\* It extracts something.  The site's recipes are read ...
ReadRecipes(j) ==
  /\ j \in pupils /\ pupils' = pupils \ {j}
  /\ lessons[j].status # "absent"
  /\ LET s == lessons[j].site
     IN review' = [review EXCEPT ![j] =
          [open |-> TRUE,
           off |-> {r \in Active(s) : recipes[r].pattern = lessons[j].pattern},
           version |-> Max({recipes[r].version : r \in Of(s)} \cup {0}) + 1]]
  /\ UNCHANGED <<sites, recipes, lessons, errand>>

\* Slip: the new recipe is added beside the old one.
SaveRecipeBeside(j, r) ==
  /\ review[j].open /\ lessons[j].status # "absent"
  /\ NewRecipe(r, lessons[j].site, review[j].version, lessons[j].pattern)
  /\ sites' = [sites EXCEPT ![lessons[j].site] = "active"]
  /\ lessons' = [lessons EXCEPT ![j].status = "done"]
  /\ review' = [review EXCEPT ![j] = Nothing]
  /\ UNCHANGED <<errand, pupils>>

\* ... and those seen active for the same pattern make way for the new one.
SaveRecipe(j, r) ==
  /\ review[j].open /\ lessons[j].status # "absent"
  /\ recipes[r] = NoRecipe /\ r \notin review[j].off
  /\ recipes' = [q \in Recipe |->
       CASE q = r -> [site |-> lessons[j].site, version |-> review[j].version,
                      pattern |-> lessons[j].pattern, active |-> TRUE]
         [] q \in review[j].off -> [recipes[q] EXCEPT !.active = FALSE]
         [] OTHER -> recipes[q]]
  /\ sites' = [sites EXCEPT ![lessons[j].site] = "active"]
  /\ lessons' = [lessons EXCEPT ![j].status = "done"]
  /\ review' = [review EXCEPT ![j] = Nothing]
  /\ UNCHANGED <<errand, pupils>>

\* The job is gone at the answer, or the profile at the commit, which then
\* raises in the worker's receive loop.
NoLessonLeft(j) ==
  /\ lessons[j].status = "absent"
  /\ j \in pupils \/ review[j].open
  /\ pupils' = pupils \ {j}
  /\ review' = [review EXCEPT ![j] = Nothing]
  /\ UNCHANGED <<sites, recipes, lessons, errand>>

\* Errands and open handlers die; the profile of one site is created if it is
\* not there, so deleting that one does not last.  (Workers answer later.)
RestartScout(r) ==
  /\ errand' = [j \in Learning |-> IF errand[j] = "none" THEN "none" ELSE "over"]
  /\ review' = [j \in Learning |-> Nothing]
  /\ IF sites[Reverb] = "absent"
       THEN sites' = [sites EXCEPT ![Reverb] = "active"] /\ NewRecipe(r, Reverb, 1, ItemPages)
       ELSE UNCHANGED <<sites, recipes>>
  /\ UNCHANGED <<lessons, pupils>>

-----------------------------------------------------------------------------
RunLearningJob(j) ==
  \/ FetchFails(j) \/ FetchSample(j) \/ SendFails(j) \/ SendRequest(j)
  \/ MarkRunning(j) \/ MarkCrashes(j) \/ RecordRead(j) \/ RecordError(j)

HandleSiteLearningResult(j) ==
  \/ HandleUseless(j) \/ ReadRecipes(j) \/ NoLessonLeft(j)
  \/ \E r \in Recipe : SaveRecipe(j, r)

Pages ==
  \/ \E s \in Site : DeleteProfile(s) \/ \E r \in Recipe : AddProfile(s, r)
  \/ \E r \in Recipe, p \in Pattern \cup {NoPattern}, a \in BOOLEAN : EditRecipe(r, p, a)
  \/ \E j \in Learning, s \in Site, p \in Pattern \cup {NoPattern} : LearnRecipe(j, s, p)

ScoutNext ==
  \/ Pages
  \/ \E j \in Learning : RunLearningJob(j) \/ HandleSiteLearningResult(j) \/ Forget(j)
  \/ \E r \in Recipe : RestartScout(r)

ScoutSpec == ScoutInit /\ [][ScoutNext]_scoutVars

\* No pattern is edited while an answer is handled: what the handler has read
\* it would then switch off for another pattern than its own.
PatternsRest ==
  (\E j \in Learning : review[j].open) =>
    \A r \in Recipe : NoRecipe \notin {recipes[r], recipes'[r]} =>
      recipes'[r].pattern = recipes[r].pattern
SteadySpec == ScoutInit /\ [][ScoutNext /\ PatternsRest]_scoutVars

-----------------------------------------------------------------------------
\* The patterns of a site some active recipe is for.
Covered(s) == {recipes[r].pattern : r \in Active(s)}

(***************************************************************************)
(* models.py: re-learning "only flips active once it validates".  However  *)
(* learning jobs fail, crash or overlap, a kind of page that is read by an *)
(* active recipe goes on being read by one; only users end that.           *)
(***************************************************************************)
StaysCovered == \A s \in Site : Covered(s) \subseteq Covered(s)' \/ Pages

\* The job that ends with this step has seen all that is active now.
SawAll(j) ==
  \A r \in Active(lessons[j].site) :
    recipes[r].pattern = lessons[j].pattern => r \in review[j].off

(***************************************************************************)
(* What was learned last is what is used: once a recipe is saved, each     *)
(* page its pattern matches is read by it, unless an active recipe with a  *)
(* pattern at least as long matches too.  (Not promised to two handlers    *)
(* that overlap: the older version stays active and wins.)                 *)
(***************************************************************************)
LearnedIsUsed ==
  \A j \in Learning, s \in Site :
    /\ lessons[j].site = s /\ lessons[j].pattern # NoPattern
    /\ review[j].open /\ lessons'[j].status = "done" /\ SawAll(j)
    => \E n \in Recipe :
         /\ recipes[n] = NoRecipe /\ recipes'[n].pattern = lessons[j].pattern
         /\ \A u \in Matches[lessons[j].pattern] :
              \A r \in RecipeForUrl(s, u)' :
                \/ r = n
                \/ /\ recipes'[r].pattern # lessons[j].pattern
                   /\ Length[recipes'[r].pattern] >= Length[lessons[j].pattern]

\* A saved job that no errand is about to write stays saved, and no errand sets
\* out to write it.  (Not promised to a job saved while its errand marks it as
\* sent, or once the errand has looked at it to record an error: these two
\* write what they have in mind, and the job that saved is shown to fail.)
Writing(j) == errand[j] \in {"mark", "record"}
SavedStaysSaved ==
  \A j \in Learning :
    lessons[j].status = "done" /\ ~Writing(j)
      => lessons'[j].status \in {"done", "absent"} /\ ~Writing(j)'

(***************************************************************************)
(* What has been learned serves: pages stay read, by what was learned last *)
(* for them, and a job whose recipe was saved stays saved once its errand  *)
(* is past its writes.                                                     *)
(***************************************************************************)
RecipesServe == [][StaysCovered /\ LearnedIsUsed /\ SavedStaysSaved]_scoutVars
=============================================================================
