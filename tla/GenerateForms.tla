---------------------------- MODULE GenerateForms ----------------------------
(***************************************************************************)
(* The two forms of the web front end that ask for a video, in one tab:    *)
(* the user's page (app/generate) and the admin's studio (admin/generate). *)
(*                                                                         *)
(* A form is edited while things started earlier are still under way: the  *)
(* reading of an image for its preview, uploads, the submission itself.    *)
(* The user's page uploads the image as the first step of a submission;    *)
(* the studio uploads it when it is picked, and submits the stored path.   *)
(* What goes over the network may fail or never be answered well; leaving  *)
(* a page resets its state and stops none of its requests.                 *)
(***************************************************************************)
EXTENDS Naturals

CONSTANTS
  Images, Prompts,          \* what may be picked and typed
  TextModels, ImageModels,  \* the models of the registry, by capability
  Durations,                \* seconds that the slider offers
  None

Models == TextModels \cup ImageModels

ASSUME FormsAssumption ==
  /\ None \notin Images \cup Prompts \cup Models
  /\ Durations \subseteq Nat

VARIABLES
  user,     \* patient: touches a form only when nothing is under way
  page,     \* the page that is mounted
  form,     \* its state; path is the studio's only, preview the user page's only
  reads,    \* images whose FileReader has not called onload
  uploads,  \* the studio's uploads under way; latest: the one useMutation follows
  work      \* bound: the one submission under way

vars == <<user, page, form, reads, uploads, work>>

-----------------------------------------------------------------------------

Tasks == {"text_to_video", "image_to_video"}

Capable(m, task) == m \in (IF task = "image_to_video" THEN ImageModels ELSE TextModels)

Fresh == [task |-> "text_to_video", prompt |-> None, image |-> None,
          preview |-> None, path |-> None, model |-> None, options |-> FALSE]

\* A submission: what the form showed at the click, and what is sent.
NoWork == [step |-> "none", page |-> "away", mine |-> FALSE,
           shown |-> None, sent |-> None, charged |-> 0]

FormsInit ==
  /\ user \in {"patient", "hasty"}
  /\ page = "away" /\ form = Fresh /\ reads = {} /\ uploads = {} /\ work = NoWork

Submitting == work.step # "none" /\ work.mine
Uploading == \E u \in uploads : u.latest

Patience == user = "patient" => reads = {} /\ uploads = {} /\ work = NoWork

-----------------------------------------------------------------------------
(* Both pages                                                              *)

Open(p) ==
  /\ page = "away"
  /\ page' = p /\ form' = Fresh
  /\ UNCHANGED <<user, reads, uploads, work>>

\* Unmounting: what is under way goes on, but finds no state to set.
Unmount ==
  /\ page' = "away" /\ form' = Fresh /\ reads' = {} /\ uploads' = {}

Leave ==
  /\ page # "away"
  /\ Unmount
  /\ work' = IF work = NoWork THEN NoWork ELSE [work EXCEPT !.mine = FALSE]
  /\ UNCHANGED user

\* The tabs: nothing else is reset, not the model, not the image.
ChooseTask(task) ==
  /\ page # "away" /\ Patience /\ form.task # task
  /\ form' = [form EXCEPT !.task = task]
  /\ UNCHANGED <<user, page, reads, uploads, work>>

TypePrompt(prompt) ==
  /\ page # "away" /\ Patience /\ form.prompt # prompt
  /\ form' = [form EXCEPT !.prompt = prompt]
  /\ UNCHANGED <<user, page, reads, uploads, work>>

\* The models a select offers: the user's page filters by the task, the studio
\* only when an image is animated.
Offered == {m \in Models : \/ Capable(m, form.task)
                           \/ page = "studio" /\ form.task = "text_to_video"}

ChooseModel(m) ==
  /\ page # "away" /\ Patience
  /\ m \in Offered \/ (page = "generate" /\ m = None)
  /\ form.model # m
  /\ form' = [form EXCEPT !.model = m]
  /\ UNCHANGED <<user, page, reads, uploads, work>>

-----------------------------------------------------------------------------
(* The user's page                                                         *)

\* Generation options arrive once, or never: the price is shown without them.
OptionsArrive ==
  /\ page = "generate" /\ ~form.options
  /\ form' = [form EXCEPT !.options = TRUE]
  /\ UNCHANGED <<user, page, reads, uploads, work>>

\* The file input is there until a preview is.
PickImage(i) ==
  /\ page = "generate" /\ Patience
  /\ form.task = "image_to_video" /\ form.preview = None
  /\ form' = [form EXCEPT !.image = i]
  /\ reads' = reads \cup {i}
  /\ UNCHANGED <<user, page, uploads, work>>

ReadEnds(i) ==
  /\ i \in reads
  /\ reads' = reads \ {i}
  /\ form' = [form EXCEPT !.preview = i]
  /\ UNCHANGED <<user, page, uploads, work>>

RemoveImage ==
  /\ page = "generate" /\ Patience
  /\ form.task = "image_to_video" /\ form.preview # None
  /\ form' = [form EXCEPT !.image = None, !.preview = None]
  /\ UNCHANGED <<user, page, reads, uploads, work>>

Resolutions == {"480p", "720p", "1080p"}

\* credit_costs of GET /generation-options; 2 until they are there.
OptionPrice == [r \in Resolutions |-> CASE r = "480p" -> 1 [] r = "720p" -> 2 [] r = "1080p" -> 4]

ShownCost(resolution, duration, options) ==
  duration * (IF options THEN OptionPrice[resolution] ELSE 2)

\* What create_generation charges.
GenerationCostHalved(resolution, duration) ==  \* mutant
  duration * (IF resolution = "1080p" THEN 2 ELSE 1)
GenerationCost(resolution, duration) ==
  duration * 2 * (IF resolution = "1080p" THEN 2 ELSE 1)

\* What duplicate_generation and create_variation charge for a copy.
CopyCost(resolution, duration) ==
  duration * (CASE resolution = "1080p" -> 4 [] resolution = "720p" -> 2 [] OTHER -> 1)

CanGenerateAnyway == ~Submitting /\ form.prompt # None  \* mutant
CanGenerate ==
  /\ ~Submitting /\ form.prompt # None
  /\ form.task = "image_to_video" => form.image # None

\* handleSubmit keeps the values of the click through both requests.
Generate(resolution, duration) ==
  /\ page = "generate" /\ work = NoWork /\ Patience /\ CanGenerate
  /\ work' =
       [step |-> IF form.task = "image_to_video" /\ form.image # None THEN "upload" ELSE "create",
        page |-> "generate", mine |-> TRUE, charged |-> 0,
        shown |-> [task |-> form.task, prompt |-> form.prompt, image |-> form.preview,
                   resolution |-> resolution, duration |-> duration, priced |-> form.options,
                   cost |-> ShownCost(resolution, duration, form.options)],
        sent |-> [task |-> form.task, prompt |-> form.prompt, model |-> form.model,
                  image |-> IF form.task = "image_to_video" THEN form.image ELSE None]]
  /\ UNCHANGED <<user, page, form, reads, uploads>>

\* The upload is answered with the path of what was uploaded.
ImageUploadedLate ==  \* mutant
  /\ work.step = "upload"
  /\ work' = [work EXCEPT !.step = "create", !.sent.task = form.task, !.sent.prompt = form.prompt]
  /\ UNCHANGED <<user, page, form, reads, uploads>>

ImageUploaded ==
  /\ work.step = "upload"
  /\ work' = [work EXCEPT !.step = "create"]
  /\ UNCHANGED <<user, page, form, reads, uploads>>

-----------------------------------------------------------------------------
(* The studio                                                              *)

\* The drop zone while there is no image, Replace when nothing is uploaded.
StudioZone ==
  /\ page = "studio" /\ form.task = "image_to_video"
  /\ form.image # None => ~Uploading

DropImage(i) ==
  /\ StudioZone /\ Patience
  /\ form' = [form EXCEPT !.image = i]
  /\ uploads' = {[u EXCEPT !.latest = FALSE] : u \in uploads} \cup {[image |-> i, latest |-> TRUE]}
  /\ UNCHANGED <<user, page, reads, work>>

UploadEnds(u) ==
  /\ u \in uploads
  /\ uploads' = uploads \ {u}
  /\ \/ form' = [form EXCEPT !.path = u.image]
     \/ form' = [form EXCEPT !.image = None, !.path = None]
  /\ UNCHANGED <<user, page, reads, work>>

RemoveUploaded ==
  /\ StudioZone /\ form.image # None /\ Patience
  /\ form' = [form EXCEPT !.image = None, !.path = None]
  /\ UNCHANGED <<user, page, reads, uploads, work>>

CanSubmit ==
  /\ form.prompt # None
  /\ form.task = "text_to_video" \/ form.path # None
  /\ ~Submitting /\ ~Uploading

\* The select shows the first model on offer until one is chosen.
StudioSubmit ==
  /\ page = "studio" /\ work = NoWork /\ Patience /\ CanSubmit
  /\ \E m \in IF form.model # None THEN {form.model}
              ELSE IF Offered # {} THEN Offered ELSE {None} :
       work' =
         [step |-> "create", page |-> "studio", mine |-> TRUE, charged |-> 0,
          shown |-> [task |-> form.task, prompt |-> form.prompt, image |-> form.image],
          sent |-> [task |-> form.task, prompt |-> form.prompt, model |-> m,
                    image |-> IF form.task = "image_to_video" THEN form.path ELSE None]]
  /\ UNCHANGED <<user, page, form, reads, uploads>>

-----------------------------------------------------------------------------
(* The API and its answers                                                 *)

\* POST /generations charges the user; POST /jobs, the studio's, charges nobody.
Create ==
  /\ work.step = "create"
  /\ work' = [work EXCEPT !.step = "made",
                !.charged = IF work.page = "studio" THEN 0
                            ELSE GenerationCost(work.shown.resolution, work.shown.duration)]
  /\ UNCHANGED <<user, page, form, reads, uploads>>

\* The user's page pushes the processing page, wherever the tab is by now.
GenerateAnswered ==
  /\ work.step = "made" /\ work.page = "generate"
  /\ Unmount
  /\ work' = NoWork
  /\ UNCHANGED user

\* The studio stays, and is emptied of what was sent, or what replaced it since.
StudioAnswered ==
  /\ work.step = "made" /\ work.page = "studio"
  /\ work' = NoWork
  /\ form' = IF work.mine
             THEN [form EXCEPT !.prompt = None, !.image = None, !.path = None]
             ELSE form
  /\ UNCHANGED <<user, page, reads, uploads>>

SubmissionFailsUncaught ==  \* mutant
  /\ work # NoWork /\ work.step # "stuck"
  /\ work' = [work EXCEPT !.step = "stuck"]
  /\ UNCHANGED <<user, page, form, reads, uploads>>

\* Refused, or lost before or after the API did it: finally enables the button.
SubmissionFails ==
  /\ work # NoWork
  /\ work' = NoWork
  /\ UNCHANGED <<user, page, form, reads, uploads>>

-----------------------------------------------------------------------------

EditStep ==
  \/ \E p \in {"generate", "studio"} : Open(p)
  \/ Leave
  \/ \E task \in Tasks : ChooseTask(task)
  \/ \E prompt \in Prompts \cup {None} : TypePrompt(prompt)
  \/ \E m \in Models \cup {None} : ChooseModel(m)

GenerateStep ==
  \/ OptionsArrive \/ RemoveImage \/ ImageUploaded \/ GenerateAnswered
  \/ \E i \in Images : PickImage(i) \/ ReadEnds(i)
  \/ \E resolution \in Resolutions, duration \in Durations : Generate(resolution, duration)

StudioStep ==
  \/ \E i \in Images : DropImage(i)
  \/ \E u \in uploads : UploadEnds(u)
  \/ RemoveUploaded \/ StudioSubmit \/ StudioAnswered

FormsNext == EditStep \/ GenerateStep \/ StudioStep \/ Create \/ SubmissionFails

FormsSpec == FormsInit /\ [][FormsNext]_vars

\* Every request is answered or given up.
FormsFairSpec ==
  /\ FormsSpec
  /\ WF_vars(ImageUploaded \/ Create \/ GenerateAnswered \/ StudioAnswered \/ SubmissionFails)

-----------------------------------------------------------------------------
(* Properties                                                              *)

ShownByUser == [task : Tasks, prompt : Prompts, image : Images \cup {None},
                resolution : Resolutions, duration : Durations, priced : BOOLEAN, cost : Nat]
ShownByStudio == [task : Tasks, prompt : Prompts, image : Images \cup {None}]

Sent == [task : Tasks, prompt : Prompts, model : Models \cup {None},
         image : Images \cup {None}]

FormStates == [task : Tasks, prompt : Prompts \cup {None}, image : Images \cup {None},
               preview : Images \cup {None}, path : Images \cup {None},
               model : Models \cup {None}, options : BOOLEAN]

Submissions == [step : {"upload", "create", "made"}, page : {"generate", "studio"},
                mine : BOOLEAN, shown : ShownByUser \cup ShownByStudio, sent : Sent, charged : Nat]

\* Types; only the page that is mounted has a state.
FormsTypeOK ==
  /\ user \in {"patient", "hasty"}
  /\ page \in {"away", "generate", "studio"}
  /\ form \in FormStates
  /\ reads \subseteq Images
  /\ uploads \subseteq [image : Images, latest : BOOLEAN]
  /\ work = NoWork \/ work \in Submissions
  /\ page # "generate" => reads = {} /\ form.preview = None
  /\ page # "studio" => uploads = {} /\ form.path = None

Requested == work.step \in {"create", "made"}

\* The job is the one the form showed at the click, through the upload between
\* the click and the request and whatever is edited meanwhile.  A user who waits
\* for previews, uploads and answers also gets the image that was shown.
SentAsShown ==
  Requested =>
    /\ work.sent.task = work.shown.task /\ work.sent.prompt = work.shown.prompt
    /\ user = "patient" /\ work.sent.task = "image_to_video" =>
         work.sent.image = work.shown.image

\* Whatever is picked, replaced, removed and uploaded in whichever order, a job
\* that animates an image has one, and only such a job.
ImageJobsHaveImage ==
  Requested => (work.sent.image # None <=> work.sent.task = "image_to_video")

\* A user pays what the page showed, with two exceptions: 480p is shown at half
\* its price, and so is 1080p as long as the options are not there.  The price of
\* the options is what a copy costs.
PaidAsShown ==
  work.step = "made" /\ work.page = "generate" =>
    LET shown == work.shown
        excepted == shown.resolution = IF shown.priced THEN "480p" ELSE "1080p"
    IN  /\ IF excepted THEN work.charged = 2 * shown.cost ELSE work.charged = shown.cost
        /\ shown.priced => shown.cost = CopyCost(shown.resolution, shown.duration)

\* The button comes back: every submission ends, on either page, though the user
\* leaves, the upload fails or the answer is lost.
SubmissionEnds == work # NoWork ~> work = NoWork

=============================================================================
