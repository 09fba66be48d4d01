------------------------- MODULE GenerateFormsProofs -------------------------
(***************************************************************************)
(* For any images, prompts, models and durations: the forms keep their     *)
(* types, a job is sent as it was shown, with an image exactly when it     *)
(* animates one, and its price is the price shown but for two exceptions.  *)
(*                                                                         *)
(* The argument: what a submission carries is fixed at the click and never *)
(* changed again (WorkInv).  That the image is the one shown needs the     *)
(* patient user, for whom there is one reading or upload at most and it is *)
(* of the image in the form (PatientInv).                                  *)
(***************************************************************************)
EXTENDS GenerateForms, TLAPS

\* Of a submission, from the click to the answer.
WorkInv ==
  work # NoWork =>
    /\ work.mine => page = work.page
    /\ work.sent.task = work.shown.task /\ work.sent.prompt = work.shown.prompt
    /\ work.sent.image # None <=> work.sent.task = "image_to_video"
    /\ user = "patient" /\ work.sent.task = "image_to_video" => work.sent.image = work.shown.image
    /\ work.page = "generate" =>
         /\ work.shown \in ShownByUser
         /\ work.shown.cost = ShownCost(work.shown.resolution, work.shown.duration, work.shown.priced)
         /\ work.step = "made" =>
              work.charged = GenerationCost(work.shown.resolution, work.shown.duration)

\* Of the form of a user who waits.
PatientInv ==
  user = "patient" =>
    /\ work # NoWork => reads = {} /\ uploads = {}
    /\ page = "generate" => IF reads = {} THEN form.preview = form.image ELSE reads = {form.image}
    /\ page = "studio" => IF uploads = {} THEN form.path = form.image
                          ELSE uploads = {[image |-> form.image, latest |-> TRUE]}

FormsInv == FormsTypeOK /\ WorkInv /\ PatientInv

-----------------------------------------------------------------------------
(* The initial states, and steps that touch one part                       *)

LEMMA FreshTyped ==
  /\ Fresh \in FormStates /\ Fresh.image = None /\ Fresh.preview = None /\ Fresh.path = None
  BY DEF Fresh, FormStates, Tasks

LEMMA FormsInvInit == FormsInit => FormsInv
  BY FreshTyped DEF FormsInit, FormsInv, FormsTypeOK, WorkInv, PatientInv

\* A step of the form alone.
LEMMA FormStep ==
  ASSUME FormsInv, form' \in FormStates, UNCHANGED <<user, page, work>>,
         reads' \subseteq Images, uploads' \subseteq [image : Images, latest : BOOLEAN],
         page # "generate" => reads' = {} /\ form'.preview = None,
         page # "studio" => uploads' = {} /\ form'.path = None,
         PatientInv'
  PROVE  FormsInv'
  BY DEF FormsInv, FormsTypeOK, WorkInv

\* An edit of a field that is no image.
LEMMA EditStepInv ==
  ASSUME FormsInv, UNCHANGED <<user, page, reads, uploads, work>>, form' \in FormStates,
         form'.image = form.image, form'.preview = form.preview, form'.path = form.path
  PROVE  FormsInv'
<1>1. PatientInv'
  BY DEF FormsInv, PatientInv
<1> QED
  BY <1>1, FormStep DEF FormsInv, FormsTypeOK

\* A step that leaves the forms alone and is the same submission's next step, or its end.
LEMMA WorkStep ==
  ASSUME FormsInv, UNCHANGED <<user, page, form, reads, uploads>>,
         work' = NoWork \/ (work # NoWork /\ work' \in Submissions), WorkInv'
  PROVE  FormsInv'
  BY DEF FormsInv, FormsTypeOK, PatientInv

-----------------------------------------------------------------------------
(* What both pages have                                                    *)

LEMMA UnmountInv ==
  ASSUME FormsInv, Unmount, UNCHANGED user,
         work' = NoWork \/ (work # NoWork /\ work' = [work EXCEPT !.mine = FALSE])
  PROVE  FormsInv'
<1>1. work' = NoWork \/ work' \in Submissions
  BY DEF FormsInv, FormsTypeOK, Submissions
<1>2. FormsTypeOK'
  BY <1>1, FreshTyped DEF Unmount, FormsInv, FormsTypeOK
<1>3. PatientInv'
  BY DEF Unmount, PatientInv
<1>4. CASE work' = NoWork
  <2>1. WorkInv'
    BY <1>4 DEF FormsInv, WorkInv
  <2> QED
    BY <1>2, <1>3, <2>1 DEF FormsInv
<1>5. CASE work # NoWork /\ work' = [work EXCEPT !.mine = FALSE]
  <2>1. work'.shown = work.shown /\ work'.sent = work.sent /\ work'.page = work.page
        /\ work'.step = work.step /\ work'.charged = work.charged /\ work'.mine = FALSE
    BY <1>5 DEF FormsInv, FormsTypeOK, Submissions
  <2>2. WorkInv'
    BY <1>5, <2>1 DEF FormsInv, WorkInv
  <2> QED
    BY <1>2, <1>3, <2>2 DEF FormsInv
<1> QED
  BY <1>4, <1>5

LEMMA EditInv == ASSUME FormsInv, EditStep  PROVE FormsInv'
<1>1. form \in FormStates /\ Models = TextModels \cup ImageModels
  BY DEF FormsInv, FormsTypeOK, Models
<1>2. ASSUME NEW p \in {"generate", "studio"}, Open(p)  PROVE FormsInv'
  <2>1. FormsTypeOK'
    BY <1>2, FreshTyped DEF Open, FormsInv, FormsTypeOK
  <2>2. WorkInv'
    BY <1>2 DEF Open, FormsInv, WorkInv, FormsTypeOK, Submissions
  <2>3. reads = {} /\ uploads = {}
    BY <1>2 DEF Open, FormsInv, FormsTypeOK
  <2>4. PatientInv'
    BY <1>2, <2>3, FreshTyped DEF Open, PatientInv
  <2> QED
    BY <2>1, <2>2, <2>4 DEF FormsInv
<1>3. CASE Leave
  BY <1>3, UnmountInv DEF Leave
<1>4. ASSUME NEW task \in Tasks, ChooseTask(task)  PROVE FormsInv'
  BY <1>1, <1>4, EditStepInv DEF ChooseTask, FormStates
<1>5. ASSUME NEW prompt \in Prompts \cup {None}, TypePrompt(prompt)  PROVE FormsInv'
  BY <1>1, <1>5, EditStepInv DEF TypePrompt, FormStates
<1>6. ASSUME NEW m \in Models \cup {None}, ChooseModel(m)  PROVE FormsInv'
  BY <1>1, <1>6, EditStepInv DEF ChooseModel, FormStates
<1> QED
  BY <1>2, <1>3, <1>4, <1>5, <1>6 DEF EditStep

-----------------------------------------------------------------------------
(* The user's page                                                         *)

LEMMA Prices ==
  ASSUME NEW duration \in Durations, NEW resolution \in Resolutions, NEW priced \in BOOLEAN
  PROVE  /\ ShownCost(resolution, duration, priced) \in Nat
         /\ GenerationCost(resolution, duration) \in Nat
  BY FormsAssumption DEF ShownCost, GenerationCost, OptionPrice, Resolutions

LEMMA GenerateInv ==
  ASSUME FormsInv, NEW resolution \in Resolutions, NEW duration \in Durations,
         Generate(resolution, duration)
  PROVE  FormsInv'
<1> DEFINE shown == [task |-> form.task, prompt |-> form.prompt, image |-> form.preview,
                     resolution |-> resolution, duration |-> duration, priced |-> form.options,
                     cost |-> ShownCost(resolution, duration, form.options)]
           sent == [task |-> form.task, prompt |-> form.prompt, model |-> form.model,
                    image |-> IF form.task = "image_to_video" THEN form.image ELSE None]
<1>1. /\ form.task \in Tasks /\ form.prompt \in Prompts \cup {None} /\ form.options \in BOOLEAN
      /\ form.image \in Images \cup {None} /\ form.preview \in Images \cup {None}
      /\ form.model \in Models \cup {None}
  BY DEF FormsInv, FormsTypeOK, FormStates
<1>2. form.prompt # None /\ (form.task = "image_to_video" => form.image # None)
  BY DEF Generate, CanGenerate
<1>3. shown \in ShownByUser
  BY <1>1, <1>2, Prices DEF ShownByUser
<1>4. sent \in Sent
  BY <1>1, <1>2 DEF Sent
<1>5. PICK step \in {"upload", "create"} :
        work' = [step |-> step, page |-> "generate", mine |-> TRUE, charged |-> 0,
                 shown |-> shown, sent |-> sent]
  BY DEF Generate
<1>6. user = "patient" => reads = {} /\ uploads = {} /\ form.preview = form.image
  BY DEF Generate, Patience, FormsInv, PatientInv
<1>7. sent.task = shown.task /\ sent.prompt = shown.prompt
      /\ (sent.image # None <=> sent.task = "image_to_video")
      /\ (user = "patient" /\ sent.task = "image_to_video" => sent.image = shown.image)
      /\ shown.cost = ShownCost(shown.resolution, shown.duration, shown.priced)
  BY <1>2, <1>6
<1> HIDE DEF shown, sent
<1>8. work' \in Submissions
  BY <1>3, <1>4, <1>5 DEF Submissions
<1>9. WorkInv'
  BY <1>3, <1>5, <1>7 DEF WorkInv, Generate
<1>10. FormsTypeOK'
  BY <1>8 DEF Generate, FormsInv, FormsTypeOK
<1>11. PatientInv'
  BY <1>6 DEF Generate, FormsInv, PatientInv
<1> QED
  BY <1>9, <1>10, <1>11 DEF FormsInv

LEMMA GenerateStepInv == ASSUME FormsInv, GenerateStep  PROVE FormsInv'
<1>1. form \in FormStates /\ reads \subseteq Images /\ uploads \subseteq [image : Images, latest : BOOLEAN]
      /\ (page # "generate" => reads = {} /\ form.preview = None)
      /\ (page # "studio" => uploads = {} /\ form.path = None)
  BY DEF FormsInv, FormsTypeOK
<1>2. CASE OptionsArrive
  BY <1>1, <1>2, EditStepInv DEF OptionsArrive, FormStates
<1>3. CASE RemoveImage
  <2>1. form' \in FormStates /\ form'.image = None /\ form'.preview = None /\ form'.path = form.path
    BY <1>1, <1>3 DEF RemoveImage, FormStates
  <2>2. PatientInv'
    BY <1>3, <2>1 DEF RemoveImage, Patience, FormsInv, PatientInv
  <2> QED
    BY <1>1, <1>3, <2>1, <2>2, FormStep DEF RemoveImage
<1>4. CASE ImageUploaded
  <2>1. work # NoWork
    BY <1>4 DEF ImageUploaded, NoWork
  <2>2. work \in Submissions
    BY <2>1 DEF FormsInv, FormsTypeOK
  <2>3. work' \in Submissions /\ work'.shown = work.shown /\ work'.sent = work.sent
        /\ work'.page = work.page /\ work'.mine = work.mine /\ work'.step = "create"
    BY <1>4, <2>2 DEF ImageUploaded, Submissions
  <2>4. WorkInv'
    BY <1>4, <2>1, <2>3 DEF ImageUploaded, FormsInv, WorkInv
  <2> QED
    BY <1>4, <2>1, <2>3, <2>4, WorkStep DEF ImageUploaded
<1>5. CASE GenerateAnswered
  BY <1>5, UnmountInv DEF GenerateAnswered
<1>6. ASSUME NEW i \in Images, PickImage(i)  PROVE FormsInv'
  <2>1. form' \in FormStates /\ form'.image = i /\ form'.preview = form.preview /\ form'.path = form.path
    BY <1>1, <1>6 DEF PickImage, FormStates
  <2>2. PatientInv'
    BY <1>6, <2>1 DEF PickImage, Patience, FormsInv, PatientInv
  <2> QED
    BY <1>1, <1>6, <2>1, <2>2, FormStep DEF PickImage
<1>7. ASSUME NEW i \in Images, ReadEnds(i)  PROVE FormsInv'
  <2>1. form' \in FormStates /\ form'.image = form.image /\ form'.preview = i /\ form'.path = form.path
    BY <1>1, <1>7 DEF ReadEnds, FormStates
  <2>2. page = "generate"
    BY <1>1, <1>7 DEF ReadEnds
  <2>3. PatientInv'
    BY <1>7, <2>1, <2>2 DEF ReadEnds, FormsInv, PatientInv
  <2> QED
    BY <1>1, <1>7, <2>1, <2>2, <2>3, FormStep DEF ReadEnds
<1> QED
  BY <1>2, <1>3, <1>4, <1>5, <1>6, <1>7, GenerateInv DEF GenerateStep

-----------------------------------------------------------------------------
(* The studio                                                              *)

LEMMA StudioSubmitInv == ASSUME FormsInv, StudioSubmit  PROVE FormsInv'
<1>1. /\ form.task \in Tasks /\ form.prompt \in Prompts \cup {None}
      /\ form.image \in Images \cup {None} /\ form.path \in Images \cup {None}
      /\ form.model \in Models \cup {None}
  BY DEF FormsInv, FormsTypeOK, FormStates
<1>2. PICK m \in Models \cup {None} :
        work' = [step |-> "create", page |-> "studio", mine |-> TRUE, charged |-> 0,
                 shown |-> [task |-> form.task, prompt |-> form.prompt, image |-> form.image],
                 sent |-> [task |-> form.task, prompt |-> form.prompt, model |-> m,
                           image |-> IF form.task = "image_to_video" THEN form.path ELSE None]]
  BY <1>1 DEF StudioSubmit, Offered
<1> DEFINE shown == [task |-> form.task, prompt |-> form.prompt, image |-> form.image]
           sent == [task |-> form.task, prompt |-> form.prompt, model |-> m,
                    image |-> IF form.task = "image_to_video" THEN form.path ELSE None]
<1>3. form.prompt # None /\ (form.task = "text_to_video" \/ form.path # None)
  BY DEF StudioSubmit, CanSubmit
<1>4. shown \in ShownByStudio /\ sent \in Sent
  BY <1>1, <1>3 DEF ShownByStudio, Sent
<1>5. user = "patient" => reads = {} /\ uploads = {} /\ form.path = form.image
  BY DEF StudioSubmit, Patience, FormsInv, PatientInv
<1>6. sent.task = shown.task /\ sent.prompt = shown.prompt
      /\ (sent.image # None <=> sent.task = "image_to_video")
      /\ (user = "patient" /\ sent.task = "image_to_video" => sent.image = shown.image)
  BY <1>1, <1>3, <1>5 DEF Tasks
<1>7. work' = [step |-> "create", page |-> "studio", mine |-> TRUE, charged |-> 0,
               shown |-> shown, sent |-> sent]
  BY <1>2
<1> HIDE DEF shown, sent
<1>8. work' \in Submissions
  BY <1>4, <1>7 DEF Submissions
<1>9. WorkInv'
  BY <1>6, <1>7 DEF WorkInv, StudioSubmit
<1>10. FormsTypeOK'
  BY <1>8 DEF StudioSubmit, FormsInv, FormsTypeOK
<1>11. PatientInv'
  BY <1>5 DEF StudioSubmit, FormsInv, PatientInv
<1> QED
  BY <1>9, <1>10, <1>11 DEF FormsInv

LEMMA StudioStepInv == ASSUME FormsInv, StudioStep  PROVE FormsInv'
<1>1. form \in FormStates /\ reads \subseteq Images /\ uploads \subseteq [image : Images, latest : BOOLEAN]
      /\ (page # "generate" => reads = {} /\ form.preview = None)
      /\ (page # "studio" => uploads = {} /\ form.path = None)
  BY DEF FormsInv, FormsTypeOK
<1>2. ASSUME NEW i \in Images, DropImage(i)  PROVE FormsInv'
  <2>1. form' \in FormStates /\ form'.image = i /\ form'.preview = form.preview /\ form'.path = form.path
    BY <1>1, <1>2 DEF DropImage, FormStates
  <2>2. uploads' \subseteq [image : Images, latest : BOOLEAN] /\ page = "studio"
    <3>1. \A u \in uploads : [u EXCEPT !.latest = FALSE] \in [image : Images, latest : BOOLEAN]
      BY <1>1
    <3>2. [image |-> i, latest |-> TRUE] \in [image : Images, latest : BOOLEAN]
      OBVIOUS
    <3> DEFINE S == [image : Images, latest : BOOLEAN]
    <3> HIDE DEF S
    <3>3. uploads' \subseteq S
      BY <1>2, <3>1, <3>2 DEF DropImage, S
    <3> QED
      BY <1>2, <3>3 DEF DropImage, StudioZone, S
  <2>3. user = "patient" => uploads' = {[image |-> i, latest |-> TRUE]} /\ work = NoWork
    BY <1>2 DEF DropImage, Patience
  <2>4. PatientInv'
    BY <1>2, <2>1, <2>2, <2>3 DEF DropImage, PatientInv
  <2> QED
    BY <1>1, <1>2, <2>1, <2>2, <2>4, FormStep DEF DropImage
<1>3. ASSUME NEW u \in uploads, UploadEnds(u)  PROVE FormsInv'
  <2>1. u.image \in Images /\ page = "studio"
    BY <1>1
  <2>2. /\ form' \in FormStates /\ form'.preview = form.preview
        /\ \/ form'.path = u.image /\ form'.image = form.image
           \/ form'.path = None /\ form'.image = None
    BY <1>1, <1>3, <2>1 DEF UploadEnds, FormStates
  <2>3. uploads' = uploads \ {u} /\ UNCHANGED <<user, page, reads, work>>
    BY <1>3 DEF UploadEnds
  <2>4. user = "patient" => u.image = form.image /\ work = NoWork /\ uploads' = {}
    <3> SUFFICES ASSUME user = "patient"  PROVE u.image = form.image /\ work = NoWork /\ uploads' = {}
      OBVIOUS
    <3>1. work = NoWork /\ uploads = {[image |-> form.image, latest |-> TRUE]}
      BY <2>1 DEF FormsInv, PatientInv
    <3>2. u = [image |-> form.image, latest |-> TRUE]
      BY <3>1
    <3>3. uploads' = {}
      BY <2>3, <3>1, <3>2
    <3> QED
      BY <3>1, <3>2, <3>3
  <2>5. PatientInv'
    BY <2>1, <2>2, <2>3, <2>4 DEF PatientInv
  <2> QED
    BY <1>1, <2>1, <2>2, <2>3, <2>5, FormStep
<1>4. CASE RemoveUploaded
  <2>1. form' \in FormStates /\ form'.image = None /\ form'.path = None /\ form'.preview = form.preview
        /\ page = "studio"
    BY <1>1, <1>4 DEF RemoveUploaded, StudioZone, FormStates
  <2>2. PatientInv'
    BY <1>4, <2>1 DEF RemoveUploaded, Patience, FormsInv, PatientInv
  <2> QED
    BY <1>1, <1>4, <2>1, <2>2, FormStep DEF RemoveUploaded
<1>5. CASE StudioAnswered
  <2>1. work # NoWork /\ work' = NoWork /\ UNCHANGED <<user, page, reads, uploads>>
    BY <1>5 DEF StudioAnswered, NoWork
  <2>2. \/ form' = form
        \/ /\ form' \in FormStates /\ form'.image = None /\ form'.path = None
           /\ form'.preview = form.preview
    BY <1>1, <1>5 DEF StudioAnswered, FormStates
  <2>3. FormsTypeOK'
    BY <1>1, <2>1, <2>2 DEF FormsInv, FormsTypeOK
  <2>4. WorkInv'
    BY <2>1 DEF WorkInv
  <2>5. form' # form => page = "studio"
    BY <1>5, <2>1 DEF StudioAnswered, FormsInv, WorkInv
  <2>6. PatientInv'
    BY <1>1, <2>1, <2>2, <2>5 DEF FormsInv, PatientInv
  <2> QED
    BY <2>3, <2>4, <2>6 DEF FormsInv
<1> QED
  BY <1>2, <1>3, <1>4, <1>5, StudioSubmitInv DEF StudioStep

-----------------------------------------------------------------------------
(* The API, and all steps                                                  *)

LEMMA CreateInv == ASSUME FormsInv, Create  PROVE FormsInv'
<1>1. work # NoWork
  BY DEF Create, NoWork
<1>2. work \in Submissions
  BY <1>1 DEF FormsInv, FormsTypeOK
<1> DEFINE charged == IF work.page = "studio" THEN 0
                      ELSE GenerationCost(work.shown.resolution, work.shown.duration)
<1>3. work.page # "studio" => work.page = "generate" /\ work.shown \in ShownByUser
  BY <1>1, <1>2 DEF FormsInv, WorkInv, Submissions
<1>4. charged \in Nat
  <2>1. CASE work.page = "studio"
    BY <2>1
  <2>2. CASE work.page # "studio"
    <3>1. work.shown.resolution \in Resolutions /\ work.shown.duration \in Durations
      BY <1>3, <2>2 DEF ShownByUser
    <3>2. GenerationCost(work.shown.resolution, work.shown.duration) \in Nat
      BY <3>1, Prices
    <3> QED
      BY <2>2, <3>2
  <2> QED
    BY <2>1, <2>2
<1>5. work' = [work EXCEPT !.step = "made", !.charged = charged]
      /\ UNCHANGED <<user, page, form, reads, uploads>>
  BY DEF Create
<1> HIDE DEF charged
<1>6. work' \in Submissions /\ work'.shown = work.shown /\ work'.sent = work.sent
      /\ work'.page = work.page /\ work'.mine = work.mine /\ work'.step = "made"
      /\ work'.charged = charged
  BY <1>2, <1>4, <1>5 DEF Submissions
<1>7. WorkInv'
  BY <1>1, <1>5, <1>6 DEF FormsInv, WorkInv, charged
<1> QED
  BY <1>1, <1>5, <1>6, <1>7, WorkStep

LEMMA FormsInvStep == FormsInv /\ [FormsNext]_vars => FormsInv'
<1> SUFFICES ASSUME FormsInv, [FormsNext]_vars  PROVE FormsInv'
  OBVIOUS
<1>1. CASE SubmissionFails
  BY <1>1, WorkStep DEF SubmissionFails, WorkInv
<1>2. CASE UNCHANGED vars
  BY <1>2 DEF vars, FormsInv, FormsTypeOK, WorkInv, PatientInv
<1> QED
  BY <1>1, <1>2, EditInv, GenerateStepInv, StudioStepInv, CreateInv DEF FormsNext

LEMMA FormsInvariant == FormsSpec => []FormsInv
  BY FormsInvInit, FormsInvStep, PTL DEF FormsSpec

-----------------------------------------------------------------------------
(* Theorems                                                                *)

\* Only the mounted page has previews, readings, uploads and a stored path, in
\* whichever order they end and the user leaves.
THEOREM FormsTyped == FormsSpec => []FormsTypeOK
<1>1. FormsInv => FormsTypeOK
  BY DEF FormsInv
<1> QED
  BY <1>1, FormsInvariant, PTL

\* The job that is created is the one of the click, whatever is edited while the
\* image is uploaded; for a user who waits, with the image that was shown.
THEOREM FormsSentAsShown == FormsSpec => []SentAsShown
<1>1. FormsInv => SentAsShown
  BY DEF FormsInv, WorkInv, SentAsShown, Requested, NoWork
<1> QED
  BY <1>1, FormsInvariant, PTL

\* A job that animates an image is created with one, and no other job is.
THEOREM FormsImageJobs == FormsSpec => []ImageJobsHaveImage
<1>1. FormsInv => ImageJobsHaveImage
  BY DEF FormsInv, WorkInv, ImageJobsHaveImage, Requested, NoWork
<1> QED
  BY <1>1, FormsInvariant, PTL

\* What the API charges is what the page showed, for every duration, but for 480p
\* and for 1080p before the options are there, which cost twice that.
THEOREM FormsPaidAsShown == FormsSpec => []PaidAsShown
<1>1. ASSUME FormsInv  PROVE PaidAsShown
  <2> SUFFICES ASSUME work.step = "made", work.page = "generate"  PROVE PaidAsShown
    BY DEF PaidAsShown
  <2>1. /\ work.shown \in ShownByUser
        /\ work.shown.cost = ShownCost(work.shown.resolution, work.shown.duration, work.shown.priced)
        /\ work.charged = GenerationCost(work.shown.resolution, work.shown.duration)
    BY <1>1 DEF FormsInv, WorkInv, NoWork
  <2>2. /\ work.shown.duration \in Nat /\ work.shown.priced \in BOOLEAN
        /\ work.shown.resolution \in Resolutions
    BY <2>1, FormsAssumption DEF ShownByUser
  <2>3. ASSUME NEW r \in Resolutions, NEW d \in Nat, NEW priced \in BOOLEAN
        PROVE  /\ IF r = (IF priced THEN "480p" ELSE "1080p")
                  THEN GenerationCost(r, d) = 2 * ShownCost(r, d, priced)
                  ELSE GenerationCost(r, d) = ShownCost(r, d, priced)
               /\ priced => ShownCost(r, d, priced) = CopyCost(r, d)
    BY DEF Resolutions, GenerationCost, ShownCost, OptionPrice, CopyCost
  <2> QED
    BY <2>1, <2>2, <2>3 DEF PaidAsShown
<1> QED
  BY <1>1, FormsInvariant, PTL

=============================================================================
