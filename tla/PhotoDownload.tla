---------------------------- MODULE PhotoDownload ----------------------------
(***************************************************************************)
(* Photos of a DJI camera: DJICameraManager, which keeps the set of files  *)
(* it has seen, the download tasks (DJIDownloadPhotoTask), and the other   *)
(* users of the mutex that guards the SDK (DJIAPIMutex).                   *)
(*                                                                         *)
(* While it links, the system asks the camera for its files, so that only  *)
(* later ones are downloaded.  Each download task asks again, takes the    *)
(* files that are new and requests one after the other.  The camera        *)
(* answers on a thread of the SDK, through a pointer to a block on the     *)
(* stack of the thread that asked.  A list is awaited without a bound and  *)
(* with the SDK locked, whether or not the SDK took the request; a file is *)
(* awaited for ten seconds, after which the task fulfils its own promise   *)
(* and goes on.                                                            *)
(*                                                                         *)
(* Setting a promise twice in the task, or answering to a block that is    *)
(* gone, ends the process.                                                 *)
(*                                                                         *)
(* A definition commented "Slip" is wrong on purpose: it is a variant of   *)
(* the definition after it, which shows that a property can fail.          *)
(***************************************************************************)
EXTENDS Naturals, FiniteSets

CONSTANTS
    Files,         \* bound: the files the camera may hold
    Tasks,         \* bound: the download tasks
    Link,          \* the thread that links the system
    Users,         \* bound: other operations that lock the SDK, each once
    NoThread,      \* no thread holds the mutex
    NoFile,        \* no file is awaited; as a request: the list of files
    InitAttempts   \* attempts to initialise the camera, 3 in the code

ASSUME ConstantsAssumption ==
    /\ NoFile \notin Files
    /\ Link \notin Tasks /\ NoThread \notin Tasks \cup {Link} \cup Users
    /\ Users \cap (Tasks \cup {Link}) = {}
    /\ InitAttempts \in Nat \ {0}

Askers  == Tasks \cup {Link}
Threads == Askers \cup Users

VARIABLES
    camera,    \* the files in the camera
    photos,    \* those of them that are photos
    attempt,   \* i in tryLink's loop; 0 after it
    enabled,   \* _is_enable of the camera manager
    known,     \* _camera_files_set
    api,       \* the thread that holds _dji_api_mutex
    stage,     \* where every thread is
    start,     \* the result of every task's start stage
    fresh,     \* files_ready_to_download of every task, those still to come
    file,      \* the file every task awaits
    promise,   \* the promise every thread awaits
    seen,      \* history: the camera's files when a thread asked for the list
    request,   \* requests the camera has not answered
    saved,     \* files that are on disk, complete
    asked,     \* history: files that were requested
    gaveUp,    \* history: a download was not answered in time
    unsaved,   \* history: files a WPMSavedPhotoEvent was posted for that were
               \* not on disk, or not complete
    crashed    \* the process is gone

cardVars == <<camera, photos>>
sdkVars  == <<cardVars, request, saved>>
linkVars == <<attempt, enabled>>
fileVars == <<known, fresh, file, seen>>
doneVars == <<asked, gaveUp, unsaved>>

vars == <<sdkVars, linkVars, fileVars, doneVars, api, stage, start, promise,
          crashed>>

Init ==
    /\ camera = {} /\ photos = {} /\ request = {} /\ saved = {}
    /\ attempt = 0 /\ enabled = FALSE
    /\ known = {} /\ fresh = [t \in Askers |-> {}]
    /\ file = [t \in Tasks |-> NoFile] /\ seen = [t \in Askers |-> {}]
    /\ api = NoThread
    /\ stage = [t \in Threads |-> IF t = Link THEN "init" ELSE "new"]
    /\ start = [t \in Tasks |-> "UNEXECUTE"]
    /\ promise = [t \in Askers |-> "empty"]
    /\ asked = {} /\ gaveUp = FALSE /\ unsaved = {} /\ crashed = FALSE

Goes(t, s) == stage' = [stage EXCEPT ![t] = s]
Linked == stage[Link] = "over"

-----------------------------------------------------------------------------
(* The camera and the SDK's threads.                                       *)

\* A file appears: a photo of the mission, one taken from the ground, or none.
Record(f) ==
    /\ f \notin camera /\ camera' = camera \cup {f}
    /\ photos' = photos \/ photos' = photos \cup {f}
    /\ UNCHANGED <<request, saved, linkVars, fileVars, doneVars, api, stage,
                   start, promise, crashed>>

\* Slip: the new files are not remembered.
ListResponseForgets(t) ==
    /\ [by |-> t, file |-> NoFile] \in request
    /\ request' = request \ {[by |-> t, file |-> NoFile]}
    /\ \/ /\ promise' = [promise EXCEPT ![t] = "false"]
          /\ UNCHANGED <<known, fresh>>
       \/ \E S \in SUBSET camera :
              /\ seen[t] \subseteq S
              /\ fresh' = [fresh EXCEPT ![t] = S \ known]
              /\ promise' = [promise EXCEPT ![t] = "true"]
              /\ UNCHANGED known
    /\ UNCHANGED <<cardVars, saved, linkVars, file, seen, doneVars, api, stage,
                   start, crashed>>

\* Slip: files are remembered that are not in the list.
ListResponseRemembersAll(t) ==
    /\ [by |-> t, file |-> NoFile] \in request
    /\ request' = request \ {[by |-> t, file |-> NoFile]}
    /\ \/ /\ promise' = [promise EXCEPT ![t] = "false"]
          /\ UNCHANGED <<known, fresh>>
       \/ \E S \in SUBSET camera :
              /\ seen[t] \subseteq S
              /\ fresh' = [fresh EXCEPT ![t] = S \ known]
              /\ known' = known \cup camera
              /\ promise' = [promise EXCEPT ![t] = "true"]
    /\ UNCHANGED <<cardVars, saved, linkVars, file, seen, doneVars, api, stage,
                   start, crashed>>

\* cameraFileReponse: an error, or a list of files, in which photos taken since
\* the request may be; the new ones are remembered and given to the thread.
ListResponse(t) ==
    /\ [by |-> t, file |-> NoFile] \in request
    /\ request' = request \ {[by |-> t, file |-> NoFile]}
    /\ \/ /\ promise' = [promise EXCEPT ![t] = "false"]
          /\ UNCHANGED <<known, fresh>>
       \/ \E S \in SUBSET camera :
              /\ seen[t] \subseteq S
              /\ fresh' = [fresh EXCEPT ![t] = S \ known]
              /\ known' = known \cup S
              /\ promise' = [promise EXCEPT ![t] = "true"]
    /\ UNCHANGED <<cardVars, saved, linkVars, file, seen, doneVars, api, stage,
                   start, crashed>>

\* What an answer does to the promise a task awaits: a second value is an
\* exception, which is caught.
Answer(t, value) ==
    promise' = [promise EXCEPT ![t] = IF @ = "empty" THEN value ELSE @]

\* The answer is written to the block of the request.  If that is gone, the
\* process ends, or nothing happens, or the block of the task's next file, which
\* may have the same address, is written to.
WriteTo(t, f, value) ==
    \/ file[t] # NoFile /\ Answer(t, value) /\ UNCHANGED crashed
    \/ file[t] # f /\ UNCHANGED <<promise, crashed>>
    \/ file[t] # f /\ crashed' = TRUE /\ UNCHANGED promise

\* Slip: every answer counts as a success.
FileResponseIsSuccess(t, f) ==
    /\ f # NoFile /\ [by |-> t, file |-> f] \in request
    /\ request' = request \ {[by |-> t, file |-> f]}
    /\ \E ok \in BOOLEAN :
           /\ saved' = IF ok THEN saved \cup {f} ELSE saved
           /\ WriteTo(t, f, "true")
    /\ UNCHANGED <<cardVars, linkVars, fileVars, doneVars, api, stage, start>>

\* fileDownloadReponse
FileResponse(t, f) ==
    /\ f # NoFile /\ [by |-> t, file |-> f] \in request
    /\ request' = request \ {[by |-> t, file |-> f]}
    /\ \E ok \in BOOLEAN :
           /\ saved' = IF ok THEN saved \cup {f} ELSE saved
           /\ WriteTo(t, f, IF ok THEN "true" ELSE "false")
    /\ UNCHANGED <<cardVars, linkVars, fileVars, doneVars, api, stage, start>>

-----------------------------------------------------------------------------
(* Asking for the list, with the SDK locked: updateFilesSetSync.           *)

\* The SDK may refuse the request.  Nobody looks at what it returns: the thread
\* waits all the same, for an answer that never comes.
RequestList(t) ==
    /\ stage[t] = "sync" /\ api = NoThread
    /\ api' = t /\ Goes(t, "list")
    /\ promise' = [promise EXCEPT ![t] = "empty"]
    /\ seen' = [seen EXCEPT ![t] = camera]
    /\ \/ request' = request \cup {[by |-> t, file |-> NoFile]}
       \/ UNCHANGED request
    /\ UNCHANGED <<cardVars, saved, linkVars, known, fresh, file, doneVars,
                   start, crashed>>

\* future.get()
ListArrives(t) ==
    /\ stage[t] = "list" /\ promise[t] # "empty"
    /\ api' = NoThread

-----------------------------------------------------------------------------
(* Linking: tryLink initialises the camera, up to three times.             *)

InitFails ==
    /\ enabled' = FALSE
    /\ IF attempt + 1 < InitAttempts
       THEN attempt' = attempt + 1 /\ Goes(Link, "init")
       ELSE attempt' = 0 /\ Goes(Link, "over")

\* initCameraModule, which may fail; a vehicle that is not an M300 fails, too.
InitCamera ==
    /\ stage[Link] = "init"
    /\ \/ Goes(Link, "sync") /\ UNCHANGED linkVars
       \/ InitFails
    /\ UNCHANGED <<sdkVars, fileVars, doneVars, api, start, promise, crashed>>

\* The files in the camera are not downloaded: the list is dropped.
EndInit ==
    /\ ListArrives(Link)
    /\ IF promise[Link] = "true"
       THEN enabled' = TRUE /\ attempt' = 0 /\ Goes(Link, "over")
       ELSE InitFails
    /\ UNCHANGED <<sdkVars, fileVars, doneVars, start, promise, crashed>>

-----------------------------------------------------------------------------
(* A download task.                                                        *)

Fail(t) == Goes(t, "over") /\ start' = [start EXCEPT ![t] = "FAILED"]

\* execute and the checks of startSyncFiles: memory, path and camera.
Execute(t) ==
    /\ stage[t] = "new" /\ Linked
    /\ \/ enabled /\ Goes(t, "sync") /\ UNCHANGED start
       \/ Fail(t)
    /\ UNCHANGED <<sdkVars, linkVars, fileVars, doneVars, api, promise, crashed>>

\* Slip: the lock is kept when the list could not be read.
EndSyncKeepsLock(t) ==
    /\ stage[t] = "list" /\ promise[t] # "empty"
    /\ IF promise[t] = "true"
       THEN /\ Goes(t, "files") /\ start' = [start EXCEPT ![t] = "SUCCESS"]
            /\ api' = NoThread
       ELSE Fail(t) /\ UNCHANGED api
    /\ UNCHANGED <<sdkVars, linkVars, fileVars, doneVars, promise, crashed>>

\* The end of startSyncFiles.
EndSync(t) ==
    /\ ListArrives(t)
    /\ IF promise[t] = "true"
       THEN Goes(t, "files") /\ start' = [start EXCEPT ![t] = "SUCCESS"]
       ELSE Fail(t)
    /\ UNCHANGED <<sdkVars, linkVars, fileVars, doneVars, promise, crashed>>

\* downloadFiles: each file is handled with the SDK locked; a file that is no
\* photo is passed over ...
SkipFile(t, f) ==
    /\ stage[t] = "files" /\ f \in fresh[t] \ photos /\ api = NoThread
    /\ fresh' = [fresh EXCEPT ![t] = @ \ {f}]
    /\ UNCHANGED <<sdkVars, linkVars, known, file, seen, doneVars, api, stage,
                   start, promise, crashed>>

\* ... and a photo is requested.
RequestFile(t, f) ==
    /\ stage[t] = "files" /\ f \in fresh[t] \cap photos /\ api = NoThread
    /\ api' = t /\ Goes(t, "await")
    /\ fresh' = [fresh EXCEPT ![t] = @ \ {f}]
    /\ file' = [file EXCEPT ![t] = f]
    /\ promise' = [promise EXCEPT ![t] = "empty"]
    /\ request' = request \cup {[by |-> t, file |-> f]}
    /\ asked' = asked \cup {f}
    /\ UNCHANGED <<cardVars, saved, linkVars, known, seen, gaveUp, unsaved,
                   start, crashed>>

\* Ten seconds have passed without an answer ...
TimesOut(t) ==
    /\ stage[t] = "await" /\ promise[t] = "empty"
    /\ Goes(t, "late") /\ gaveUp' = TRUE
    /\ UNCHANGED <<sdkVars, linkVars, fileVars, asked, unsaved, api, start,
                   promise, crashed>>

\* ... so the task sets the promise itself, unless the answer came meanwhile:
\* then set_value throws, which nothing catches.
SetPromise(t) ==
    /\ stage[t] = "late"
    /\ IF promise[t] = "empty"
       THEN /\ promise' = [promise EXCEPT ![t] = "true"]
            /\ Goes(t, "got") /\ UNCHANGED crashed
       ELSE crashed' = TRUE /\ UNCHANGED <<promise, stage>>
    /\ UNCHANGED <<sdkVars, linkVars, fileVars, doneVars, api, start>>

\* The answer came in time.
Answered(t) ==
    /\ stage[t] = "await" /\ promise[t] # "empty" /\ Goes(t, "got")
    /\ UNCHANGED <<sdkVars, linkVars, fileVars, doneVars, api, start, promise,
                   crashed>>

\* A photo that was downloaded is matched with the plan's photo points; an event
\* is posted if one is near.  The end of the loop's body: the block is gone.
EndFile(t) ==
    /\ stage[t] = "got"
    /\ \/ promise[t] = "true" /\ unsaved' = unsaved \cup ({file[t]} \ saved)
       \/ UNCHANGED unsaved
    /\ file' = [file EXCEPT ![t] = NoFile]
    /\ Goes(t, "files") /\ api' = NoThread
    /\ UNCHANGED <<sdkVars, linkVars, known, fresh, seen, asked, gaveUp, start,
                   promise, crashed>>

\* All files are handled.
Finish(t) ==
    /\ stage[t] = "files" /\ fresh[t] = {} /\ Goes(t, "over")
    /\ UNCHANGED <<sdkVars, linkVars, fileVars, doneVars, api, start, promise,
                   crashed>>

-----------------------------------------------------------------------------
(* Other users of the SDK: the upload of a mission, telemetry, the zoom.   *)

Lock(u) ==
    /\ stage[u] = "new" /\ Linked /\ api = NoThread
    /\ api' = u /\ Goes(u, "use")
    /\ UNCHANGED <<sdkVars, linkVars, fileVars, doneVars, start, promise,
                   crashed>>

Unlock(u) ==
    /\ stage[u] = "use" /\ api' = NoThread /\ Goes(u, "over")
    /\ UNCHANGED <<sdkVars, linkVars, fileVars, doneVars, start, promise,
                   crashed>>

-----------------------------------------------------------------------------
LinkStep == InitCamera \/ RequestList(Link) \/ EndInit

TaskStep(t) ==
    \/ RequestList(t) \/ EndSync(t)
    \/ \E f \in Files : SkipFile(t, f) \/ RequestFile(t, f)
    \/ TimesOut(t) \/ SetPromise(t) \/ Answered(t) \/ EndFile(t) \/ Finish(t)

Step ==
    \/ \E f \in Files : Record(f)
    \/ \E t \in Askers : ListResponse(t)
    \/ \E t \in Tasks, f \in Files : FileResponse(t, f)
    \/ LinkStep
    \/ \E t \in Tasks : Execute(t) \/ TaskStep(t)
    \/ \E u \in Users : Lock(u) \/ Unlock(u)

Next == ~crashed /\ Step

Spec == Init /\ [][Next]_vars

\* Threads run and the mutex is not withheld from a thread for ever while it is
\* free.  The camera owes no answer, be it a list or a file.
Fairness ==
    /\ WF_vars(LinkStep /\ ~crashed)
    /\ \A t \in Tasks : WF_vars(TaskStep(t) /\ ~crashed)
    /\ \A u \in Users : WF_vars((Lock(u) \/ Unlock(u)) /\ ~crashed)

FairSpec == Spec /\ Fairness

-----------------------------------------------------------------------------
(* Properties.                                                             *)

Request == [by : Tasks, file : Files] \cup [by : Askers, file : {NoFile}]
Stages  == {"init", "new", "sync", "list", "files", "await", "late", "got",
            "use", "over"}

\* Types.
TypeOK ==
    /\ camera \in SUBSET Files /\ photos \in SUBSET camera
    /\ attempt \in Nat /\ enabled \in BOOLEAN
    /\ known \in SUBSET Files /\ api \in Threads \cup {NoThread}
    /\ stage \in [Threads -> Stages]
    /\ start \in [Tasks -> {"UNEXECUTE", "FAILED", "SUCCESS"}]
    /\ fresh \in [Askers -> SUBSET Files] /\ seen \in [Askers -> SUBSET Files]
    /\ file \in [Tasks -> Files \cup {NoFile}]
    /\ promise \in [Askers -> {"empty", "true", "false"}]
    /\ request \in SUBSET Request
    /\ saved \in SUBSET Files /\ asked \in SUBSET Files
    /\ gaveUp \in BOOLEAN /\ unsaved \in SUBSET Files
    /\ crashed \in BOOLEAN

\* Whoever works with the SDK holds the mutex.
LockInv ==
    \A t \in Threads :
        stage[t] \in {"list", "await", "late", "got", "use"} <=> api = t

\* Where threads can be: nothing is downloaded before the system is linked, or
\* if the camera could not be initialised.
StagesInv ==
    /\ stage[Link] \in {"init", "sync", "list", "over"}
    /\ \A t \in Tasks : /\ stage[t] \notin {"init", "use"}
                        /\ ~(Linked /\ enabled) => stage[t] \in {"new", "over"}
    /\ ~Linked => \A t \in Tasks : stage[t] = "new"
    /\ \A u \in Users : stage[u] \in {"new", "use", "over"}

\* What a task's block and the camera know of each other.
RequestInv ==
    /\ \A t \in Tasks :
          /\ stage[t] \in {"await", "late", "got"} <=> file[t] # NoFile
          /\ file[t] # NoFile => file[t] \in asked
          /\ stage[t] = "late" => gaveUp
          /\ stage[t] = "got" => promise[t] # "empty"
          /\ stage[t] \in {"await", "got"} /\ promise[t] = "true" =>
                 gaveUp \/ file[t] \in saved
    /\ \A r \in request :
          IF r.file = NoFile
          THEN stage[r.by] = "list"
          ELSE (r.file = file[r.by] /\ promise[r.by] = "empty") \/ gaveUp

\* Every file is in the list of one thread, which it gets with the answer of the
\* camera, and in none once it was requested.
FilesInv ==
    /\ asked \subseteq known /\ known \subseteq camera
    /\ \A t, u \in Askers : t # u => fresh[t] \cap fresh[u] = {}
    /\ \A t \in Askers :
          /\ fresh[t] \subseteq known \ asked
          /\ [by |-> t, file |-> NoFile] \in request => promise[t] = "empty"
          /\ fresh[t] # {} =>
                 \/ stage[t] = "list" /\ promise[t] = "true"
                 \/ stage[t] \in {"files", "await", "late", "got"}
                 \/ t = Link /\ Linked

\* What the system knew when it was linked is in no task's list.
OldInv ==
    /\ stage[Link] = "list" /\ promise[Link] = "true" =>
           seen[Link] \subseteq known
    /\ asked # {} => enabled
    /\ Linked /\ enabled =>
           /\ seen[Link] \subseteq known
           /\ \A t \in Tasks : fresh[t] \cap seen[Link] = {}
    /\ ~(Linked /\ enabled) => asked = {} /\ \A t \in Tasks : fresh[t] = {}

\* Only photos that appeared after the system asked for the files in the camera
\* are downloaded, and none if it got no answer (initization, tryLink).
OldFilesAreLeft == asked # {} => enabled /\ asked \cap seen[Link] = {}

\* Unless a download was given up, the camera has one request to answer at most,
\* though lists and files are requested by many threads (DJIAPIMutex).
OneRequest == ~gaveUp => \A r, s \in request : r = s

\* A photo event is posted for no file that is not on disk, unless a download was
\* given up: that counts as a success, and its late answer may be taken for the
\* answer to a later request (downloadFiles).
PostedIsSaved == unsaved # {} => gaveUp

\* Only the late answer to a download that was given up can end the process
\* (FileDownloadBlock).
CrashOnlyAfterTimeout == crashed => gaveUp

\* A photo that was seen in the camera is not forgotten: it was requested, or is
\* in the list of a task that will request it, or in the list that was dropped
\* when the system was linked (cameraFileReponse, downloadFiles).
NoPhotoForgotten ==
    /\ known \cap photos \subseteq asked \cup UNION {fresh[t] : t \in Askers}
    /\ \A t \in Tasks : stage[t] = "over" => fresh[t] = {}

IInv ==
    /\ TypeOK /\ LockInv /\ StagesInv /\ RequestInv /\ FilesInv /\ OldInv
    /\ OldFilesAreLeft /\ OneRequest /\ PostedIsSaved /\ NoPhotoForgotten
    /\ CrashOnlyAfterTimeout

\* No file is requested twice, by whichever tasks (cameraFileReponse).
AskedOnce == [][\A r \in request' \ request : r.file \notin asked]_vars

\* A thread waits for the list of files, and has the SDK locked.
ListAwaited == \E t \in Askers : stage[t] = "list" /\ promise[t] = "empty"

\* A download task ends, and so does any operation that waits for the SDK, also
\* if no download is ever answered (wait_for, DJIAPIMutex); unless there is a list
\* that never comes, because the request was refused or is not answered: then the
\* thread that waits for it stops everybody else (future.get).
AllAreServed ==
    /\ \A t \in Tasks :
           stage[t] = "sync" ~> stage[t] = "over" \/ crashed \/ []ListAwaited
    /\ \A u \in Users :
           Linked /\ stage[u] = "new" ~>
               stage[u] = "over" \/ crashed \/ []ListAwaited
=============================================================================
