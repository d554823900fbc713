------------------------- MODULE PhotoDownloadProofs -------------------------
(***************************************************************************)
(* Photo downloads, for any number of files, tasks and other users of the  *)
(* SDK: no photo is requested twice or forgotten, and none counts as saved *)
(* that is not, unless a download was given up.                            *)
(*                                                                         *)
(* Action by action, every step keeps the invariant.                       *)
(***************************************************************************)
EXTENDS PhotoDownload, TLAPS

USE ConstantsAssumption
    DEF Askers, Threads, cardVars, sdkVars, linkVars, fileVars, doneVars, Goes,
        Linked, IInv, TypeOK

\* Record keeps the invariant.
LEMMA RecordStep ==
    ASSUME NEW f \in Files, IInv, ~crashed, Record(f)
    PROVE  IInv'
  <1>1. TypeOK'
    BY DEF TypeOK, Stages, Request, Record
  <1>2. LockInv' /\ StagesInv'
    BY <1>1 DEF LockInv, StagesInv, Stages, RequestInv, OldInv, Record
  <1>3. RequestInv' /\ OneRequest'
    BY <1>1 DEF RequestInv, OneRequest, Request, StagesInv, LockInv, FilesInv,
           OldInv, Record
  <1>4. FilesInv' /\ NoPhotoForgotten'
    <2>1. FilesInv'
      BY DEF FilesInv, Record
    <2>2. known \cap photos' = known \cap photos
      <3>1. \A e \in known : e # f
        BY DEF FilesInv, Record
      <3>2. known' = known /\ (photos' = photos \/ photos' = photos \cup {f})
        BY DEF Record
      <3>3. QED
        BY <3>1, <3>2
    <2>3. QED
      BY <2>1, <2>2 DEF NoPhotoForgotten, Record
  <1>5. OldInv' /\ OldFilesAreLeft'
    BY <1>1 DEF OldInv, OldFilesAreLeft, Request, StagesInv, RequestInv,
           FilesInv, Record
  <1>6. PostedIsSaved' /\ CrashOnlyAfterTimeout'
    BY <1>1 DEF PostedIsSaved, CrashOnlyAfterTimeout, RequestInv, Record
  <1>7. QED
    BY <1>1, <1>2, <1>3, <1>4, <1>5, <1>6

\* ListResponse keeps the invariant.
LEMMA ListResponseStep ==
    ASSUME NEW t \in Askers, IInv, ~crashed, ListResponse(t)
    PROVE  IInv'
  <1>1. TypeOK'
    BY DEF TypeOK, Stages, Request, ListResponse
  <1>2. LockInv' /\ StagesInv'
    BY <1>1 DEF LockInv, StagesInv, Stages, RequestInv, OldInv, ListResponse
  <1>3. RequestInv' /\ OneRequest'
    BY <1>1 DEF RequestInv, OneRequest, Request, StagesInv, LockInv, FilesInv,
           OldInv, ListResponse
  <1>4. FilesInv' /\ NoPhotoForgotten'
    <2>1. fresh[t] = {} /\ stage[t] = "list"
      BY DEF ListResponse, FilesInv, RequestInv, StagesInv
    <2>2. CASE UNCHANGED <<known, fresh>>
      BY <1>1, <2>1, <2>2 DEF ListResponse, FilesInv, NoPhotoForgotten
    <2>3. ASSUME NEW S \in SUBSET camera,
                 fresh' = [fresh EXCEPT ![t] = S \ known],
                 known' = known \cup S,
                 promise' = [promise EXCEPT ![t] = "true"]
          PROVE  FilesInv' /\ NoPhotoForgotten'
      <3>1. /\ fresh'[t] = S \ known /\ promise'[t] = "true"
            /\ \A u \in Askers : u # t => /\ fresh'[u] = fresh[u]
                                          /\ promise'[u] = promise[u]
            /\ UNCHANGED <<stage, asked>>
        BY <2>3 DEF ListResponse
      <3>2. \A u \in Askers : fresh'[u] \subseteq known' \ asked'
        BY <2>3, <3>1 DEF FilesInv
      <3>3. \A u, w \in Askers : u # w => fresh'[u] \cap fresh'[w] = {}
        <4>1. \A u \in Askers : fresh[u] \subseteq known
          BY DEF FilesInv
        <4>2. \A u \in Askers : (S \ known) \cap fresh[u] = {}
          BY <4>1
        <4>3. \A u, w \in Askers : u # w => fresh[u] \cap fresh[w] = {}
          BY DEF FilesInv
        <4>4. QED
          BY <3>1, <4>2, <4>3
      <3>4. \A u \in Askers : [by |-> u, file |-> NoFile] \in request' =>
                                  promise'[u] = "empty"
        BY <3>1 DEF ListResponse, FilesInv
      <3>5. \A u \in Askers : fresh'[u] # {} =>
                \/ stage'[u] = "list" /\ promise'[u] = "true"
                \/ stage'[u] \in {"files", "await", "late", "got"}
                \/ u = Link /\ Linked'
        BY <2>1, <3>1 DEF FilesInv
      <3>6. FilesInv'
        <4>1. asked' \subseteq known' /\ known' \subseteq camera'
          BY <2>3, <3>1 DEF FilesInv, ListResponse
        <4>2. QED
          BY <3>2, <3>3, <3>4, <3>5, <4>1 DEF FilesInv
      <3>7. NoPhotoForgotten'
        BY <2>1, <2>3, <3>1 DEF NoPhotoForgotten, ListResponse
      <3>8. QED
        BY <3>6, <3>7
    <2>4. QED
      BY <2>2, <2>3 DEF ListResponse
  <1>5. OldInv' /\ OldFilesAreLeft'
    BY <1>1 DEF OldInv, OldFilesAreLeft, Request, StagesInv, RequestInv,
           FilesInv, ListResponse
  <1>6. PostedIsSaved' /\ CrashOnlyAfterTimeout'
    BY <1>1 DEF PostedIsSaved, CrashOnlyAfterTimeout, RequestInv, ListResponse
  <1>7. QED
    BY <1>1, <1>2, <1>3, <1>4, <1>5, <1>6

\* FileResponse keeps the invariant.
LEMMA FileResponseStep ==
    ASSUME NEW t \in Tasks, NEW f \in Files, IInv, ~crashed, FileResponse(t, f)
    PROVE  IInv'
  <1>1. TypeOK'
    BY DEF TypeOK, Stages, Request, FileResponse, WriteTo, Answer
  <1>2. LockInv' /\ StagesInv'
    BY <1>1 DEF LockInv, StagesInv, Stages, RequestInv, OldInv, FileResponse,
           WriteTo, Answer
  <1>3. RequestInv' /\ OneRequest'
    BY <1>1 DEF RequestInv, OneRequest, Request, StagesInv, LockInv, FilesInv,
           OldInv, FileResponse, WriteTo, Answer
  <1>4. FilesInv' /\ NoPhotoForgotten'
    BY <1>1 DEF FilesInv, NoPhotoForgotten, Request, StagesInv, RequestInv,
           FileResponse, WriteTo, Answer
  <1>5. OldInv' /\ OldFilesAreLeft'
    BY <1>1 DEF OldInv, OldFilesAreLeft, Request, StagesInv, RequestInv,
           FilesInv, FileResponse, WriteTo, Answer
  <1>6. PostedIsSaved' /\ CrashOnlyAfterTimeout'
    BY <1>1 DEF PostedIsSaved, CrashOnlyAfterTimeout, RequestInv,
           FileResponse, WriteTo, Answer
  <1>7. QED
    BY <1>1, <1>2, <1>3, <1>4, <1>5, <1>6

\* InitCamera keeps the invariant.
LEMMA InitCameraStep ==
    ASSUME IInv, ~crashed, InitCamera
    PROVE  IInv'
  <1>1. TypeOK'
    <2>1. CASE InitFails
      <3>1. attempt' \in Nat /\ enabled' \in BOOLEAN
        <4>1. attempt' = attempt + 1 \/ attempt' = 0
          BY <2>1 DEF InitFails
        <4>2. attempt' \in Nat
          BY <4>1
        <4>3. enabled' \in BOOLEAN
          BY <2>1 DEF InitFails
        <4>4. QED
          BY <4>2, <4>3
      <3>2. stage' \in [Threads -> Stages]
        BY <2>1 DEF InitFails, Stages
      <3>3. QED
        BY <3>1, <3>2 DEF InitCamera, Request
    <2>2. CASE Goes(Link, "sync") /\ UNCHANGED linkVars
      BY <2>2 DEF InitCamera, Stages, Request
    <2>3. QED
      BY <2>1, <2>2 DEF InitCamera
  <1>2. LockInv' /\ StagesInv'
    BY <1>1 DEF LockInv, StagesInv, Stages, RequestInv, OldInv, InitCamera,
           InitFails
  <1>3. RequestInv' /\ OneRequest'
    BY <1>1 DEF RequestInv, OneRequest, Request, StagesInv, LockInv, FilesInv,
           OldInv, InitCamera, InitFails
  <1>4. FilesInv' /\ NoPhotoForgotten'
    BY <1>1 DEF FilesInv, NoPhotoForgotten, Request, StagesInv, RequestInv,
           InitCamera, InitFails
  <1>5. OldInv' /\ OldFilesAreLeft'
    BY <1>1 DEF OldInv, OldFilesAreLeft, Request, StagesInv, RequestInv,
           FilesInv, InitCamera, InitFails
  <1>6. PostedIsSaved' /\ CrashOnlyAfterTimeout'
    BY <1>1 DEF PostedIsSaved, CrashOnlyAfterTimeout, RequestInv, InitCamera,
           InitFails
  <1>7. QED
    BY <1>1, <1>2, <1>3, <1>4, <1>5, <1>6

\* RequestList keeps the invariant.
LEMMA RequestListStep ==
    ASSUME NEW t \in Askers, IInv, ~crashed, RequestList(t)
    PROVE  IInv'
  <1>1. TypeOK'
    BY DEF TypeOK, Stages, Request, RequestList
  <1>2. LockInv' /\ StagesInv'
    BY <1>1 DEF LockInv, StagesInv, Stages, RequestInv, OldInv, RequestList
  <1>3. RequestInv' /\ OneRequest'
    BY <1>1 DEF RequestInv, OneRequest, Request, StagesInv, LockInv, FilesInv,
           OldInv, RequestList
  <1>4. FilesInv' /\ NoPhotoForgotten'
    BY <1>1 DEF FilesInv, NoPhotoForgotten, Request, StagesInv, RequestInv,
           RequestList
  <1>5. OldInv' /\ OldFilesAreLeft'
    BY <1>1 DEF OldInv, OldFilesAreLeft, Request, StagesInv, RequestInv,
           FilesInv, RequestList
  <1>6. PostedIsSaved' /\ CrashOnlyAfterTimeout'
    BY <1>1 DEF PostedIsSaved, CrashOnlyAfterTimeout, RequestInv, RequestList
  <1>7. QED
    BY <1>1, <1>2, <1>3, <1>4, <1>5, <1>6

\* EndInit keeps the invariant.
LEMMA EndInitStep ==
    ASSUME IInv, ~crashed, EndInit
    PROVE  IInv'
  <1>1. TypeOK'
    <2>1. CASE InitFails
      <3>1. attempt' \in Nat /\ enabled' \in BOOLEAN
        <4>1. attempt' = attempt + 1 \/ attempt' = 0
          BY <2>1 DEF InitFails
        <4>2. attempt' \in Nat
          BY <4>1
        <4>3. enabled' \in BOOLEAN
          BY <2>1 DEF InitFails
        <4>4. QED
          BY <4>2, <4>3
      <3>2. stage' \in [Threads -> Stages]
        BY <2>1 DEF InitFails, Stages
      <3>3. QED
        BY <3>1, <3>2 DEF EndInit, ListArrives, Request
    <2>2. CASE enabled' = TRUE /\ attempt' = 0 /\ Goes(Link, "over")
      BY <2>2 DEF EndInit, ListArrives, Stages, Request
    <2>3. QED
      BY <2>1, <2>2 DEF EndInit
  <1>2. LockInv' /\ StagesInv'
    BY <1>1 DEF LockInv, StagesInv, Stages, RequestInv, OldInv, EndInit,
           InitFails, ListArrives
  <1>3. RequestInv' /\ OneRequest'
    BY <1>1 DEF RequestInv, OneRequest, Request, StagesInv, LockInv, FilesInv,
           OldInv, EndInit, InitFails, ListArrives
  <1>4. FilesInv' /\ NoPhotoForgotten'
    BY <1>1 DEF FilesInv, NoPhotoForgotten, Request, StagesInv, RequestInv,
           EndInit, InitFails, ListArrives
  <1>5. OldInv' /\ OldFilesAreLeft'
    BY <1>1 DEF OldInv, OldFilesAreLeft, Request, StagesInv, RequestInv,
           FilesInv, EndInit, InitFails, ListArrives
  <1>6. PostedIsSaved' /\ CrashOnlyAfterTimeout'
    BY <1>1 DEF PostedIsSaved, CrashOnlyAfterTimeout, RequestInv, EndInit,
           InitFails, ListArrives
  <1>7. QED
    BY <1>1, <1>2, <1>3, <1>4, <1>5, <1>6

\* Execute keeps the invariant.
LEMMA ExecuteStep ==
    ASSUME NEW t \in Tasks, IInv, ~crashed, Execute(t)
    PROVE  IInv'
  <1>1. TypeOK'
    BY DEF TypeOK, Stages, Request, Execute, Fail
  <1>2. LockInv' /\ StagesInv'
    BY <1>1 DEF LockInv, StagesInv, Stages, RequestInv, OldInv, Execute, Fail
  <1>3. RequestInv' /\ OneRequest'
    BY <1>1 DEF RequestInv, OneRequest, Request, StagesInv, LockInv, FilesInv,
           OldInv, Execute, Fail
  <1>4. FilesInv' /\ NoPhotoForgotten'
    <2>1. FilesInv'
      BY <1>1 DEF FilesInv, StagesInv, Execute, Fail
    <2>2. stage'[t] = "over" => fresh[t] = {}
      BY DEF FilesInv, StagesInv, Execute, Fail
    <2>3. QED
      BY <2>1, <2>2 DEF NoPhotoForgotten, Execute, Fail
  <1>5. OldInv' /\ OldFilesAreLeft'
    BY <1>1 DEF OldInv, OldFilesAreLeft, Request, StagesInv, RequestInv,
           FilesInv, Execute, Fail
  <1>6. PostedIsSaved' /\ CrashOnlyAfterTimeout'
    BY <1>1 DEF PostedIsSaved, CrashOnlyAfterTimeout, RequestInv, Execute,
           Fail
  <1>7. QED
    BY <1>1, <1>2, <1>3, <1>4, <1>5, <1>6

\* EndSync keeps the invariant.
LEMMA EndSyncStep ==
    ASSUME NEW t \in Tasks, IInv, ~crashed, EndSync(t)
    PROVE  IInv'
  <1>1. TypeOK'
    BY DEF TypeOK, Stages, Request, EndSync, Fail, ListArrives
  <1>2. LockInv' /\ StagesInv'
    BY <1>1 DEF LockInv, StagesInv, Stages, RequestInv, OldInv, EndSync, Fail,
           ListArrives
  <1>3. RequestInv' /\ OneRequest'
    BY <1>1 DEF RequestInv, OneRequest, Request, StagesInv, LockInv, FilesInv,
           OldInv, EndSync, Fail, ListArrives
  <1>4. FilesInv' /\ NoPhotoForgotten'
    <2>1. FilesInv'
      BY <1>1 DEF FilesInv, StagesInv, EndSync, Fail, ListArrives
    <2>2. stage'[t] = "over" => fresh[t] = {}
      BY DEF FilesInv, StagesInv, EndSync, Fail, ListArrives
    <2>3. QED
      BY <2>1, <2>2 DEF NoPhotoForgotten, EndSync, Fail, ListArrives
  <1>5. OldInv' /\ OldFilesAreLeft'
    BY <1>1 DEF OldInv, OldFilesAreLeft, Request, StagesInv, RequestInv,
           FilesInv, EndSync, Fail, ListArrives
  <1>6. PostedIsSaved' /\ CrashOnlyAfterTimeout'
    BY <1>1 DEF PostedIsSaved, CrashOnlyAfterTimeout, RequestInv, EndSync,
           Fail, ListArrives
  <1>7. QED
    BY <1>1, <1>2, <1>3, <1>4, <1>5, <1>6

\* SkipFile keeps the invariant.
LEMMA SkipFileStep ==
    ASSUME NEW t \in Tasks, NEW f \in Files, IInv, ~crashed, SkipFile(t, f)
    PROVE  IInv'
  <1>1. TypeOK'
    BY DEF TypeOK, Stages, Request, SkipFile
  <1>2. LockInv' /\ StagesInv'
    BY <1>1 DEF LockInv, StagesInv, Stages, RequestInv, OldInv, SkipFile
  <1>3. RequestInv' /\ OneRequest'
    BY <1>1 DEF RequestInv, OneRequest, Request, StagesInv, LockInv, FilesInv,
           OldInv, SkipFile
  <1>4. FilesInv' /\ NoPhotoForgotten'
    BY <1>1 DEF FilesInv, NoPhotoForgotten, Request, StagesInv, RequestInv,
           SkipFile
  <1>5. OldInv' /\ OldFilesAreLeft'
    BY <1>1 DEF OldInv, OldFilesAreLeft, Request, StagesInv, RequestInv,
           FilesInv, SkipFile
  <1>6. PostedIsSaved' /\ CrashOnlyAfterTimeout'
    BY <1>1 DEF PostedIsSaved, CrashOnlyAfterTimeout, RequestInv, SkipFile
  <1>7. QED
    BY <1>1, <1>2, <1>3, <1>4, <1>5, <1>6

\* RequestFile keeps the invariant.
LEMMA RequestFileStep ==
    ASSUME NEW t \in Tasks, NEW f \in Files, IInv, ~crashed, RequestFile(t, f)
    PROVE  IInv'
  <1>1. TypeOK'
    BY DEF TypeOK, Stages, Request, RequestFile
  <1>2. LockInv' /\ StagesInv'
    BY <1>1 DEF LockInv, StagesInv, Stages, RequestInv, OldInv, RequestFile
  <1>3. RequestInv' /\ OneRequest'
    BY <1>1 DEF RequestInv, OneRequest, Request, StagesInv, LockInv, FilesInv,
           OldInv, RequestFile
  <1>4. FilesInv' /\ NoPhotoForgotten'
    <2>1. /\ fresh'[t] = fresh[t] \ {f} /\ f \in fresh[t]
          /\ asked' = asked \cup {f} /\ UNCHANGED <<known, photos>>
          /\ \A u \in Askers : u # t => fresh'[u] = fresh[u]
      BY DEF RequestFile
    <2>2. \A u \in Askers : u # t => f \notin fresh[u]
      BY <2>1 DEF FilesInv
    <2>3. \A u \in Askers : fresh'[u] \subseteq known' \ asked'
      <3> SUFFICES ASSUME NEW u \in Askers, NEW e \in fresh'[u]
                   PROVE  e \in known /\ e \notin asked /\ e # f
        BY <2>1
      <3>1. e \in fresh[u] /\ e # f
        BY <2>1, <2>2
      <3>2. QED
        BY <3>1 DEF FilesInv
    <2>4. asked' \subseteq known' /\ known' \subseteq camera'
      <3>1. asked \subseteq known /\ f \in known /\ known \subseteq camera
        BY <2>1 DEF FilesInv
      <3>2. UNCHANGED camera
        BY DEF RequestFile
      <3>3. QED
        BY <2>1, <3>1, <3>2
    <2>5. \A u, w \in Askers : u # w => fresh'[u] \cap fresh'[w] = {}
      BY <2>1 DEF FilesInv
    <2>6. FilesInv'
      BY <1>1, <2>1, <2>3, <2>4, <2>5 DEF FilesInv, RequestFile, RequestInv
    <2>7. known' \cap photos' \subseteq asked' \cup UNION {fresh'[u] : u \in Askers}
      <3> SUFFICES ASSUME NEW e \in known \cap photos, e \notin asked'
                   PROVE  \E u \in Askers : e \in fresh'[u]
        BY <2>1
      <3>1. PICK u \in Askers : e \in fresh[u]
        BY <2>1 DEF NoPhotoForgotten
      <3>2. e \in fresh'[u]
        BY <2>1, <3>1
      <3>3. QED
        BY <3>2
    <2>8. QED
      BY <2>6, <2>7 DEF NoPhotoForgotten, RequestFile
  <1>5. OldInv' /\ OldFilesAreLeft'
    BY <1>1 DEF OldInv, OldFilesAreLeft, Request, StagesInv, RequestInv,
           FilesInv, RequestFile
  <1>6. PostedIsSaved' /\ CrashOnlyAfterTimeout'
    BY <1>1 DEF PostedIsSaved, CrashOnlyAfterTimeout, RequestInv, RequestFile
  <1>7. QED
    BY <1>1, <1>2, <1>3, <1>4, <1>5, <1>6

\* TimesOut keeps the invariant.
LEMMA TimesOutStep ==
    ASSUME NEW t \in Tasks, IInv, ~crashed, TimesOut(t)
    PROVE  IInv'
  <1>1. TypeOK'
    BY DEF TypeOK, Stages, Request, TimesOut
  <1>2. LockInv' /\ StagesInv'
    BY <1>1 DEF LockInv, StagesInv, Stages, RequestInv, OldInv, TimesOut
  <1>3. RequestInv' /\ OneRequest'
    BY <1>1 DEF RequestInv, OneRequest, Request, StagesInv, LockInv, FilesInv,
           OldInv, TimesOut
  <1>4. FilesInv' /\ NoPhotoForgotten'
    BY <1>1 DEF FilesInv, NoPhotoForgotten, Request, StagesInv, RequestInv,
           TimesOut
  <1>5. OldInv' /\ OldFilesAreLeft'
    BY <1>1 DEF OldInv, OldFilesAreLeft, Request, StagesInv, RequestInv,
           FilesInv, TimesOut
  <1>6. PostedIsSaved' /\ CrashOnlyAfterTimeout'
    BY <1>1 DEF PostedIsSaved, CrashOnlyAfterTimeout, RequestInv, TimesOut
  <1>7. QED
    BY <1>1, <1>2, <1>3, <1>4, <1>5, <1>6

\* SetPromise keeps the invariant.
LEMMA SetPromiseStep ==
    ASSUME NEW t \in Tasks, IInv, ~crashed, SetPromise(t)
    PROVE  IInv'
  <1>1. TypeOK'
    <2>1. CASE promise[t] = "empty"
      BY <2>1 DEF SetPromise, Stages, Request
    <2>2. CASE promise[t] # "empty"
      BY <2>2 DEF SetPromise, Stages, Request
    <2>3. QED
      BY <2>1, <2>2
  <1>2. LockInv' /\ StagesInv'
    BY <1>1 DEF LockInv, StagesInv, Stages, RequestInv, OldInv, SetPromise
  <1>3. RequestInv' /\ OneRequest'
    BY <1>1 DEF RequestInv, OneRequest, Request, StagesInv, LockInv, FilesInv,
           OldInv, SetPromise
  <1>4. FilesInv' /\ NoPhotoForgotten'
    BY <1>1 DEF FilesInv, NoPhotoForgotten, Request, StagesInv, RequestInv,
           SetPromise
  <1>5. OldInv' /\ OldFilesAreLeft'
    BY <1>1 DEF OldInv, OldFilesAreLeft, Request, StagesInv, RequestInv,
           FilesInv, SetPromise
  <1>6. PostedIsSaved' /\ CrashOnlyAfterTimeout'
    BY <1>1 DEF PostedIsSaved, CrashOnlyAfterTimeout, RequestInv, SetPromise
  <1>7. QED
    BY <1>1, <1>2, <1>3, <1>4, <1>5, <1>6

\* Answered keeps the invariant.
LEMMA AnsweredStep ==
    ASSUME NEW t \in Tasks, IInv, ~crashed, Answered(t)
    PROVE  IInv'
  <1>1. TypeOK'
    BY DEF TypeOK, Stages, Request, Answered
  <1>2. LockInv' /\ StagesInv'
    BY <1>1 DEF LockInv, StagesInv, Stages, RequestInv, OldInv, Answered
  <1>3. RequestInv' /\ OneRequest'
    BY <1>1 DEF RequestInv, OneRequest, Request, StagesInv, LockInv, FilesInv,
           OldInv, Answered
  <1>4. FilesInv' /\ NoPhotoForgotten'
    BY <1>1 DEF FilesInv, NoPhotoForgotten, Request, StagesInv, RequestInv,
           Answered
  <1>5. OldInv' /\ OldFilesAreLeft'
    BY <1>1 DEF OldInv, OldFilesAreLeft, Request, StagesInv, RequestInv,
           FilesInv, Answered
  <1>6. PostedIsSaved' /\ CrashOnlyAfterTimeout'
    BY <1>1 DEF PostedIsSaved, CrashOnlyAfterTimeout, RequestInv, Answered
  <1>7. QED
    BY <1>1, <1>2, <1>3, <1>4, <1>5, <1>6

\* EndFile keeps the invariant.
LEMMA EndFileStep ==
    ASSUME NEW t \in Tasks, IInv, ~crashed, EndFile(t)
    PROVE  IInv'
  <1>1. TypeOK'
    <2>1. unsaved' \in SUBSET Files
      BY DEF EndFile, RequestInv
    <2>2. file' \in [Tasks -> Files \cup {NoFile}] /\ stage' \in [Threads -> Stages]
      BY DEF EndFile, Stages
    <2>3. QED
      BY <2>1, <2>2 DEF EndFile, Request
  <1>2. LockInv' /\ StagesInv'
    BY <1>1 DEF LockInv, StagesInv, Stages, RequestInv, OldInv, EndFile
  <1>3. RequestInv' /\ OneRequest'
    <2>1. \A r \in request : r.file # NoFile => r.by \in Tasks
      BY DEF Request
    <2>2. RequestInv'
      <3>1. \A u \in Tasks : u # t => /\ file'[u] = file[u]
                                      /\ stage'[u] = stage[u]
        BY DEF EndFile
      <3>2. file'[t] = NoFile /\ stage'[t] = "files"
        BY DEF EndFile
      <3>3. UNCHANGED <<asked, gaveUp, promise, saved, request>>
        BY DEF EndFile
      <3>4. \A r \in request : r.file # NoFile =>
                (r.file = file'[r.by] /\ promise'[r.by] = "empty") \/ gaveUp
        <4>1. \A r \in request : r.file # NoFile =>
                  (r.file = file[r.by] /\ promise[r.by] = "empty") \/ gaveUp
          BY DEF RequestInv
        <4>2. promise[t] # "empty" \/ gaveUp
          BY DEF EndFile, RequestInv
        <4>3. QED
          BY <2>1, <3>1, <3>3, <4>1, <4>2
      <3>5. \A r \in request : r.file = NoFile => stage'[r.by] = "list"
        BY DEF RequestInv, EndFile, Request
      <3>6. QED
        BY <3>1, <3>2, <3>3, <3>4, <3>5 DEF RequestInv
    <2>3. OneRequest'
      BY DEF OneRequest, EndFile
    <2>4. QED
      BY <2>2, <2>3
  <1>4. FilesInv' /\ NoPhotoForgotten'
    BY <1>1 DEF FilesInv, NoPhotoForgotten, Request, StagesInv, RequestInv,
           EndFile
  <1>5. OldInv' /\ OldFilesAreLeft'
    BY <1>1 DEF OldInv, OldFilesAreLeft, Request, StagesInv, RequestInv,
           FilesInv, EndFile
  <1>6. PostedIsSaved' /\ CrashOnlyAfterTimeout'
    BY <1>1 DEF PostedIsSaved, CrashOnlyAfterTimeout, RequestInv, EndFile
  <1>7. QED
    BY <1>1, <1>2, <1>3, <1>4, <1>5, <1>6

\* Finish keeps the invariant.
LEMMA FinishStep ==
    ASSUME NEW t \in Tasks, IInv, ~crashed, Finish(t)
    PROVE  IInv'
  <1>1. TypeOK'
    BY DEF TypeOK, Stages, Request, Finish
  <1>2. LockInv' /\ StagesInv'
    BY <1>1 DEF LockInv, StagesInv, Stages, RequestInv, OldInv, Finish
  <1>3. RequestInv' /\ OneRequest'
    BY <1>1 DEF RequestInv, OneRequest, Request, StagesInv, LockInv, FilesInv,
           OldInv, Finish
  <1>4. FilesInv' /\ NoPhotoForgotten'
    BY <1>1 DEF FilesInv, NoPhotoForgotten, Request, StagesInv, RequestInv,
           Finish
  <1>5. OldInv' /\ OldFilesAreLeft'
    BY <1>1 DEF OldInv, OldFilesAreLeft, Request, StagesInv, RequestInv,
           FilesInv, Finish
  <1>6. PostedIsSaved' /\ CrashOnlyAfterTimeout'
    BY <1>1 DEF PostedIsSaved, CrashOnlyAfterTimeout, RequestInv, Finish
  <1>7. QED
    BY <1>1, <1>2, <1>3, <1>4, <1>5, <1>6

\* Lock keeps the invariant.
LEMMA LockStep ==
    ASSUME NEW u \in Users, IInv, ~crashed, Lock(u)
    PROVE  IInv'
  <1>1. TypeOK'
    BY DEF TypeOK, Stages, Request, Lock
  <1>2. LockInv' /\ StagesInv'
    BY <1>1 DEF LockInv, StagesInv, Stages, RequestInv, OldInv, Lock
  <1>3. RequestInv' /\ OneRequest'
    BY <1>1 DEF RequestInv, OneRequest, Request, StagesInv, LockInv, FilesInv,
           OldInv, Lock
  <1>4. FilesInv' /\ NoPhotoForgotten'
    BY <1>1 DEF FilesInv, NoPhotoForgotten, Request, StagesInv, RequestInv,
           Lock
  <1>5. OldInv' /\ OldFilesAreLeft'
    BY <1>1 DEF OldInv, OldFilesAreLeft, Request, StagesInv, RequestInv,
           FilesInv, Lock
  <1>6. PostedIsSaved' /\ CrashOnlyAfterTimeout'
    BY <1>1 DEF PostedIsSaved, CrashOnlyAfterTimeout, RequestInv, Lock
  <1>7. QED
    BY <1>1, <1>2, <1>3, <1>4, <1>5, <1>6

\* Unlock keeps the invariant.
LEMMA UnlockStep ==
    ASSUME NEW u \in Users, IInv, ~crashed, Unlock(u)
    PROVE  IInv'
  <1>1. TypeOK'
    BY DEF TypeOK, Stages, Request, Unlock
  <1>2. LockInv' /\ StagesInv'
    BY <1>1 DEF LockInv, StagesInv, Stages, RequestInv, OldInv, Unlock
  <1>3. RequestInv' /\ OneRequest'
    BY <1>1 DEF RequestInv, OneRequest, Request, StagesInv, LockInv, FilesInv,
           OldInv, Unlock
  <1>4. FilesInv' /\ NoPhotoForgotten'
    BY <1>1 DEF FilesInv, NoPhotoForgotten, Request, StagesInv, RequestInv,
           Unlock
  <1>5. OldInv' /\ OldFilesAreLeft'
    BY <1>1 DEF OldInv, OldFilesAreLeft, Request, StagesInv, RequestInv,
           FilesInv, Unlock
  <1>6. PostedIsSaved' /\ CrashOnlyAfterTimeout'
    BY <1>1 DEF PostedIsSaved, CrashOnlyAfterTimeout, RequestInv, Unlock
  <1>7. QED
    BY <1>1, <1>2, <1>3, <1>4, <1>5, <1>6

-----------------------------------------------------------------------------
(* The theorems.                                                           *)

\* Every step keeps the invariant.
LEMMA NextStep ==
    ASSUME IInv, Next
    PROVE  IInv'
  <1>0. ~crashed /\ Step
    BY DEF Next
  <1>1. ASSUME NEW t \in Tasks, TaskStep(t) PROVE IInv'
    BY <1>0, <1>1, RequestListStep, EndSyncStep, SkipFileStep, RequestFileStep,
       TimesOutStep, SetPromiseStep, AnsweredStep, EndFileStep, FinishStep
       DEF TaskStep
  <1>2. CASE LinkStep
    <2>1. Link \in Askers
      OBVIOUS
    <2>2. CASE InitCamera
      BY <1>0, <2>2, InitCameraStep
    <2>3. CASE RequestList(Link)
      BY <1>0, <2>1, <2>3, RequestListStep
    <2>4. CASE EndInit
      BY <1>0, <2>4, EndInitStep
    <2>5. QED
      BY <1>2, <2>2, <2>3, <2>4 DEF LinkStep
  <1>3. ASSUME NEW t \in Tasks, NEW f \in Files, FileResponse(t, f) PROVE IInv'
    BY <1>0, <1>3, FileResponseStep
  <1>4. ASSUME NEW u \in Users, Lock(u) \/ Unlock(u) PROVE IInv'
    BY <1>0, <1>4, LockStep, UnlockStep
  <1>5. ASSUME NEW f \in Files, Record(f) PROVE IInv'
    BY <1>0, <1>5, RecordStep
  <1>6. ASSUME NEW t \in Askers, ListResponse(t) PROVE IInv'
    BY <1>0, <1>6, ListResponseStep
  <1>7. ASSUME NEW t \in Tasks, Execute(t) PROVE IInv'
    BY <1>0, <1>7, ExecuteStep
  <1>8. QED
    BY ONLY <1>0, <1>1, <1>2, <1>3, <1>4, <1>5, <1>6, <1>7 DEF Step, Askers

\* The invariant holds in the initial states.
LEMMA InitIInv == Init => IInv
  <1> SUFFICES ASSUME Init PROVE IInv
    OBVIOUS
  <1>1. TypeOK
    BY DEF Init, Stages, Request
  <1>2. LockInv /\ StagesInv /\ OldInv
    BY DEF Init, LockInv, StagesInv, OldInv
  <1>3. RequestInv /\ FilesInv
    BY DEF Init, RequestInv, FilesInv
  <1>4. NoPhotoForgotten /\ OldFilesAreLeft /\ OneRequest /\ PostedIsSaved
        /\ CrashOnlyAfterTimeout
    BY DEF Init, OldFilesAreLeft, OneRequest, PostedIsSaved, NoPhotoForgotten,
           CrashOnlyAfterTimeout
  <1>5. QED
    BY <1>1, <1>2, <1>3, <1>4

\* The invariant does not depend on what leaves the variables alone.
LEMMA StutterIInv ==
    ASSUME IInv, UNCHANGED vars
    PROVE  IInv'
  BY DEF vars, LockInv, StagesInv, RequestInv, FilesInv, OldInv, Request, Stages,
         OldFilesAreLeft, OneRequest, PostedIsSaved, NoPhotoForgotten,
         CrashOnlyAfterTimeout

\* The state of cameras, requests and tasks stays consistent.
THEOREM DownloadInvariant == Spec => []IInv
  <1>1. IInv /\ [Next]_vars => IInv'
    BY NextStep, StutterIInv
  <1>2. QED
    BY <1>1, InitIInv, PTL DEF Spec

\* A photo event is posted for no file that is not on disk, unless a download was
\* given up (downloadFiles).
THEOREM PostedPhotosAreSaved == Spec => []PostedIsSaved
  <1>1. IInv => PostedIsSaved
    OBVIOUS
  <1>2. QED
    BY <1>1, DownloadInvariant, PTL

\* A photo that was seen in the camera is not forgotten (cameraFileReponse).
THEOREM SeenPhotosAreRequested == Spec => []NoPhotoForgotten
  <1>1. IInv => NoPhotoForgotten
    OBVIOUS
  <1>2. QED
    BY <1>1, DownloadInvariant, PTL

\* No file is requested twice, by whichever tasks (cameraFileReponse).
THEOREM FilesAreAskedOnce == Spec => AskedOnce
  <1>1. ASSUME IInv, Next
        PROVE  \A r \in request' \ request : r.file \notin asked
    <2>1. ASSUME NEW t \in Tasks, NEW f \in Files, RequestFile(t, f)
          PROVE  \A r \in request' \ request : r.file \notin asked
      <3>1. f \in fresh[t] /\ request' = request \cup {[by |-> t, file |-> f]}
        BY <2>1 DEF RequestFile
      <3>2. f \notin asked
        BY <1>1, <3>1 DEF FilesInv
      <3>3. QED
        BY <3>1, <3>2
    <2>2. ASSUME NEW t \in Askers, RequestList(t)
          PROVE  \A r \in request' \ request : r.file \notin asked
      BY <1>1, <2>2 DEF RequestList
    <2>3. CASE request' \subseteq request
      BY <2>3
    <2>4. QED
      BY <1>1, <2>1, <2>2, <2>3
         DEF Next, Step, Record, ListResponse, FileResponse, LinkStep,
             InitCamera, EndInit, Execute, TaskStep, EndSync, SkipFile,
             TimesOut, SetPromise, Answered, EndFile, Finish, Lock, Unlock
  <1>2. ASSUME IInv, [Next]_vars
        PROVE  [\A r \in request' \ request : r.file \notin asked]_vars
    BY <1>1, <1>2
  <1>3. QED
    BY <1>2, DownloadInvariant, PTL DEF Spec, AskedOnce
=============================================================================
