-------------------------------- MODULE Files ---------------------------------
(***************************************************************************)
(* file-service: the file_metadata table, the objects of the MinIO bucket, *)
(* its multipart uploads, and the six RPCs that keep the two in step, each *)
(* as the sequence of calls to the database and to MinIO that it makes.    *)
(* Any of these calls may fail, before or after it took effect, and the    *)
(* process may die between two.                                            *)
(*                                                                         *)
(* A file id is a UUID: only the user who made it up uploads under it.     *)
(***************************************************************************)
EXTENDS Naturals, FiniteSets

CONSTANTS Files, Reqs, Uploads, None,
          Maker,      \* Maker[f]: the user who made up the id f
          Users,
          MaxFaults   \* bound on calls that fail and processes that die

ASSUME FilesAssumption ==
  /\ MaxFaults \in Nat
  /\ Maker \in [Files -> Users]
  /\ None \notin Uploads \cup {"ready", "uploading", "ok", "thumbnail"}

VARIABLES row,       \* row[f]: the status in file_metadata, or None
          objects,   \* files with an object originals/f
          thumbs,    \* files with an object thumbnails/f
          uploads,   \* uploads[u]: a multipart upload, or None
          attached,  \* files that an attachments row refers to
          req,       \* req[r]: a request and where its handler is
          faults,
          excused    \* <<f, gap>>: gaps between table and bucket with a cause

table  == <<row, attached>>
bucket == <<objects, thumbs, uploads>>
vars   == <<row, objects, thumbs, uploads, attached, req, faults, excused>>

\* The ways table and bucket may part on a file: a row that is ready without its
\* object, an object whose row is not ready, a thumbnail whose row is not ready,
\* a thumbnail that is named and not there; and that a delete met a writer.
Gaps == {"empty", "orphan", "stray", "bare", "met"}

Ops == {"upload", "url", "delete", "init", "part", "complete"}
Done == [op |-> "none", by |-> None, file |-> None, type |-> None, up |-> None,
         pc |-> "done", res |-> None]
Busy(r) == req[r].pc # "done"
At(r, o, c) == req[r].op = o /\ req[r].pc = c

Init ==
  /\ row = [f \in Files |-> None] /\ objects = {} /\ thumbs = {}
  /\ uploads = [u \in Uploads |-> None] /\ attached = {}
  /\ req = [r \in Reqs |-> Done] /\ faults = 0 /\ excused = {}

-----------------------------------------------------------------------------
Goto(r, c)   == req' = [req EXCEPT ![r].pc = c]
Answer(r, v) == req' = [req EXCEPT ![r] = [Done EXCEPT !.res = v]]

\* One more fault, which may leave the gaps G on the file of r.
Excuse(r, G) == excused' = excused \cup ({req[r].file} \X G)
Fault(r, G)  == faults < MaxFaults /\ faults' = faults + 1 /\ Excuse(r, G)
NoFault      == UNCHANGED <<faults, excused>>

\* The first call each handler makes once its arguments are accepted.
First == [upload |-> "insert", url |-> "get", delete |-> "get", init |-> "new",
          part |-> "part", complete |-> "complete"]

\* What the handlers refuse before they do anything: a caller without an id, a
\* blank field or no data, more than maxFileSize bytes in one upload.
Shapes == {"good", "anonymous", "blank", "over"}
Refused(o, shape) ==
  \/ shape \in {"anonymous", "blank"}
  \/ shape = "over" /\ o = "upload"

Types == {"png", "gif", "other"}

\* Requests of one file that may meet: a delete, and what writes the file.
Meets(o, f) == \E r \in Reqs : /\ Busy(r) /\ req[r].file = f
                               /\ (req[r].op = "delete") # (o = "delete")
                               /\ {o, req[r].op} \cap {"upload", "init", "complete"} # {}

Begin(r, o, by, f, type, up, shape) ==
  /\ ~Busy(r)
  /\ o # "delete" => by = Maker[f]   \* only DeleteFile asks whose the file is
  /\ o # "upload" => type = "other"
  /\ (up = None) <=> (o \notin {"part", "complete"})
  /\ shape = "over" => o = "upload"
  /\ req' = [req EXCEPT ![r] =
       IF Refused(o, shape) THEN [Done EXCEPT !.res = "refused"]
       ELSE [op |-> o, by |-> by, file |-> f, type |-> type, up |-> up,
             pc |-> First[o], res |-> None]]
  /\ excused' = excused \cup {<<f, g>> : g \in IF Meets(o, f) THEN Gaps ELSE {}}
  /\ UNCHANGED <<table, bucket, faults>>

-----------------------------------------------------------------------------
(* The repository.  A statement that fails for the handler may have been   *)
(* committed.                                                              *)

\* A conflict on the key is an error.
InsertFileMeta(r, status, next) ==
  LET f == req[r].file
      insert == row[f] = None /\ row' = [row EXCEPT ![f] = status]
  IN \/ insert /\ next /\ NoFault
     \/ row[f] # None /\ Answer(r, "internal") /\ NoFault /\ UNCHANGED row
     \/ Fault(r, {}) /\ Answer(r, "internal") /\ UNCHANGED row
     \/ /\ insert /\ Answer(r, "internal")
        /\ Fault(r, IF status = "ready" THEN {"empty"} ELSE {})

\* An UPDATE that meets no row is no error.
UpdateFileStatus(r, status) ==
  LET f == req[r].file
      update == row' = [row EXCEPT ![f] = IF @ = None THEN None ELSE status]
  IN \/ update /\ Goto(r, "reread") /\ NoFault
     \/ update /\ Fault(r, {}) /\ Answer(r, "internal")
     \/ Fault(r, {"orphan"}) /\ Answer(r, "internal") /\ UNCHANGED row

\* The attachments table refers to the row: a file that is attached stays.
DeleteFileMeta(r) ==
  LET f == req[r].file
      delete == f \notin attached /\ row' = [row EXCEPT ![f] = None]
  IN \/ delete /\ Answer(r, "ok") /\ NoFault
     \/ delete /\ Fault(r, {}) /\ Answer(r, "internal")
     \/ /\ f \in attached /\ Answer(r, "internal")
        /\ Excuse(r, {"empty"})
        /\ UNCHANGED <<row, faults>>
     \/ Fault(r, {"empty"}) /\ Answer(r, "internal") /\ UNCHANGED row

-----------------------------------------------------------------------------
(* UploadFile: the row is ready before the object is there. *)

UploadInsert(r) ==
  /\ At(r, "upload", "insert")
  /\ InsertFileMeta(r, "ready", Goto(r, "put"))
  /\ UNCHANGED <<bucket, attached>>

UploadPut(r) ==
  LET stored == objects' = objects \cup {req[r].file} IN
  /\ At(r, "upload", "put")
  /\ \/ stored /\ Goto(r, "thumb") /\ NoFault
     \/ stored /\ Fault(r, {}) /\ Answer(r, "internal")
     \/ Fault(r, {"empty"}) /\ Answer(r, "internal") /\ UNCHANGED objects
  /\ UNCHANGED <<table, thumbs, uploads>>

isImage(type) == type \in {"png", "gif"}

\* Decoders are linked in for png and jpeg: a gif is an image without a
\* thumbnail, and data that is no image has none either.
generateThumbnail(type) == IF type = "png" THEN {TRUE, FALSE} ELSE {FALSE}

\* An image has a thumbnail, whether one could be made or not.
NameThumb(r) ==
  /\ At(r, "upload", "thumb")
  /\ Answer(r, IF isImage(req[r].type) THEN "thumbnail" ELSE "ok")
  /\ thumbs' \in {thumbs, thumbs \cup {req[r].file}} /\ NoFault
  /\ UNCHANGED <<table, objects, uploads>>

\* The URL of the thumbnail is answered even if it could not be stored.
UploadThumb(r) ==
  LET f == req[r].file
      t == req[r].type
  IN /\ At(r, "upload", "thumb")
     /\ \/ /\ isImage(t) /\ TRUE \in generateThumbnail(t)
           /\ Answer(r, "thumbnail")
           /\ \/ thumbs' = thumbs \cup {f} /\ (NoFault \/ Fault(r, {}))
              \/ Fault(r, {"bare"}) /\ UNCHANGED thumbs
        \/ /\ isImage(t) => FALSE \in generateThumbnail(t)
           /\ Answer(r, "ok") /\ NoFault /\ UNCHANGED thumbs
     /\ UNCHANGED <<table, objects, uploads>>

-----------------------------------------------------------------------------
(* GetFilePresignedURL: any error of the query is "not found". *)

UrlGet(r) ==
  LET f == req[r].file IN
  /\ At(r, "url", "get")
  /\ \/ row[f] = "ready" /\ Goto(r, "presign") /\ NoFault
     \/ row[f] = "uploading" /\ Answer(r, "not ready") /\ NoFault
     \/ row[f] = None /\ Answer(r, "not found") /\ NoFault
     \/ Fault(r, {}) /\ Answer(r, "not found")
  /\ UNCHANGED <<table, bucket>>

UrlPresign(r) ==
  /\ At(r, "url", "presign")
  /\ \/ Answer(r, "ok") /\ NoFault
     \/ Fault(r, {}) /\ Answer(r, "internal")
  /\ UNCHANGED <<table, bucket>>

-----------------------------------------------------------------------------
(* DeleteFile: errors of MinIO are not looked at. *)

DeleteGet(r) ==
  LET f == req[r].file IN
  /\ At(r, "delete", "get")
  /\ \/ row[f] # None /\ req[r].by = Maker[f] /\ Goto(r, "object") /\ NoFault
     \/ row[f] # None /\ req[r].by # Maker[f] /\ Answer(r, "denied") /\ NoFault
     \/ row[f] = None /\ Answer(r, "not found") /\ NoFault
     \/ Fault(r, {}) /\ Answer(r, "not found")
  /\ UNCHANGED <<table, bucket>>

DeleteObject(r) ==
  /\ At(r, "delete", "object") /\ Goto(r, "thumbnail")
  /\ \/ objects' = objects \ {req[r].file} /\ (NoFault \/ Fault(r, {}))
     \/ Fault(r, {"orphan"}) /\ UNCHANGED objects
  /\ UNCHANGED <<table, thumbs, uploads>>

DeleteThumb(r) ==
  /\ At(r, "delete", "thumbnail") /\ Goto(r, "row")
  /\ \/ thumbs' = thumbs \ {req[r].file} /\ (NoFault \/ Fault(r, {}))
     \/ Fault(r, {"stray"}) /\ UNCHANGED thumbs
  /\ UNCHANGED <<table, objects, uploads>>

DeleteRow(r) ==
  /\ At(r, "delete", "row")
  /\ DeleteFileMeta(r)
  /\ UNCHANGED <<bucket, attached>>

-----------------------------------------------------------------------------
(* Multipart uploads.  MinIO knows an upload by its id and its key, takes  *)
(* parts while it is open, and makes the object when it is completed.      *)

InitUpload(r) ==
  LET opened == \E u \in Uploads :
        /\ uploads[u] = None
        /\ uploads' = [uploads EXCEPT ![u] =
                         [file |-> req[r].file, parts |-> FALSE, open |-> TRUE]]
  IN /\ At(r, "init", "new")
     /\ \/ opened /\ Goto(r, "insert") /\ NoFault
        \/ (opened \/ UNCHANGED uploads) /\ Fault(r, {}) /\ Answer(r, "internal")
     /\ UNCHANGED <<table, objects, thumbs>>

\* The default of UploadFile.
InitReady(r) ==
  /\ At(r, "init", "insert")
  /\ InsertFileMeta(r, "ready", Answer(r, "ok"))
  /\ UNCHANGED <<bucket, attached>>

InitInsert(r) ==
  /\ At(r, "init", "insert")
  /\ InsertFileMeta(r, "uploading", Answer(r, "ok"))
  /\ UNCHANGED <<bucket, attached>>

Takes(u, f) == uploads[u] # None /\ uploads[u].open /\ uploads[u].file = f

UploadPart(r) ==
  LET u == req[r].up
      taken == /\ Takes(u, req[r].file)
               /\ uploads' = [uploads EXCEPT ![u].parts = TRUE]
  IN /\ At(r, "part", "part")
     /\ \/ taken /\ Answer(r, "ok") /\ NoFault
        \/ ~Takes(u, req[r].file) /\ Answer(r, "internal") /\ NoFault /\ UNCHANGED uploads
        \/ (taken \/ UNCHANGED uploads) /\ Fault(r, {}) /\ Answer(r, "internal")
     /\ UNCHANGED <<table, objects, thumbs>>

\* The row may be gone; and MinIO may have made the object although its answer
\* is lost, in which case the status stays as it is.
CompleteUpload(r) ==
  LET f == req[r].file
      u == req[r].up
      made == /\ Takes(u, f) /\ uploads[u].parts
              /\ uploads' = [uploads EXCEPT ![u].open = FALSE]
              /\ objects' = objects \cup {f}
      unmade == UNCHANGED <<uploads, objects>>
  IN /\ At(r, "complete", "complete")
     /\ \/ /\ made /\ Goto(r, "status")
           /\ Excuse(r, IF row[f] = None THEN {"orphan"} ELSE {})
           /\ UNCHANGED faults
        \/ ~(Takes(u, f) /\ uploads[u].parts) /\ Answer(r, "internal") /\ NoFault /\ unmade
        \/ made /\ Fault(r, {"orphan"}) /\ Answer(r, "internal")
        \/ unmade /\ Fault(r, {}) /\ Answer(r, "internal")
     /\ UNCHANGED <<table, thumbs>>

CompleteStatus(r) ==
  /\ At(r, "complete", "status")
  /\ UpdateFileStatus(r, "ready")
  /\ UNCHANGED <<bucket, attached>>

CompleteReread(r) ==
  LET f == req[r].file IN
  /\ At(r, "complete", "reread")
  /\ \/ row[f] # None /\ Answer(r, "ok") /\ NoFault
     \/ row[f] = None /\ Answer(r, "internal") /\ NoFault
     \/ Fault(r, {}) /\ Answer(r, "internal")
  /\ UNCHANGED <<table, bucket>>

-----------------------------------------------------------------------------
\* A message is sent with the file: its attachments row needs the file's row.
Attach(f) ==
  /\ row[f] # None /\ f \notin attached
  /\ attached' = attached \cup {f}
  /\ UNCHANGED <<row, bucket, req, faults, excused>>

\* What is undone when a handler goes no further.
Undone(r) ==
  IF At(r, "complete", "status") THEN {"orphan"}
  ELSE IF At(r, "upload", "put") \/ At(r, "delete", "thumbnail") \/ At(r, "delete", "row")
       THEN {"empty"} ELSE {}

\* The process dies in the middle of a request.
Die(r) ==
  /\ Busy(r)
  /\ Fault(r, Undone(r)) /\ Answer(r, "lost")
  /\ UNCHANGED <<table, bucket>>

Step(r) == \/ UploadInsert(r) \/ UploadPut(r) \/ UploadThumb(r)
           \/ UrlGet(r) \/ UrlPresign(r)
           \/ DeleteGet(r) \/ DeleteObject(r) \/ DeleteThumb(r) \/ DeleteRow(r)
           \/ InitUpload(r) \/ InitInsert(r) \/ UploadPart(r)
           \/ CompleteUpload(r) \/ CompleteStatus(r) \/ CompleteReread(r)

Next ==
  \/ \E r \in Reqs, o \in Ops, by \in Users, f \in Files, t \in Types,
        up \in Uploads \cup {None}, s \in Shapes : Begin(r, o, by, f, t, up, s)
  \/ \E r \in Reqs : Step(r) \/ Die(r)
  \/ \E f \in Files : Attach(f)

Spec == Init /\ [][Next]_vars

-----------------------------------------------------------------------------
(* Properties *)

Quiet(f) == \A r \in Reqs : Busy(r) => req[r].file # f

\* Table and bucket agree on a file nobody is working on, and each gap between
\* them has its own cause, for which no other fault and no other handler is
\* enough.  A row is ready without its object only after an upload was cut off
\* between its row and its object, or a delete between its object and its row,
\* the refusal for a file that is attached included.  An object has no row that is
\* ready only after a completion that was cut off before its status, that found
\* no row or whose answer MinIO did not deliver, or after a delete whose failure
\* to remove it was ignored; a thumbnail, only after a delete that left it.  A
\* delete that meets an upload may leave any of them.
StorageAgrees ==
  \A f \in Files : Quiet(f) =>
    /\ row[f] = "ready" /\ f \notin objects => <<f, "empty">> \in excused
    /\ f \in objects /\ row[f] # "ready" => <<f, "orphan">> \in excused
    /\ f \in thumbs /\ row[f] # "ready" => <<f, "stray">> \in excused

\* What an answer says is so when it is given, whatever failed on the file before:
\* after a successful upload the file can be fetched, unless a delete met it, and
\* its thumbnail too if one was named, unless just that could not be stored;
\* after a completion likewise, unless it had found no row; after a successful
\* delete neither is left but what MinIO failed to remove without a word.
AnswersAreTrue ==
  [][\A r \in Reqs :
       LET f == req[r].file
           says(o, v) == req[r].op = o /\ req'[r].res \in v
           unless(g) == <<f, g>> \notin excused'
       IN Busy(r) =>
            /\ says("upload", {"ok", "thumbnail"}) /\ unless("met") =>
                 row'[f] = "ready" /\ f \in objects'
            /\ says("upload", {"thumbnail"}) /\ unless("bare") => f \in thumbs'
            /\ says("complete", {"ok"}) /\ unless("orphan") =>
                 row'[f] = "ready" /\ f \in objects'
            /\ says("delete", {"ok"}) =>
                 /\ row'[f] = None
                 /\ unless("orphan") => f \notin objects'
                 /\ unless("stray") => f \notin thumbs']_vars
=============================================================================
