----------------------------- MODULE FilesProofs ------------------------------
(***************************************************************************)
(* Table and bucket of file-service for every number of files, requests,   *)
(* uploads, users and faults.                                              *)
(***************************************************************************)
EXTENDS Files, TLAPS

\* The calls a handler still has to make, by operation.
AtStage(op, pc) ==
  \/ op = "upload" /\ pc \in {"insert", "put", "thumb"}
  \/ op = "url" /\ pc \in {"get", "presign"}
  \/ op = "delete" /\ pc \in {"get", "object", "thumbnail", "row"}
  \/ op = "init" /\ pc \in {"new", "insert"}
  \/ op = "part" /\ pc = "part"
  \/ op = "complete" /\ pc \in {"complete", "status", "reread"}

\* A request at work is at a stage of its operation and has not answered.
Working(r) ==
  /\ AtStage(req[r].op, req[r].pc)
  /\ req[r].file \in Files /\ req[r].res = None

Results == {None, "refused", "internal", "ok", "thumbnail", "not ready", "not found",
            "denied", "lost"}

Pcs == {"insert", "put", "thumb", "get", "presign", "object", "thumbnail", "row", "new",
        "part", "complete", "status", "reread", "done"}

Requests == [op : Ops \cup {"none"}, by : Users \cup {None}, file : Files \cup {None},
             type : Types \cup {None}, up : Uploads \cup {None},
             pc : Pcs, res : Results]

TypeInv ==
  /\ row \in [Files -> {None, "uploading", "ready"}]
  /\ objects \subseteq Files /\ thumbs \subseteq Files
  /\ req \in [Reqs -> Requests]
  /\ \A r \in Reqs : Busy(r) => Working(r)

OnFile(r, f) == Busy(r) /\ req[r].file = f
Has(f, o, pcs) == \E r \in Reqs : OnFile(r, f) /\ req[r].op = o /\ req[r].pc \in pcs

\* No delete of f is at work beside a request that writes f.
Apart(f) ==
  \A q, r \in Reqs : OnFile(q, f) /\ req[q].op = "delete" /\ OnFile(r, f) =>
    req[r].op \notin {"upload", "init", "complete"}

Open(f, g) == <<f, g>> \in excused

\* What the handler of r relies on from one of its calls to the next.
Knows(r) ==
  LET f == req[r].file IN
  /\ ~Open(f, "met") =>
       /\ At(r, "upload", "put") => row[f] = "ready"
       /\ At(r, "upload", "thumb") => row[f] = "ready" /\ f \in objects
       /\ At(r, "complete", "status") \/ At(r, "complete", "reread") => f \in objects
  /\ ~Open(f, "orphan") =>
       /\ At(r, "complete", "status") => row[f] # None
       /\ At(r, "complete", "reread") => row[f] = "ready"
       /\ At(r, "delete", "thumbnail") \/ At(r, "delete", "row") => f \notin objects
  /\ ~Open(f, "stray") => (At(r, "delete", "row") => f \notin thumbs)

\* Row and object agree up to the calls that are still to be made.
Agree(f) ==
  /\ row[f] = "ready" => \/ f \in objects \/ Open(f, "empty")
                         \/ Has(f, "upload", {"put"})
                         \/ Has(f, "delete", {"thumbnail", "row"})
  /\ f \in objects => \/ row[f] = "ready" \/ Open(f, "orphan")
                      \/ row[f] = "uploading" /\ Has(f, "complete", {"status"})
  /\ f \in thumbs => row[f] = "ready" \/ Open(f, "stray")

\* Deletes and writers are apart, or else they have met and may leave any gap.
FileOK(f) ==
  /\ IF Open(f, "met") THEN \A g \in Gaps : Open(f, g) ELSE Apart(f)
  /\ Agree(f)
  /\ \A r \in Reqs : OnFile(r, f) => Knows(r)

FileInv == \A f \in Files : FileOK(f)

IInv == TypeInv /\ FileInv

-----------------------------------------------------------------------------
LEMMA InitIInv == Init => IInv
<1> SUFFICES ASSUME Init PROVE IInv
  OBVIOUS
<1>1. Done \in Requests
  BY DEF Done, Requests, Pcs, Results
<1>2. \A r \in Reqs : ~Busy(r)
  BY DEF Init, Busy, Done
<1>. QED
  BY <1>1, <1>2, FilesAssumption
     DEF Init, IInv, TypeInv, FileInv, FileOK, Apart, Agree, Has, OnFile, Open

-----------------------------------------------------------------------------
\* What a step does to the request table: others keep their place; r moves to
\* another of its calls, or is free.
Others(r) == \A q \in Reqs \ {r} : req'[q] = req[q]
Moved(r, c) == /\ req'[r].pc = c /\ req'[r].op = req[r].op
               /\ req'[r].file = req[r].file /\ req'[r].res = req[r].res

LEMMA GotoReq ==
  ASSUME NEW r \in Reqs, NEW c \in Pcs, req \in [Reqs -> Requests], Goto(r, c)
  PROVE  req' \in [Reqs -> Requests] /\ Others(r) /\ Moved(r, c)
BY DEF Goto, Requests, Others, Moved

LEMMA AnswerReq ==
  ASSUME NEW r \in Reqs, NEW v \in Results, req \in [Reqs -> Requests], Answer(r, v)
  PROVE  /\ req' \in [Reqs -> Requests] /\ Others(r)
         /\ req'[r].pc = "done" /\ req'[r].res = v
BY DEF Answer, Done, Requests, Pcs, Others

LEMMA BeginReq ==
  ASSUME NEW r \in Reqs, NEW o \in Ops, NEW by \in Users, NEW f \in Files,
         NEW t \in Types, NEW up \in Uploads \cup {None}, NEW s \in Shapes,
         req \in [Reqs -> Requests], Begin(r, o, by, f, t, up, s)
  PROVE  /\ req' \in [Reqs -> Requests] /\ Others(r)
         /\ \/ req'[r].pc = "done"
            \/ /\ req'[r].op = o /\ req'[r].file = f /\ req'[r].pc = First[o]
               /\ req'[r].res = None
         /\ First[o] \in Pcs \ {"done"} /\ AtStage(o, First[o])
<1>1. First[o] \in Pcs \ {"done"} /\ AtStage(o, First[o])
  BY DEF Ops, First, AtStage, Pcs
<1>2. Done \in Requests /\ [Done EXCEPT !.res = "refused"] \in Requests
  BY DEF Done, Requests, Pcs, Results
<1>3. [op |-> o, by |-> by, file |-> f, type |-> t, up |-> up, pc |-> First[o],
       res |-> None] \in Requests
  BY <1>1 DEF Requests, Results
<1>. QED
  BY <1>1, <1>2, <1>3 DEF Begin, Done, Others

\* A handler goes to another stage of its operation, or answers.
Proceeds(r) ==
  \/ \E c \in Pcs : Goto(r, c) /\ AtStage(req[r].op, c)
  \/ \E v \in Results : Answer(r, v)

LEMMA ProceedsReq ==
  ASSUME NEW r \in Reqs, TypeInv, Busy(r), Proceeds(r)
  PROVE  /\ req' \in [Reqs -> Requests] /\ Others(r)
         /\ req'[r].pc = "done" \/ (Moved(r, req'[r].pc) /\ AtStage(req[r].op, req'[r].pc))
         /\ \A q \in Reqs : Busy(q)' => Busy(q) /\ Working(q)'
<1>1. CASE \E c \in Pcs : Goto(r, c) /\ AtStage(req[r].op, c)
  <2>1. PICK c \in Pcs : Goto(r, c) /\ AtStage(req[r].op, c)
    BY <1>1
  <2>2. req' \in [Reqs -> Requests] /\ Others(r) /\ Moved(r, c)
    BY <2>1, GotoReq DEF TypeInv
  <2>. QED
    BY <2>1, <2>2 DEF TypeInv, Others, Moved, Busy, Working
<1>2. CASE \E v \in Results : Answer(r, v)
  <2>1. req' \in [Reqs -> Requests] /\ Others(r) /\ req'[r].pc = "done"
    BY <1>2, AnswerReq DEF TypeInv
  <2>. QED
    BY <2>1 DEF TypeInv, Others, Busy, Working
<1>. QED
  BY <1>1, <1>2 DEF Proceeds

LEMMA StepProceeds ==
  ASSUME NEW r \in Reqs, TypeInv, Step(r) \/ Die(r)
  PROVE  Busy(r) /\ Proceeds(r)
<1> USE DEF Proceeds, AtStage, Pcs, Results, At, Busy
<1>1. CASE UploadInsert(r) \/ UploadPut(r) \/ UploadThumb(r)
  BY <1>1 DEF UploadInsert, InsertFileMeta, UploadPut, UploadThumb
<1>2. CASE UrlGet(r) \/ UrlPresign(r)
  BY <1>2 DEF UrlGet, UrlPresign
<1>3. CASE DeleteGet(r) \/ DeleteObject(r) \/ DeleteThumb(r) \/ DeleteRow(r)
  BY <1>3 DEF DeleteGet, DeleteObject, DeleteThumb, DeleteRow, DeleteFileMeta
<1>4. CASE InitUpload(r) \/ InitInsert(r) \/ UploadPart(r)
  BY <1>4 DEF InitUpload, InitInsert, InsertFileMeta, UploadPart
<1>5. CASE CompleteUpload(r) \/ CompleteStatus(r) \/ CompleteReread(r)
  BY <1>5 DEF CompleteUpload, CompleteStatus, UpdateFileStatus, CompleteReread
<1>6. CASE Die(r)
  BY <1>6 DEF Die
<1>. QED
  BY <1>1, <1>2, <1>3, <1>4, <1>5, <1>6 DEF Step

\* A step writes the row and the objects of its own file only.
LEMMA StepTables ==
  ASSUME NEW r \in Reqs, TypeInv, Step(r) \/ Die(r)
  PROVE  LET f == req[r].file IN
         /\ f \in Files
         /\ row' \in [Files -> {None, "uploading", "ready"}]
         /\ \A g \in Files \ {f} : row'[g] = row[g]
         /\ objects' \in {objects, objects \cup {f}, objects \ {f}}
         /\ thumbs' \in {thumbs, thumbs \cup {f}, thumbs \ {f}}
<1>. DEFINE f == req[r].file
<1>1. f \in Files
  BY StepProceeds DEF TypeInv, Working
<1>2. row \in [Files -> {None, "uploading", "ready"}]
  BY DEF TypeInv
<1>3. CASE UploadInsert(r) \/ InitInsert(r)
  BY <1>1, <1>2, <1>3 DEF UploadInsert, InitInsert, InsertFileMeta, bucket
<1>4. CASE UploadPut(r) \/ UploadThumb(r) \/ DeleteObject(r) \/ DeleteThumb(r)
  BY <1>1, <1>2, <1>4 DEF UploadPut, UploadThumb, DeleteObject, DeleteThumb, table
<1>5. CASE UrlGet(r) \/ UrlPresign(r) \/ DeleteGet(r) \/ CompleteReread(r) \/ Die(r)
  BY <1>1, <1>2, <1>5 DEF UrlGet, UrlPresign, DeleteGet, CompleteReread, Die, table, bucket
<1>6. CASE InitUpload(r) \/ UploadPart(r) \/ CompleteUpload(r)
  BY <1>1, <1>2, <1>6 DEF InitUpload, UploadPart, CompleteUpload, table
<1>7. CASE DeleteRow(r) \/ CompleteStatus(r)
  BY <1>1, <1>2, <1>7 DEF DeleteRow, DeleteFileMeta, CompleteStatus, UpdateFileStatus, bucket
<1>. QED
  BY <1>3, <1>4, <1>5, <1>6, <1>7 DEF Step

LEMMA TypeStep ==
  ASSUME TypeInv, [Next]_vars
  PROVE  TypeInv'
<1>1. ASSUME NEW r \in Reqs, NEW o \in Ops, NEW by \in Users, NEW f \in Files,
             NEW t \in Types, NEW up \in Uploads \cup {None}, NEW s \in Shapes,
             Begin(r, o, by, f, t, up, s)
      PROVE  TypeInv'
  <2>1. UNCHANGED <<row, objects, thumbs>>
    BY <1>1 DEF Begin, table, bucket
  <2>. QED
    BY <1>1, <2>1, BeginReq DEF TypeInv, Others, Working, Busy
<1>2. ASSUME NEW r \in Reqs, Step(r) \/ Die(r)
      PROVE  TypeInv'
  BY <1>2, StepProceeds, ProceedsReq, StepTables DEF TypeInv
<1>3. ASSUME NEW f \in Files, Attach(f)
      PROVE  TypeInv'
  BY <1>3 DEF Attach, bucket, TypeInv, Busy, Working
<1>4. CASE UNCHANGED vars
  BY <1>4 DEF vars, TypeInv, Busy, Working
<1>. QED
  BY <1>1, <1>2, <1>3, <1>4 DEF Next

-----------------------------------------------------------------------------
\* A gap that has a cause keeps it; a step of r opens gaps of its file only, and
\* none that says that a delete met a writer.
LEMMA StepExcuses ==
  ASSUME NEW r \in Reqs, Step(r) \/ Die(r)
  PROVE  /\ excused \subseteq excused'
         /\ excused' \ excused \subseteq {req[r].file} \X (Gaps \ {"met"})
<1>. DEFINE Opens == \E G \in SUBSET (Gaps \ {"met"}) : Excuse(r, G)
<1>1. NoFault => Opens
  <2>1. excused \cup ({req[r].file} \X {}) = excused
    OBVIOUS
  <2>2. NoFault => Excuse(r, {})
    BY <2>1 DEF NoFault, Excuse
  <2>. QED
    BY <2>2
<1>2. \A G \in SUBSET (Gaps \ {"met"}) : Fault(r, G) \/ Excuse(r, G) => Opens
  BY DEF Fault
<1>3. /\ {} \in SUBSET (Gaps \ {"met"}) /\ {"empty"} \in SUBSET (Gaps \ {"met"})
      /\ {"orphan"} \in SUBSET (Gaps \ {"met"}) /\ {"stray"} \in SUBSET (Gaps \ {"met"})
      /\ {"bare"} \in SUBSET (Gaps \ {"met"}) /\ Undone(r) \in SUBSET (Gaps \ {"met"})
  BY DEF Gaps, Undone
<1>4. Opens
  <2>. HIDE DEF Opens
  <2>. USE <1>1, <1>2, <1>3
  <2>1. CASE UploadInsert(r) \/ UploadPut(r) \/ UploadThumb(r) \/ UrlGet(r) \/ UrlPresign(r)
    BY <2>1 DEF UploadInsert, UploadPut, UploadThumb, UrlGet, UrlPresign, InsertFileMeta
  <2>2. CASE DeleteGet(r) \/ DeleteObject(r) \/ DeleteThumb(r) \/ DeleteRow(r) \/ Die(r)
    BY <2>2 DEF DeleteGet, DeleteObject, DeleteThumb, DeleteRow, DeleteFileMeta, Die
  <2>3. CASE InitUpload(r) \/ InitInsert(r) \/ UploadPart(r)
    BY <2>3 DEF InitUpload, InitInsert, InsertFileMeta, UploadPart
  <2>4. CASE CompleteUpload(r) \/ CompleteStatus(r) \/ CompleteReread(r)
    BY <2>4 DEF CompleteUpload, CompleteStatus, UpdateFileStatus, CompleteReread
  <2>. QED
    BY <2>1, <2>2, <2>3, <2>4 DEF Step
<1>. QED
  BY <1>4 DEF Excuse

\* Files are independent: a step of r leaves what is known of other files alone.
LEMMA OtherFile ==
  ASSUME NEW r \in Reqs, TypeInv, Step(r) \/ Die(r),
         NEW g \in Files, g # req[r].file, FileOK(g)
  PROVE  FileOK(g)'
<1>1. Busy(r) /\ Others(r) /\ (req'[r].pc = "done" \/ Moved(r, req'[r].pc))
  BY StepProceeds, ProceedsReq
<1>2. row'[g] = row[g] /\ (g \in objects' <=> g \in objects) /\ (g \in thumbs' <=> g \in thumbs)
  BY StepTables
<1>3. \A q \in Reqs : OnFile(q, g)' <=> OnFile(q, g)
  BY <1>1 DEF OnFile, Busy, Others, Moved
<1>4. \A q \in Reqs : OnFile(q, g) => req'[q] = req[q]
  BY <1>1 DEF OnFile, Others
<1>5. \A o, pcs : Has(g, o, pcs)' <=> Has(g, o, pcs)
  BY <1>3, <1>4 DEF Has
<1>6. \A gap : Open(g, gap)' <=> Open(g, gap)
  BY StepExcuses DEF Open
<1>7. Apart(g) => Apart(g)'
  BY <1>3, <1>4 DEF Apart
<1>8. Agree(g)'
  BY <1>2, <1>5, <1>6 DEF FileOK, Agree
<1>9. ASSUME NEW q \in Reqs, OnFile(q, g)' PROVE Knows(q)'
  <2>1. Knows(q) /\ req[q].file = g /\ req'[q] = req[q]
    BY <1>3, <1>4, <1>9 DEF FileOK, OnFile
  <2>. QED
    BY <1>2, <1>6, <2>1 DEF Knows, At
<1>. QED
  BY <1>6, <1>7, <1>8, <1>9 DEF FileOK

\* A handler that goes on keeps deletes and writers of its file apart.
LEMMA ApartStep ==
  ASSUME NEW r \in Reqs, TypeInv, Step(r) \/ Die(r), NEW f \in Files, Apart(f)
  PROVE  Apart(f)'
BY StepProceeds, ProceedsReq DEF Apart, OnFile, Busy, Others, Moved

\* What a step does to the file of its request: nothing, or what the call is for,
\* or neither where the gap that is left has been named.
Same(f) == /\ row'[f] = row[f] /\ (f \in objects' <=> f \in objects)
           /\ (f \in thumbs' <=> f \in thumbs)
Ends(r) == req'[r].pc = "done"

Idles(r, f) ==
  /\ Same(f)
  /\ \/ /\ Ends(r)
        /\ \/ At(r, "upload", "insert") \/ At(r, "upload", "thumb")
           \/ At(r, "complete", "complete") \/ At(r, "complete", "reread")
           \/ At(r, "delete", "get") \/ At(r, "delete", "object")
           \/ req[r].op \in {"url", "init", "part"}
     \/ req[r].op \in {"url", "init"} /\ Moved(r, req'[r].pc)
     \/ At(r, "delete", "get") /\ Moved(r, "object")

Fails(r, f) ==
  /\ Same(f)
  /\ \/ /\ Ends(r) /\ Open(f, "empty")'
        /\ At(r, "upload", "put") \/ At(r, "delete", "thumbnail") \/ At(r, "delete", "row")
     \/ Ends(r) /\ Open(f, "orphan")' /\ At(r, "complete", "status")
     \/ At(r, "delete", "object") /\ Moved(r, "thumbnail") /\ Open(f, "orphan")'
     \/ At(r, "delete", "thumbnail") /\ Moved(r, "row") /\ Open(f, "stray")'

Inserts(r, f) ==
  /\ row[f] = None /\ UNCHANGED <<objects, thumbs>>
  /\ \/ /\ At(r, "upload", "insert") /\ row'[f] = "ready"
        /\ Moved(r, "put") \/ (Ends(r) /\ Open(f, "empty")')
     \/ At(r, "init", "insert") /\ row'[f] = "uploading" /\ Ends(r)

Stores(r, f) ==
  /\ row'[f] = row[f]
  /\ \/ /\ At(r, "upload", "put") /\ (Moved(r, "thumb") \/ Ends(r))
        /\ objects' = objects \cup {f} /\ thumbs' = thumbs
     \/ /\ At(r, "upload", "thumb") /\ Ends(r)
        /\ thumbs' = thumbs \cup {f} /\ objects' = objects
     \/ /\ At(r, "complete", "complete")
        /\ \/ Moved(r, "status") /\ (row[f] # None \/ Open(f, "orphan")')
           \/ Ends(r) /\ Open(f, "orphan")'
        /\ objects' = objects \cup {f} /\ thumbs' = thumbs

Marks(r, f) ==
  /\ At(r, "complete", "status") /\ (Moved(r, "reread") \/ Ends(r))
  /\ row'[f] = (IF row[f] = None THEN None ELSE "ready") /\ UNCHANGED <<objects, thumbs>>

Removes(r, f) ==
  \/ /\ At(r, "delete", "object") /\ Moved(r, "thumbnail")
     /\ objects' = objects \ {f} /\ UNCHANGED <<row, thumbs>>
  \/ /\ At(r, "delete", "thumbnail") /\ Moved(r, "row")
     /\ thumbs' = thumbs \ {f} /\ UNCHANGED <<row, objects>>
  \/ /\ At(r, "delete", "row") /\ Ends(r)
     /\ row'[f] = None /\ UNCHANGED <<objects, thumbs>>

Effect(r, f) ==
  \/ Idles(r, f) \/ Fails(r, f) \/ Inserts(r, f) \/ Stores(r, f) \/ Marks(r, f)
  \/ Removes(r, f)

LEMMA StepEffect ==
  ASSUME NEW r \in Reqs, TypeInv, Step(r) \/ Die(r), NEW f \in Files, f = req[r].file
  PROVE  Effect(r, f)
<1>1. Busy(r) /\ req \in [Reqs -> Requests] /\ row \in [Files -> {None, "uploading", "ready"}]
  BY StepProceeds DEF TypeInv
<1>2. \A c \in Pcs : Goto(r, c) => Moved(r, c)
  BY <1>1, GotoReq
<1>3. \A v \in Results : Answer(r, v) => Ends(r)
  BY <1>1, AnswerReq DEF Ends
<1>4. /\ {"put", "thumb", "thumbnail", "row", "status", "reread", "object", "insert",
         "presign"} \subseteq Pcs
      /\ {"internal", "ok", "thumbnail", "not ready", "not found", "denied", "lost"}
           \subseteq Results
  BY DEF Pcs, Results
<1>5. \A g : Fault(r, {g}) \/ Excuse(r, {g}) => Open(f, g)'
  BY DEF Fault, Excuse, Open
<1>6. CASE UploadInsert(r)
  BY <1>1, <1>2, <1>3, <1>4, <1>5, <1>6
     DEF UploadInsert, InsertFileMeta, Effect, Idles, Same, Inserts, bucket
<1>7. CASE UploadPut(r)
  BY <1>1, <1>2, <1>3, <1>4, <1>5, <1>7 DEF UploadPut, table, Effect, Fails, Same, Stores
<1>8. CASE UploadThumb(r)
  BY <1>1, <1>3, <1>4, <1>8 DEF UploadThumb, table, Effect, Idles, Same, Stores
<1>9. CASE UrlGet(r) \/ UrlPresign(r)
  BY <1>1, <1>2, <1>3, <1>4, <1>9
     DEF UrlGet, UrlPresign, table, bucket, Effect, Idles, Same, At, Moved
<1>10. CASE DeleteGet(r)
  BY <1>1, <1>2, <1>3, <1>4, <1>10 DEF DeleteGet, table, bucket, Effect, Idles, Same, At
<1>11. CASE DeleteObject(r)
  BY <1>1, <1>2, <1>4, <1>5, <1>11 DEF DeleteObject, table, Effect, Fails, Same, Removes
<1>12. CASE DeleteThumb(r)
  BY <1>1, <1>2, <1>4, <1>5, <1>12 DEF DeleteThumb, table, Effect, Fails, Same, Removes
<1>13. CASE DeleteRow(r)
  BY <1>1, <1>3, <1>4, <1>5, <1>13
     DEF DeleteRow, DeleteFileMeta, bucket, Effect, Fails, Same, Removes
<1>14. CASE InitUpload(r) \/ UploadPart(r)
  BY <1>1, <1>2, <1>3, <1>4, <1>14
     DEF InitUpload, UploadPart, table, Effect, Idles, Same, At, Moved
<1>15. CASE InitInsert(r)
  BY <1>1, <1>3, <1>4, <1>15
     DEF InitInsert, InsertFileMeta, Effect, Idles, Same, Inserts, bucket, At
<1>16. CASE CompleteUpload(r)
  BY <1>1, <1>2, <1>3, <1>4, <1>5, <1>16
     DEF CompleteUpload, table, Effect, Idles, Same, Stores
<1>17. CASE CompleteStatus(r)
  BY <1>1, <1>2, <1>3, <1>4, <1>5, <1>17
     DEF CompleteStatus, UpdateFileStatus, bucket, Effect, Fails, Same, Marks
<1>18. CASE CompleteReread(r)
  BY <1>1, <1>3, <1>4, <1>18 DEF CompleteReread, table, bucket, Effect, Idles, Same
<1>19. CASE Die(r)
  <2>1. Ends(r) /\ Same(f)
    BY <1>3, <1>4, <1>19 DEF Die, Same, table, bucket
  <2>2. \A g \in Undone(r) : Open(f, g)'
    BY <1>19 DEF Die, Fault, Excuse, Open
  <2>3. AtStage(req[r].op, req[r].pc)
    BY <1>1 DEF TypeInv, Working
  <2>. QED
    BY <2>1, <2>2, <2>3 DEF Effect, Idles, Fails, Undone, At, AtStage
<1>. QED
  BY <1>6, <1>7, <1>8, <1>9, <1>10, <1>11, <1>12, <1>13, <1>14, <1>15, <1>16, <1>17,
     <1>18, <1>19 DEF Step

\* The file r works on keeps its invariant, effect by effect.
LEMMA OwnFile ==
  ASSUME NEW r \in Reqs, TypeInv, TypeInv', Step(r) \/ Die(r),
         NEW f \in Files, f = req[r].file, FileOK(f)
  PROVE  FileOK(f)'
<1>1. /\ Busy(r) /\ OnFile(r, f) /\ Others(r)
      /\ Ends(r) \/ Moved(r, req'[r].pc)
      /\ Knows(r) /\ Agree(f)
  BY StepProceeds, ProceedsReq DEF OnFile, FileOK, Ends
<1>2. \A q \in Reqs : OnFile(q, f) => Knows(q)
  BY DEF FileOK
<1>3. /\ Effect(r, f)
      /\ row[f] \in {None, "uploading", "ready"} /\ None \notin {"uploading", "ready"}
  BY StepEffect, FilesAssumption DEF TypeInv
<1>4. /\ \A g : Open(f, g) => Open(f, g)'
      /\ Open(f, "met")' => Open(f, "met")
  BY StepExcuses DEF Open
<1>5. IF Open(f, "met")' THEN \A g \in Gaps : Open(f, g)' ELSE Apart(f)'
  BY <1>4, ApartStep DEF FileOK
<1>6. ~Open(f, "met") => Apart(f)
  BY DEF FileOK
<1>7. \A g \in Gaps : Open(f, "met") => Open(f, g)'
  BY <1>4 DEF FileOK
<1>8. {"empty", "orphan", "stray", "met"} \subseteq Gaps
  BY DEF Gaps
<1>9. \A q \in Reqs : OnFile(q, f)' => /\ OnFile(q, f)
                                       /\ q = r \/ req'[q] = req[q]
  BY <1>1 DEF OnFile, Busy, Others, Moved
<1>10. \A q \in Reqs \ {r} : OnFile(q, f) => OnFile(q, f)' /\ req'[q] = req[q]
  BY <1>1 DEF OnFile, Busy, Others
<1>11. /\ Has(f, "upload", {"put"}) => Has(f, "upload", {"put"})' \/ At(r, "upload", "put")
       /\ Has(f, "delete", {"thumbnail", "row"}) =>
            \/ Has(f, "delete", {"thumbnail", "row"})'
            \/ At(r, "delete", "thumbnail") \/ At(r, "delete", "row")
       /\ Has(f, "complete", {"status"}) =>
            Has(f, "complete", {"status"})' \/ At(r, "complete", "status")
  BY <1>10 DEF Has, At
<1>12. /\ req[r].op = "upload" /\ Moved(r, "put") => Has(f, "upload", {"put"})'
       /\ req[r].op = "delete" /\ (Moved(r, "thumbnail") \/ Moved(r, "row")) =>
            Has(f, "delete", {"thumbnail", "row"})'
       /\ req[r].op = "complete" /\ Moved(r, "status") => Has(f, "complete", {"status"})'
  BY <1>1 DEF Has, Moved, OnFile, Busy
<1>. USE <1>1, <1>3, <1>4, <1>6, <1>7, <1>8
<1>13. Agree(f)'
  <2>. USE <1>11, <1>12 DEF Agree, At
  <2>1. CASE Idles(r, f)
    BY <2>1 DEF Idles, Same
  <2>2. CASE Fails(r, f)
    BY <2>2 DEF Fails, Same
  <2>3. CASE Inserts(r, f)
    BY <2>3 DEF Inserts
  <2>4. CASE Stores(r, f)
    BY <2>4 DEF Stores, Knows
  <2>5. CASE Marks(r, f)
    BY <2>5 DEF Marks, Knows
  <2>6. CASE Removes(r, f)
    BY <2>6 DEF Removes, Knows
  <2>. QED
    BY <2>1, <2>2, <2>3, <2>4, <2>5, <2>6 DEF Effect
<1>14. ASSUME NEW q \in Reqs, OnFile(q, f)' PROVE Knows(q)'
  <2>1. Knows(q) /\ OnFile(q, f) /\ req'[q].file = f
    <3>1. OnFile(q, f)
      BY <1>9, <1>14 DEF OnFile, Busy
    <3>2. req'[q].file = f
      BY <1>14 DEF OnFile
    <3>. QED
      BY <1>2, <3>1, <3>2
  <2>2. \A g \in Gaps : ~Open(f, g)' =>
          /\ req[r].op = "delete" => req[q].op \notin {"upload", "init", "complete"}
          /\ req[q].op = "delete" => req[r].op \notin {"upload", "init", "complete"}
    BY <2>1 DEF Apart
  <2>3. CASE q # r
    <3>1. req'[q] = req[q] /\ req[q].file = f
      BY <1>9, <1>14, <2>1, <2>3 DEF OnFile
    <3>2. CASE Idles(r, f) \/ Fails(r, f)
      BY <2>1, <3>1, <3>2 DEF Idles, Fails, Same, Knows, At
    <3>3. CASE Inserts(r, f)
      BY <2>1, <3>1, <3>3 DEF Inserts, Knows, At
    <3>4. CASE Stores(r, f)
      BY <2>1, <2>2, <3>1, <3>4 DEF Stores, Knows, At
    <3>5. CASE Marks(r, f)
      BY <2>1, <3>1, <3>5 DEF Marks, Knows, At
    <3>6. CASE Removes(r, f)
      BY <2>1, <2>2, <3>1, <3>6 DEF Removes, Knows, At
    <3>. QED
      BY <3>2, <3>3, <3>4, <3>5, <3>6 DEF Effect
  <2>4. CASE q = r
    <3>1. req'[r].pc # "done" /\ req'[r].file = f
      BY <1>14, <2>4 DEF OnFile, Busy
    <3>. USE <2>4, <3>1 DEF Ends, Moved, At
    <3>2. CASE Idles(r, f)
      BY <3>2 DEF Idles, Knows
    <3>3. CASE Fails(r, f)
      BY <3>3 DEF Fails, Same, Knows
    <3>4. CASE Inserts(r, f)
      BY <3>4 DEF Inserts, Knows
    <3>5. CASE Stores(r, f)
      BY <3>5 DEF Stores, Knows
    <3>6. CASE Marks(r, f)
      BY <3>6 DEF Marks, Knows
    <3>7. CASE Removes(r, f)
      BY <3>7 DEF Removes, Knows
    <3>. QED
      BY <3>2, <3>3, <3>4, <3>5, <3>6, <3>7 DEF Effect
  <2>. QED
    BY <2>3, <2>4
<1>. QED
  BY <1>5, <1>13, <1>14 DEF FileOK

\* A new request: a delete that meets a writer, or a writer that meets a delete,
\* may leave any gap.
LEMMA BeginFile ==
  ASSUME NEW r \in Reqs, NEW o \in Ops, NEW by \in Users, NEW g \in Files,
         NEW t \in Types, NEW up \in Uploads \cup {None}, NEW s \in Shapes,
         TypeInv, Begin(r, o, by, g, t, up, s),
         NEW f \in Files, FileOK(f)
  PROVE  FileOK(f)'
<1>1. UNCHANGED <<row, objects, thumbs>> /\ ~Busy(r)
  BY DEF Begin, table, bucket
<1>2. /\ Others(r)
      /\ req'[r].pc = "done" \/ (req'[r].op = o /\ req'[r].file = g /\ req'[r].pc = First[o])
  BY BeginReq DEF TypeInv
<1>3. First[o] \notin {"put", "thumb", "status", "reread", "thumbnail", "row"}
  BY DEF Ops, First
<1>4. \A q \in Reqs : OnFile(q, f) => q # r /\ OnFile(q, f)' /\ req'[q] = req[q]
  BY <1>1, <1>2 DEF Others, OnFile, Busy
<1>5. \A q \in Reqs : OnFile(q, f)' => q = r \/ (OnFile(q, f) /\ req'[q] = req[q])
  BY <1>2 DEF Others, OnFile, Busy
<1>6. /\ \A k : Open(f, k) => Open(f, k)'
      /\ \A k : Open(f, k)' => Open(f, k) \/ (f = g /\ Meets(o, g))
      /\ f = g /\ Meets(o, g) => \A k \in Gaps : Open(f, k)'
  BY DEF Begin, Open
<1>7. Apart(f) => Apart(f)' \/ (f = g /\ Meets(o, g))
  <2>1. CASE f # g
    BY <1>2, <1>5, <2>1 DEF Apart, OnFile, Busy
  <2>2. CASE f = g /\ ~Meets(o, g)
    <3>1. ASSUME NEW q \in Reqs, OnFile(q, f), (req[q].op = "delete") # (o = "delete")
          PROVE  {o, req[q].op} \cap {"upload", "init", "complete"} = {}
      BY <2>2, <3>1 DEF Meets, OnFile
    <3>. QED
      BY <1>2, <1>4, <1>5, <3>1 DEF Apart, OnFile, Busy
  <2>. QED
    BY <2>1, <2>2
<1>8. IF Open(f, "met")' THEN \A k \in Gaps : Open(f, k)' ELSE Apart(f)'
  BY <1>6, <1>7 DEF FileOK, Gaps
<1>9. Agree(f)'
  BY <1>1, <1>4, <1>6 DEF FileOK, Agree, Has
<1>10. ASSUME NEW q \in Reqs, OnFile(q, f)' PROVE Knows(q)'
  <2>1. Busy(r)' => Knows(r)'
    BY <1>2, <1>3 DEF Knows, At, Busy
  <2>2. CASE q # r
    <3>1. Knows(q) /\ req'[q] = req[q] /\ req[q].file = f
      BY <1>5, <1>10, <2>2 DEF FileOK, OnFile
    <3>. QED
      BY <1>1, <1>6, <3>1 DEF Knows, At
  <2>. QED
    BY <1>10, <2>1, <2>2 DEF OnFile
<1>. QED
  BY <1>8, <1>9, <1>10 DEF FileOK

LEMMA FileStep ==
  ASSUME IInv, [Next]_vars
  PROVE  IInv'
<1>1. TypeInv /\ TypeInv' /\ \A f \in Files : FileOK(f)
  BY TypeStep DEF IInv, FileInv
<1>2. SUFFICES ASSUME NEW f \in Files, FileOK(f)
               PROVE  FileOK(f)'
  BY <1>1 DEF IInv, FileInv
<1>3. ASSUME NEW r \in Reqs, NEW o \in Ops, NEW by \in Users, NEW g \in Files,
             NEW t \in Types, NEW up \in Uploads \cup {None}, NEW s \in Shapes,
             Begin(r, o, by, g, t, up, s)
      PROVE  FileOK(f)'
  BY <1>1, <1>2, <1>3, BeginFile
<1>4. ASSUME NEW r \in Reqs, Step(r) \/ Die(r)
      PROVE  FileOK(f)'
  BY <1>1, <1>2, <1>4, OwnFile, OtherFile
<1>5. CASE UNCHANGED <<row, objects, thumbs, req, excused>>
  BY <1>2, <1>5 DEF FileOK, Apart, Agree, Has, OnFile, Busy, Knows, At, Open
<1>. QED
  BY <1>3, <1>4, <1>5 DEF Next, Attach, bucket, vars

-----------------------------------------------------------------------------
\* Table and bucket agree on every file nobody is working on but for the gaps
\* whose cause is named, for any number of files, requests, uploads and faults
\* of file-service, faults after the call took effect included.
THEOREM StorageAgreesAlways == Spec => []StorageAgrees
<1>1. Init => IInv
  BY InitIInv
<1>2. IInv /\ [Next]_vars => IInv'
  BY FileStep
<1>3. IInv => StorageAgrees
  <2>1. SUFFICES ASSUME IInv, NEW f \in Files, Quiet(f)
                 PROVE  /\ row[f] = "ready" /\ f \notin objects => Open(f, "empty")
                        /\ f \in objects /\ row[f] # "ready" => Open(f, "orphan")
                        /\ f \in thumbs /\ row[f] # "ready" => Open(f, "stray")
    BY DEF StorageAgrees, Open
  <2>2. \A o, pcs : ~Has(f, o, pcs)
    BY <2>1 DEF Quiet, Has, OnFile
  <2>. QED
    BY <2>1, <2>2 DEF IInv, FileInv, FileOK, Agree
<1>. QED
  BY <1>1, <1>2, <1>3, PTL DEF Spec

\* Every answer of UploadFile, CompleteUpload and DeleteFile that claims success
\* is true of table and bucket at the moment it is given.
THEOREM AnswersAlwaysTrue == Spec => AnswersAreTrue
<1>. DEFINE Says(r, o, v) == req[r].op = o /\ req'[r].res \in v
            Unless(f, g) == <<f, g>> \notin excused'
            True(r) == LET f == req[r].file IN
              Busy(r) =>
                /\ Says(r, "upload", {"ok", "thumbnail"}) /\ Unless(f, "met") =>
                     row'[f] = "ready" /\ f \in objects'
                /\ Says(r, "upload", {"thumbnail"}) /\ Unless(f, "bare") => f \in thumbs'
                /\ Says(r, "complete", {"ok"}) /\ Unless(f, "orphan") =>
                     row'[f] = "ready" /\ f \in objects'
                /\ Says(r, "delete", {"ok"}) =>
                     /\ row'[f] = None
                     /\ Unless(f, "orphan") => f \notin objects'
                     /\ Unless(f, "stray") => f \notin thumbs'
<1>1. Init => IInv
  BY InitIInv
<1>2. IInv /\ [Next]_vars => IInv'
  BY FileStep
<1>3. ASSUME IInv, [Next]_vars, NEW r \in Reqs
      PROVE  True(r)
  <2>1. SUFFICES ASSUME Busy(r)
                 PROVE  True(r)
    OBVIOUS
  <2>. DEFINE f == req[r].file
  <2>2. TypeInv /\ req \in [Reqs -> Requests] /\ f \in Files /\ req[r].res = None
    BY <1>3, <2>1 DEF IInv, TypeInv, Working
  <2>3. CASE req'[r].res = None
    BY <2>3, FilesAssumption
  <2>4. ASSUME NEW q \in Reqs \ {r}, Others(q)
        PROVE  True(r)
    BY <2>2, <2>3, <2>4 DEF Others
  <2>5. CASE Step(r) \/ Die(r)
    <3>1. \A c \in Pcs : Goto(r, c) => req'[r].res = None
      BY <2>2, GotoReq DEF Moved
    <3>2. \A v \in Results : Answer(r, v) => req'[r].res = v
      BY <2>2, AnswerReq
    <3>3. /\ {"put", "thumb", "thumbnail", "row", "status", "reread", "object", "insert",
              "presign"} \subseteq Pcs
          /\ {"internal", "ok", "thumbnail", "not ready", "not found", "denied"}
                \subseteq Results
      BY DEF Pcs, Results
    <3>4. /\ \A g : Open(f, g) => ~Unless(f, g)
          /\ Fault(r, {"bare"}) => ~Unless(f, "bare")
      BY <2>5, StepExcuses DEF Open, Fault, Excuse
    <3>5. Knows(r) /\ (Open(f, "met") => Open(f, "orphan"))
      BY <1>3, <2>1, <2>2 DEF IInv, FileInv, FileOK, OnFile, Gaps
    <3>6. CASE UploadInsert(r) \/ UploadPut(r)
      BY <3>1, <3>2, <3>3, <3>6, FilesAssumption
         DEF UploadInsert, UploadPut, InsertFileMeta, At
    <3>7. CASE UploadThumb(r)
      BY <2>2, <3>2, <3>3, <3>4, <3>5, <3>7 DEF UploadThumb, Knows, At, table
    <3>8. CASE DeleteGet(r) \/ DeleteObject(r) \/ DeleteThumb(r)
      BY <3>1, <3>2, <3>3, <3>8, FilesAssumption
         DEF DeleteGet, DeleteObject, DeleteThumb, At
    <3>9. CASE DeleteRow(r)
      BY <2>2, <3>2, <3>3, <3>4, <3>5, <3>9, FilesAssumption
         DEF DeleteRow, DeleteFileMeta, Knows, At, bucket, TypeInv
    <3>10. CASE CompleteUpload(r) \/ CompleteStatus(r)
      BY <3>1, <3>2, <3>3, <3>10, FilesAssumption
         DEF CompleteUpload, CompleteStatus, UpdateFileStatus, At
    <3>11. CASE CompleteReread(r)
      BY <3>2, <3>3, <3>4, <3>5, <3>11 DEF CompleteReread, Knows, At, table, bucket
    <3>12. CASE UrlGet(r) \/ UrlPresign(r) \/ InitUpload(r) \/ InitInsert(r) \/ UploadPart(r)
      BY <3>12 DEF UrlGet, UrlPresign, InitUpload, InitInsert, UploadPart, At
    <3>13. CASE Die(r)
      <4>1. "lost" \in Results
        BY DEF Results
      <4>. QED
        BY <3>2, <3>13, <4>1 DEF Die
    <3>. QED
      BY <2>5, <3>6, <3>7, <3>8, <3>9, <3>10, <3>11, <3>12, <3>13 DEF Step
  <2>6. ASSUME NEW q \in Reqs, Step(q) \/ Die(q)
        PROVE  True(r)
    BY <2>2, <2>4, <2>5, <2>6, StepProceeds, ProceedsReq
  <2>7. ASSUME NEW q \in Reqs, NEW o \in Ops, NEW by \in Users, NEW g \in Files,
               NEW t \in Types, NEW up \in Uploads \cup {None}, NEW s \in Shapes,
               Begin(q, o, by, g, t, up, s)
        PROVE  True(r)
    <3>1. q # r
      BY <2>1, <2>7 DEF Begin
    <3>. QED
      BY <2>2, <2>4, <2>7, <3>1, BeginReq
  <2>8. CASE UNCHANGED req
    BY <2>2, <2>3, <2>8
  <2>. HIDE DEF True
  <2>. QED
    BY <1>3, <2>6, <2>7, <2>8 DEF Next, Attach, vars
<1>4. IInv /\ [Next]_vars => [\A r \in Reqs : True(r)]_vars
  BY <1>3
<1>. QED
  BY <1>1, <1>2, <1>4, PTL DEF Spec, AnswersAreTrue
=============================================================================
