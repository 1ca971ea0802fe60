------------------------------ MODULE Storage ------------------------------
(***************************************************************************)
(* createStorageService (packages/storage): uploads go through the plugins *)
(* rename, imageTransform, encryption and multiBucket, downloads back      *)
(* through encryption, to a local directory, S3, R2, Supabase or Vercel    *)
(* Blob.  A local file is written in two steps, which other calls see;     *)
(* what a call writes it writes to the file it has opened, whatever the    *)
(* path has come to lead to.                                               *)
(***************************************************************************)
EXTENDS Naturals, Sequences

LOCAL INSTANCE SequencesExt

CONSTANTS
    Uploaders,
    NoExt, Webp,            \* extensions of paths: none, what images are turned into
    Empty, Torn,            \* a file of no bytes, or of some of those written to it
    Unreadable              \* what cannot be decrypted

VARIABLES
    service,    \* [source, byUrl, plugins, bucket, allowed, onError, fails]
    names,      \* [<<bucket, path>> -> the number of its file, or NoFile]
    files,      \* what each file holds
    writing,    \* the writers of each file
    scall
storageVars == <<service, names, files, writing, scall>>

NoFile == 0
NoStorageCall == [op |-> "none", at |-> "idle"]
StorageAt(c, stage) == scall[c].at = stage
FileAt(slot) == IF slot \in DOMAIN names THEN names[slot] ELSE NoFile

(* Data: what was given, whether it was transformed, the keys it is encrypted
   with, the last one first. *)
Data(content) == [content |-> content, transformed |-> FALSE, keys |-> <<>>]
IsData(bytes) == bytes \notin {Empty, Torn}

-----------------------------------------------------------------------------
(* The plugins of an upload, each of which passes its params on to the next:
   [path, type, data, bucket, failed]; failed once one throws.  async is FALSE
   as long as only multiBucket has run: what throws then is not a rejection. *)

Renamed(plugin, path, data, fresh) ==
    LET sanitized == IF plugin.sanitize THEN plugin.safe[path.name] ELSE path.name
        name == CASE plugin.strategy = "uuid" -> <<"uuid", fresh>>
                  [] plugin.strategy = "hash" -> <<"hash", data, IF data.keys = <<>> THEN 0 ELSE fresh>>
                  [] plugin.strategy = "slug" -> plugin.slug[path.name]
                  [] OTHER -> sanitized
    IN  [path EXCEPT !.name = name]

(* Every salt differs: what was encrypted has a hash of its own. *)
Encrypted(data, key) == [data EXCEPT !.keys = <<key>> \o @]

(* sharp throws on what is no image; an image keeps its extension only when no
   format is given. *)
Transformed(plugin, params) ==
    IF params.type # "image" THEN params
    ELSE IF params.data.keys # <<>> THEN [params EXCEPT !.failed = TRUE]
    ELSE [params EXCEPT !.data.transformed = TRUE,
             !.path.ext = IF plugin.format = "none" THEN @ ELSE Webp]

Matches(pattern, params) == pattern \in {params.type, params.path.ext}
Routed(plugin, params) ==
    LET hits == {i \in 1 .. Len(plugin.routing) : Matches(plugin.routing[i].pattern, params)}
        first == CHOOSE i \in hits : \A j \in hits : i <= j
    IN  IF hits # {} THEN [params EXCEPT !.bucket = plugin.routing[first].bucket]
        ELSE IF plugin.bucket # "none" THEN [params EXCEPT !.bucket = plugin.bucket]
        ELSE [params EXCEPT !.failed = TRUE]

Through(plugin, params, fresh) ==
    IF params.failed THEN params
    ELSE [CASE plugin.name = "rename" ->
                   [params EXCEPT !.path = Renamed(plugin, @, params.data, fresh)]
            [] plugin.name = "imageTransform" -> Transformed(plugin, params)
            [] plugin.name = "encryption" ->
                   [params EXCEPT !.data = Encrypted(@, plugin.key)]
            [] plugin.name = "multiBucket" -> Routed(plugin, params)
          EXCEPT !.async = @ \/ plugin.name # "multiBucket"]

UploadChain(params, fresh) ==
    FoldLeft(LAMBDA p, plugin : Through(plugin, p, fresh), params, service.plugins)

(* Downloaded bytes, decrypted by the plugins from the last to the first; an
   authentication tag that does not fit throws. *)
Peeled(key, bytes) ==
    IF ~IsData(bytes) \/ bytes = Unreadable THEN Unreadable
    ELSE IF bytes.keys = <<>> THEN Unreadable
    ELSE IF Head(bytes.keys) # key THEN Unreadable ELSE [bytes EXCEPT !.keys = Tail(@)]
DecryptedBug(bytes) == IF IsData(bytes) THEN [bytes EXCEPT !.keys = <<>>] ELSE bytes
Decrypted(bytes) ==
    FoldRight(LAMBDA plugin, b : IF plugin.name = "encryption" THEN Peeled(plugin.key, b) ELSE b,
              service.plugins, bytes)

-----------------------------------------------------------------------------
(* A call settles: "silent" turns a rejection into a fallback, which for an
   upload is the path it was called with.  What throws before the first await is
   not caught by onError; exists resolves its bucket outside of it. *)

StorageAnswers(c, out, path, bytes) ==
    scall' = [scall EXCEPT ![c] = [@ EXCEPT !.at = "returned", !.out = out, !.path = path,
                  !.bytes = bytes]]
Fails(c, async) ==
    LET k == scall[c] IN
    StorageAnswers(c, IF service.onError = "throw" \/ ~async THEN "threw" ELSE "silent",
                   k.path, IF k.op = "exists" THEN FALSE ELSE Empty)
FilesStay == UNCHANGED <<names, files, writing>>

Encrypts == \E i \in DOMAIN service.plugins : service.plugins[i].name = "encryption"
Allowed(bucket) == bucket \in service.allowed

(* An upload goes through the plugins; its bucket is resolved last.  The other
   calls name the bucket, or take the default. *)
UploadStarts(c, path, type, content, fresh) ==
    LET params == UploadChain([path |-> path, type |-> type, data |-> Data(content),
                               bucket |-> service.bucket, failed |-> FALSE, async |-> FALSE], fresh)
        ok == ~params.failed /\ Allowed(params.bucket)
    IN  /\ scall[c] = NoStorageCall
        /\ scall' = [scall EXCEPT ![c] =
               [op |-> "upload", at |-> IF ok THEN "send" ELSE "refused", async |-> params.async,
                slot |-> <<params.bucket, params.path>>, path |-> path, data |-> params.data,
                file |-> NoFile, mixed |-> FALSE, out |-> "none", bytes |-> Empty]]
        /\ FilesStay /\ UNCHANGED service
FileStarts(c, op, slot) ==
    /\ scall[c] = NoStorageCall
    /\ scall' = [scall EXCEPT ![c] =
           [op |-> op, at |-> IF Allowed(slot[1]) THEN "send" ELSE "refused",
            async |-> op = "download" /\ Encrypts, slot |-> slot, path |-> slot[2],
            data |-> Empty, file |-> NoFile, mixed |-> FALSE, out |-> "none", bytes |-> Empty]]
    /\ FilesStay /\ UNCHANGED service
StorageEnds(c) ==
    /\ StorageAt(c, "returned")
    /\ scall' = [scall EXCEPT ![c] = NoStorageCall]
    /\ FilesStay /\ UNCHANGED service

Refuses(c) == StorageAt(c, "refused") /\ Fails(c, scall[c].async) /\ FilesStay /\ UNCHANGED service

-----------------------------------------------------------------------------
(* The adapters. *)

Sends(c, op) == StorageAt(c, "send") /\ scall[c].op = op
Local == service.source = "local"
Leads(slot, file) == [s \in DOMAIN names \cup {slot} |-> IF s = slot THEN file ELSE names[s]]

AsksBackBug(k) == k.path
AnswersPath(k) == k.slot[2]

(* A remote source stores the whole file at once. *)
Put(c) ==
    LET k == scall[c] IN
    /\ Sends(c, "upload") /\ ~Local
    /\ files' = Append(files, k.data) /\ writing' = Append(writing, {})
    /\ names' = Leads(k.slot, Len(files) + 1)
    /\ \/ StorageAnswers(c, "done", AnswersPath(k), Empty)
       \/ service.fails /\ Fails(c, TRUE)
    /\ UNCHANGED service

(* writeFile opens, creating or truncating, *)
Open(c) ==
    LET k == scall[c]
        file == IF FileAt(k.slot) = NoFile THEN Len(files) + 1 ELSE FileAt(k.slot)
        with == IF file \in DOMAIN writing THEN writing[file] ELSE {}
    IN  /\ Sends(c, "upload") /\ Local
        /\ names' = Leads(k.slot, file)
        /\ files' = IF file > Len(files) THEN Append(files, Empty) ELSE [files EXCEPT ![file] = Empty]
        /\ writing' = IF file > Len(files) THEN Append(writing, {c})
                      ELSE [writing EXCEPT ![file] = @ \cup {c}]
        /\ scall' = [d \in Uploaders |->
               IF d = c THEN [k EXCEPT !.at = "write", !.file = file, !.mixed = with # {}]
               ELSE IF d \in with THEN [scall[d] EXCEPT !.mixed = TRUE] ELSE scall[d]]
        /\ UNCHANGED service
(* and writes, maybe between the writes of another upload. *)
WriteFile(c) ==
    LET k == scall[c] IN
    /\ StorageAt(c, "write")
    /\ writing' = [writing EXCEPT ![k.file] = @ \ {c}]
    /\ \/ \E bytes \in {k.data} \cup IF k.mixed THEN {Torn} ELSE {} :
              files' = [files EXCEPT ![k.file] = bytes]
          /\ StorageAnswers(c, "done", AnswersPath(k), Empty)
       \/ service.fails /\ files' = [files EXCEPT ![k.file] = Torn] /\ Fails(c, TRUE)
    /\ UNCHANGED <<service, names>>

(* A missing file is an error, except where Vercel Blob is read by its URL. *)
Download(c) ==
    LET k == scall[c]
        file == FileAt(k.slot)
    IN  /\ Sends(c, "download")
        /\ \E bytes \in IF file = NoFile THEN {IF service.byUrl THEN Empty ELSE Unreadable}
                        ELSE {files[file]} \cup IF writing[file] # {} THEN {Torn} ELSE {} :
               IF bytes = Unreadable \/ Decrypted(bytes) = Unreadable THEN Fails(c, TRUE)
               ELSE StorageAnswers(c, "done", k.path, Decrypted(bytes))
        /\ FilesStay /\ UNCHANGED service

Delete(c) ==
    LET k == scall[c] IN
    /\ Sends(c, "delete")
    /\ names' = Leads(k.slot, NoFile)
    /\ \/ IF Local /\ FileAt(k.slot) = NoFile THEN Fails(c, TRUE)
          ELSE StorageAnswers(c, "done", k.path, Empty)
       \/ service.fails /\ ~Local /\ Fails(c, TRUE)
    /\ UNCHANGED <<service, files, writing>>

(* The remote sources answer FALSE to a failed request. *)
Exists(c) ==
    LET k == scall[c] IN
    /\ Sends(c, "exists")
    /\ \E answer \in {FileAt(k.slot) # NoFile} \cup IF service.fails /\ ~Local THEN {FALSE} ELSE {} :
           StorageAnswers(c, "done", k.path, answer)
    /\ FilesStay /\ UNCHANGED service

Disconnected(c) ==
    /\ StorageAt(c, "send") /\ scall[c].op # "exists" /\ service.fails
    /\ Fails(c, TRUE)
    /\ FilesStay /\ UNCHANGED service

StorageStep(c) ==
    \/ Refuses(c) \/ Put(c) \/ Open(c) \/ WriteFile(c) \/ Download(c) \/ Delete(c)
    \/ Exists(c) \/ Disconnected(c)

-----------------------------------------------------------------------------
(***************************************************************************)
(* Clients of a storage service upload files and use the paths they were   *)
(* answered.  The history knows what a path must hold: what the last       *)
(* upload of it, or delete, has left that no other call ran into.          *)
(***************************************************************************)

CONSTANTS
    StoragePlans,       \* what is deployed, and what the clients do
    NoBytes, Unsure     \* there is no file, or there may be any

VARIABLES
    bucketPlan, bcalls, \* the plan, the calls begun
    known,              \* the paths uploads were answered, with their buckets
    kept, held,         \* per path what it must hold; all it was to hold
    claim,              \* per download, what it must answer
    single              \* per call that changes a path: no other one did meanwhile
storageGhosts == <<known, kept, held, claim, single>>
fileVars == <<storageVars, bucketPlan, bcalls, storageGhosts>>

NoStorage == [service |-> "none"]
At(function, slot, otherwise) == IF slot \in DOMAIN function THEN function[slot] ELSE otherwise
Put2(function, slot, value) ==
    [s \in DOMAIN function \cup {slot} |-> IF s = slot THEN value ELSE function[s]]
FileBusy(d) == scall[d].at \notin {"idle", "returned"}
Alters(k) == k.op \in {"upload", "delete"}

FilesInit ==
    /\ service = NoStorage /\ names = <<>> /\ files = <<>> /\ writing = <<>>
    /\ scall = [c \in Uploaders |-> NoStorageCall]
    /\ bucketPlan = NoStorage /\ bcalls = 0
    /\ known = {} /\ kept = <<>> /\ held = <<>>
    /\ claim = [c \in Uploaders |-> Unsure] /\ single = [c \in Uploaders |-> FALSE]
FilesDeploy ==
    /\ bucketPlan = NoStorage
    /\ \E p \in StoragePlans : bucketPlan' = p /\ service' = p.setup
    /\ UNCHANGED <<names, files, writing, scall, bcalls, storageGhosts>>

(* The calls of a client; two clients upload different contents. *)
Begins(c) ==
    \/ \E path \in bucketPlan.paths, type \in bucketPlan.types, content \in bucketPlan.contents[c] :
           UploadStarts(c, path, type, content, bcalls)
    \/ \E op \in bucketPlan.ops, slot \in known : FileStarts(c, op, slot)
    \/ \E op \in bucketPlan.ops, bucket \in bucketPlan.strange, slot \in known :
           FileStarts(c, op, <<bucket, slot[2]>>)
FileCalls(c) ==
    /\ bucketPlan.service = "storage" /\ bcalls < bucketPlan.calls
    /\ Begins(c)
    /\ bcalls' = bcalls + 1
    /\ LET k == scall'[c]
           near == {d \in Uploaders \ {c} : FileBusy(d) /\ Alters(scall[d]) /\ scall[d].slot = k.slot}
       IN  /\ single' = [d \in Uploaders |->
                  IF d = c THEN near = {} ELSE single[d] /\ ~(d \in near /\ Alters(k))]
           /\ claim' = [d \in Uploaders |->
                  IF d = c THEN (IF near = {} THEN At(kept, k.slot, NoBytes) ELSE Unsure)
                  ELSE IF Alters(k) /\ scall[d].at # "idle" /\ scall[d].slot = k.slot
                          /\ FileBusy(d)
                  THEN Unsure ELSE claim[d]]
           /\ held' = IF k.op = "upload"
                      THEN Put2(held, k.slot, At(held, k.slot, {}) \cup {[k.data EXCEPT !.keys = <<>>]})
                      ELSE held
           /\ kept' = IF Alters(k) THEN Put2(kept, k.slot, Unsure) ELSE kept
    /\ UNCHANGED <<bucketPlan, known>>

(* Under "throw" a call that returns has done what it was to do. *)
FileMoves(c) ==
    LET k == scall[c]
        done == scall'[c].at = "returned" /\ scall'[c].out = "done"
        slot == <<k.slot[1], scall'[c].path>>
    IN  /\ FileBusy(c) /\ StorageStep(c)
        /\ known' = IF done /\ k.op = "upload" THEN known \cup {slot} ELSE known
        /\ kept' = IF done /\ Alters(k)
                   THEN Put2(kept, slot, IF ~single[c] THEN Unsure
                                         ELSE IF k.op = "delete" THEN NoBytes
                                         ELSE [k.data EXCEPT !.keys = <<>>])
                   ELSE kept
        /\ UNCHANGED <<bucketPlan, bcalls, held, claim, single>>
FileLeaves(c) ==
    /\ StorageEnds(c)
    /\ claim' = [claim EXCEPT ![c] = Unsure] /\ single' = [single EXCEPT ![c] = FALSE]
    /\ UNCHANGED <<bucketPlan, bcalls, known, kept, held>>

FilesNext ==
    \/ FilesDeploy
    \/ \E c \in Uploaders : FileCalls(c) \/ FileMoves(c) \/ FileLeaves(c)

-----------------------------------------------------------------------------
(* What an upload has stored, as the plugins were to store it, is found by the
   path it was answered, in the bucket it was routed to, until that path is
   uploaded to or deleted again: by two names that a rename plugin maps to one,
   by two equal files of the strategy "hash". *)
FileKept == \A c \in Uploaders :
    LET k == scall[c] IN
    k.at = "returned" /\ claim[c] # Unsure /\ Allowed(k.slot[1]) =>
        CASE k.op = "download" ->
                 IF claim[c] = NoBytes THEN k.bytes = Empty
                 ELSE IF k.out = "done" THEN k.bytes = claim[c] ELSE service.fails
          [] k.op = "exists" /\ ~service.fails -> k.bytes = (claim[c] # NoBytes)
          [] OTHER -> TRUE

(* A download answers nothing that was not uploaded under its path, whatever ran
   at the same time; a local file that is not encrypted may be cut short, and
   "silent" and Vercel Blob answer no bytes for a file they cannot read. *)
FileAuthentic == \A c \in Uploaders :
    LET k == scall[c] IN
    k.op = "download" /\ k.at = "returned" /\ k.out = "done" =>
        \/ k.bytes \in At(held, k.slot, {})
        \/ k.bytes \in {Empty, Torn} /\ ~Encrypts /\ (Local \/ service.byUrl)
=============================================================================
