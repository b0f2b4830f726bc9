------------------------------ MODULE Artifacts ------------------------------
(***************************************************************************)
(* The artifact stores (internal/artifacts): a directory, S3, Google Cloud *)
(* Storage and Artifactory, used by several goroutines at once.  A file is *)
(* written in place, chunk by chunk, and read while it is written; the     *)
(* services put a whole object in the place of the one before.  The path   *)
(* of an artifact stands for the run and the path below it.                *)
(***************************************************************************)
EXTENDS Naturals, Sequences, FiniteSetsExt

CONSTANTS
    Path,       \* paths, numbers in the order of their names, from 1 on
    Dir,        \* Dir[p]: the directory of p, a number from 1 on
    Upload,     \* calls of Upload
    Chunks,     \* Chunks[u]: how many chunks the reader of u gives
    PageSize,   \* keys in a page of a listing
    NoUpload    \* no upload

ASSUME PathAssumption == Path \subseteq Nat \ {0} /\ Dir \in [Path -> Nat \ {0}]
ASSUME ChunksAssumption == Chunks \in [Upload -> Nat] /\ NoUpload \notin Upload
ASSUME PageAssumption == PageSize \in Nat \ {0}

VARIABLES
    store,      \* the implementation
    object,     \* the chunks kept, a function of the paths that have an object
    upload,     \* upload[u]: a call of Upload
    download,   \* one call of Download and the reading of what it returns
    listing,    \* one call of List
    settled     \* history: settled[p]: the upload that ended last at p and
                \* overlapped no other, if it returned nil

avars == <<store, object, upload, download, listing, settled>>

\* What the reader of an upload gives: each chunk is known by upload and place.
Content(u) == [i \in 1..Chunks[u] |-> <<u, i>>]

NoDownload == [pc |-> "idle", path |-> 0, got |-> <<>>, want |-> NoUpload]
NoListing == [pc |-> "idle", after |-> 0, paths |-> {}, must |-> {}]

ArtifactsInit ==
    /\ store \in {"local", "s3", "gcs", "artifactory"}
    /\ object = << >>
    /\ upload = [u \in Upload |->
         [pc |-> "idle", path |-> 0, sent |-> 0, alone |-> TRUE]]
    /\ download = NoDownload /\ listing = NoListing
    /\ settled = [p \in Path |-> NoUpload]

\* An object is put in the place of the one before.
Stores(p, chunks) ==
    object' = [q \in DOMAIN object \cup {p} |-> IF q = p THEN chunks ELSE object[q]]

\* One goroutine reads, and makes one call: reading changes nothing.
Reader == download.pc = "idle" /\ listing.pc = "idle"

Service == store \in {"s3", "gcs", "artifactory"}
Active(p) == {u \in Upload : upload[u].pc \in {"begun", "copy"} /\ upload[u].path = p}

-----------------------------------------------------------------------------
(* Upload *)

\* A call, and what is known of its path from now on.
UploadBegin(u, p) ==
    /\ upload[u].pc = "idle"
    /\ upload' = [v \in Upload |->
         CASE v = u -> [pc |-> IF store = "gcs" THEN "copy" ELSE "begun", path |-> p,
                        sent |-> 0, alone |-> Active(p) = {}]
           [] v \in Active(p) -> [upload[v] EXCEPT !.alone = FALSE]
           [] OTHER -> upload[v]]
    /\ settled' = [settled EXCEPT ![p] = NoUpload]
    /\ download' = [download EXCEPT !.want = IF download.path = p THEN NoUpload ELSE @]
    /\ UNCHANGED <<store, object, listing>>

\* The call returns, with an error or without.
UploadReturns(u, pc) ==
    /\ upload' = [upload EXCEPT ![u].pc = pc]
    /\ settled' = [settled EXCEPT ![upload[u].path] =
         IF pc = "ok" /\ upload[u].alone THEN u ELSE NoUpload]
    /\ UNCHANGED <<store, download, listing>>

\* The file is opened as it is.
MutLocalCreate(u) ==
    /\ store = "local" /\ upload[u].pc = "begun"
    /\ LET p == upload[u].path IN
         Stores(p, IF p \in DOMAIN object THEN object[p] ELSE <<>>)
    /\ upload' = [upload EXCEPT ![u].pc = "copy"]
    /\ UNCHANGED <<store, download, listing, settled>>

\* The directories are made, and the file is made or emptied.
LocalCreate(u) ==
    /\ store = "local" /\ upload[u].pc = "begun"
    /\ Stores(upload[u].path, <<>>)
    /\ upload' = [upload EXCEPT ![u].pc = "copy"]
    /\ UNCHANGED <<store, download, listing, settled>>

\* io.Copy into a file writes at its own offset: past the end of a file that was
\* emptied in between, the gap has no upload.
LocalCopy(u) ==
    /\ store = "local" /\ upload[u].pc = "copy" /\ upload[u].sent < Chunks[u]
    /\ LET p == upload[u].path
           k == upload[u].sent + 1
           old == object[p]
       IN Stores(p, [i \in 1..Max({k, Len(old)}) |->
            CASE i = k -> <<u, i>>
              [] i # k /\ i <= Len(old) -> old[i]
              [] OTHER -> <<NoUpload, i>>])
    /\ upload' = [upload EXCEPT ![u].sent = @ + 1]
    /\ UNCHANGED <<store, download, listing, settled>>

LocalDone(u) ==
    /\ store = "local" /\ upload[u].pc = "copy" /\ upload[u].sent = Chunks[u]
    /\ UploadReturns(u, "ok") /\ UNCHANGED object

\* Nothing is undone.
LocalFails(u) ==
    /\ store = "local" /\ upload[u].pc \in {"begun", "copy"}
    /\ UploadReturns(u, "err") /\ UNCHANGED object

\* One PutObject, or one PUT: the object is replaced or not, and the answer may
\* be lost.
PutDone(u) ==
    /\ store \in {"s3", "artifactory"} /\ upload[u].pc = "begun"
    /\ Stores(upload[u].path, Content(u))
    /\ \E pc \in {"ok", "err"} : UploadReturns(u, pc)

PutFails(u) ==
    /\ store \in {"s3", "artifactory"} /\ upload[u].pc = "begun"
    /\ UploadReturns(u, "err") /\ UNCHANGED object

\* The writer keeps what it is given until it is closed.
GCSCopy(u) ==
    /\ store = "gcs" /\ upload[u].pc = "copy" /\ upload[u].sent < Chunks[u]
    /\ upload' = [upload EXCEPT ![u].sent = @ + 1]
    /\ UNCHANGED <<store, object, download, listing, settled>>

GCSClose(u) ==
    /\ store = "gcs" /\ upload[u].pc = "copy" /\ upload[u].sent = Chunks[u]
    /\ \/ /\ Stores(upload[u].path, Content(u))
          /\ \E pc \in {"ok", "err"} : UploadReturns(u, pc)
       \/ UploadReturns(u, "err") /\ UNCHANGED object

\* io.Copy fails. Close makes an object of what the writer was given, if it was
\* the reader that failed.
GCSCopyFails(u) ==
    /\ store = "gcs" /\ upload[u].pc = "copy"
    /\ \/ Stores(upload[u].path, SubSeq(Content(u), 1, upload[u].sent))
       \/ UNCHANGED object
    /\ UploadReturns(u, "err")

-----------------------------------------------------------------------------
(* Download *)

\* os.Open, or the request: the body of a service is the object of this moment.
Download(p) ==
    /\ Reader
    /\ p \in DOMAIN object
    /\ download' = [pc |-> IF Service THEN "ok" ELSE "read", path |-> p,
                    got |-> IF Service THEN object[p] ELSE <<>>, want |-> settled[p]]
    /\ UNCHANGED <<store, object, upload, listing, settled>>

DownloadFails(p) ==
    /\ Reader
    /\ download' = [NoDownload EXCEPT !.pc = "err", !.path = p]
    /\ UNCHANGED <<store, object, upload, listing, settled>>

\* The caller reads the file as it is by now.
LocalRead ==
    /\ download.pc = "read"
    /\ LET k == Len(download.got) + 1
           chunks == object[download.path]
       IN download' = IF k <= Len(chunks)
                      THEN [download EXCEPT !.got = Append(@, chunks[k])]
                      ELSE [download EXCEPT !.pc = "ok"]
    /\ UNCHANGED <<store, object, upload, listing, settled>>

-----------------------------------------------------------------------------
(* List *)

List ==
    /\ Reader
    /\ listing' = [pc |-> IF store = "artifactory" THEN "err" ELSE "page",
                   after |-> 0, paths |-> {},
                   must |-> {upload[u].path : u \in {w \in Upload : upload[w].pc = "ok"}}]
    /\ UNCHANGED <<store, object, upload, download, settled>>

\* The objects of the first directory after the last one visited.
LocalWalk ==
    /\ store = "local" /\ listing.pc = "page"
    /\ LET dirs == {Dir[p] : p \in DOMAIN object}
           left == {d \in dirs : d > listing.after}
           next == Min(left)
       IN listing' = IF left = {} THEN [listing EXCEPT !.pc = "ok"]
                     ELSE [listing EXCEPT !.after = next,
                            !.paths = @ \cup {p \in DOMAIN object : Dir[p] = next}]
    /\ UNCHANGED <<store, object, upload, download, settled>>

\* The keys of the next page.
Page == {p \in DOMAIN object : /\ p > listing.after
                               /\ Cardinality({q \in DOMAIN object :
                                    q > listing.after /\ q < p}) < PageSize}

\* One page is asked for.
MutServicePage ==
    /\ store \in {"s3", "gcs"} /\ listing.pc = "page"
    /\ listing' = [listing EXCEPT !.paths = @ \cup Page, !.pc = "ok"]
    /\ UNCHANGED <<store, object, upload, download, settled>>

ServicePage ==
    /\ store \in {"s3", "gcs"} /\ listing.pc = "page"
    /\ listing' = IF Page = {} THEN [listing EXCEPT !.pc = "ok"]
                  ELSE [listing EXCEPT !.paths = @ \cup Page, !.after = Max(Page)]
    /\ UNCHANGED <<store, object, upload, download, settled>>

ListFails ==
    /\ listing.pc = "page"
    /\ listing' = [listing EXCEPT !.pc = "err"]
    /\ UNCHANGED <<store, object, upload, download, settled>>

-----------------------------------------------------------------------------
ArtifactsNext ==
    \/ \E u \in Upload :
         \/ \E p \in Path : UploadBegin(u, p)
         \/ LocalCreate(u) \/ LocalCopy(u) \/ LocalDone(u) \/ LocalFails(u)
         \/ PutDone(u) \/ PutFails(u)
         \/ GCSCopy(u) \/ GCSClose(u) \/ GCSCopyFails(u)
    \/ \E p \in Path : Download(p) \/ DownloadFails(p)
    \/ LocalRead
    \/ List \/ LocalWalk \/ ServicePage \/ ListFails

ArtifactsSpec == ArtifactsInit /\ [][ArtifactsNext]_avars

-----------------------------------------------------------------------------
(* Properties *)

\* UploadedServed: what is read to its end is the whole content of the last
\* upload of the path, if that upload returned nil, overlapped no other upload
\* of the path, and none has begun since. Whatever failed or overlapped before,
\* a longer file included, leaves no trace (local.go:26-49, s3.go:47-68,
\* gcs.go:35-50, artifactory.go:31-63).
UploadedServed ==
    download.pc = "ok" /\ download.want # NoUpload =>
      download.got = Content(download.want)

\* ListedWhole: a List that returns nil, whatever is uploaded between its pages
\* or directories, has every path with an upload that had returned nil when it
\* was called, and none that was never uploaded to (local.go:51-69,
\* s3.go:70-88, gcs.go:52-67).
ListedWhole ==
    listing.pc = "ok" =>
      /\ listing.must \subseteq listing.paths
      /\ \A p \in listing.paths : \E u \in Upload :
           upload[u].pc # "idle" /\ upload[u].path = p
==============================================================================
