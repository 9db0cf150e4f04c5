------------------------------- MODULE Gallery -------------------------------
(***************************************************************************)
(* Generated images on disk and on a WebDAV server, with the index file     *)
(* that knows which is where (services/image_storage_service.rs), their     *)
(* thumbnails (services/image_service.rs) and the worker that drops expired *)
(* images and orphaned thumbnails (scheduler.rs). Saving, deleting and      *)
(* synchronising wait for WebDAV without the index lock, and reload the     *)
(* index or do not.                                                         *)
(* Removing a file and writing the index never fail here, one server is     *)
(* configured, and every call finds the settings in any mode.               *)
(***************************************************************************)
EXTENDS FiniteSets

CONSTANTS
  Images,        \* bytes to store; a name holds the hash of the bytes and is used once
  Handled,       \* those that somebody looks at and deletes
  Syncers, Deleters,   \* requests for a synchronisation and for a deletion
  Modes          \* the storage modes the settings take

ASSUME GalleryAssumption ==
  Handled \subseteq Images /\ Modes \subseteq {"local", "webdav", "both", "none"}

VARIABLES
  onDisk,        \* files below the images directory
  onDav,         \* files on the WebDAV server
  imageIndex,    \* image_index.json: the entry of an image, if any, and its webdav flag
  thumbs,        \* cached thumbnails
  saves,         \* image -> where its save stands
  deletion,      \* the image each deletion is at
  sync,          \* the synchronisations at work
  thumbing,      \* images whose bytes were read for a thumbnail
  promised,      \* image -> what the service vouched for (history)
  dropped        \* images whose deletion was confirmed (history)

galleryVars == <<onDisk, onDav, imageIndex, thumbs, saves, deletion, sync, thumbing, promised, dropped>>

Entries == {"absent", "listed", "marked"}      \* marked: webdav is true
NoDeletion == [pc |-> "none"]
Deletions == {NoDeletion} \cup [pc : {"look", "dav", "index", "thumb"}, image : Images, removed : BOOLEAN]

\* A synchronisation: its copy of the index, the files to go, the one on its way.
Syncs == [busy : BOOLEAN, items : [Images -> Entries], todo : SUBSET Images, sending : SUBSET Images]
NoSync == [busy |-> FALSE, items |-> [i \in Images |-> "absent"], todo |-> {}, sending |-> {}]

GalleryTypeOK ==
  /\ onDisk \cup onDav \cup thumbs \cup thumbing \cup dropped \subseteq Images
  /\ imageIndex \in [Images -> Entries]
  /\ saves \in [Images -> {"new", "disk", "put", "index", "over"}]
  /\ deletion \in [Deleters -> Deletions] /\ sync \in [Syncers -> Syncs]
  /\ promised \in [Images -> {"nothing", "disk", "dav", "void"}]

GalleryInit ==
  /\ onDisk = {} /\ onDav = {} /\ thumbs = {} /\ thumbing = {} /\ dropped = {}
  /\ imageIndex = [i \in Images |-> "absent"]
  /\ saves = [i \in Images |-> "new"]
  /\ deletion = [d \in Deleters |-> NoDeletion] /\ sync = [s \in Syncers |-> NoSync]
  /\ promised = [i \in Images |-> "nothing"]

---------------------------------------------------------------------------
(* Reading. *)

\* exists: on disk, or on WebDAV by what the index says.
Exists(i, disk) == i \in disk \/ imageIndex[i] = "marked"

\* get_bytes, which get_image, the downloads and the thumbnails go through.
Serves(i) == i \in onDisk \/ (imageIndex[i] = "marked" /\ i \in onDav)

\* cleanup_old_images: files older than image_retention_days go, and with them
\* what was vouched for on disk only.
Left(old) == onDisk \ old
WithoutExpired(promises, old) ==
  [i \in Images |-> IF i \in old /\ promises[i] = "disk" THEN "nothing" ELSE promises[i]]

\* Mutant: entries without a file go.
ReconciledByFile(disk) ==
  [i \in Images |->
     IF i \notin disk THEN "absent" ELSE IF imageIndex[i] = "marked" THEN "marked" ELSE "listed"]

\* list_items: files without an entry get one, entries without a file and
\* without the webdav flag go.
Reconciled(disk) ==
  [i \in Images |->
     IF imageIndex[i] = "marked" THEN "marked" ELSE IF i \in disk THEN "listed" ELSE "absent"]

\* Mutant: a thumbnail stays as long as its image is in the index.
CleanUnlisted(disk) == thumbs' = {i \in thumbs : i \in disk \/ imageIndex[i] # "absent"}

\* cleanup_image_thumbnails.
CleanThumbnails(disk) == thumbs' = {i \in thumbs : Exists(i, disk)}

---------------------------------------------------------------------------
(* Saving. *)

\* save up to the WebDAV request: expired files go, the file is written if it
\* can be; in mode none nothing is stored.
BeginSave(i) ==
  /\ saves[i] = "new"
  /\ \E mode \in Modes \ {"none"}, old \in SUBSET onDisk :
       /\ \E written \in (IF mode = "webdav" THEN {{}} ELSE {{}, {i}}) :
            onDisk' = Left(old) \cup written
       /\ saves' = [saves EXCEPT ![i] = IF mode = "local" THEN "disk" ELSE "put"]
       /\ promised' = WithoutExpired(promised, old)
  /\ UNCHANGED <<onDav, imageIndex, thumbs, deletion, sync, thumbing, dropped>>

\* put: the directories are made, then the file is sent; a request that fails
\* is logged and the save goes on.
PutImage(i) ==
  /\ saves[i] = "put"
  /\ \/ onDav' = onDav \cup {i} /\ saves' = [saves EXCEPT ![i] = "index"]
     \/ onDav' \in {onDav, onDav \cup {i}} /\ saves' = [saves EXCEPT ![i] = "disk"]
  /\ UNCHANGED <<onDisk, imageIndex, thumbs, deletion, sync, thumbing, promised, dropped>>

\* The copies of the index the synchronisations at work are going to save,
\* those in `but` left aside, have i on WebDAV.
SyncsKeep(i, but) == \A s \in Syncers \ but : sync[s].busy => sync[s].items[i] = "marked"

\* The index is loaded, extended and saved under its lock. A copy on WebDAV is
\* vouched for unless a synchronisation is at work that will save an index
\* without it, or the image was deleted meanwhile; a file on disk lasts until
\* it expires.
InsertEntry(i) ==
  LET dav == saves[i] = "index"
  IN /\ saves[i] \in {"disk", "index"}
     /\ imageIndex' = [imageIndex EXCEPT ![i] = IF dav THEN "marked" ELSE "listed"]
     /\ saves' = [saves EXCEPT ![i] = "over"]
     /\ promised' = [promised EXCEPT ![i] =
          IF @ = "void" THEN "void"
          ELSE IF dav /\ SyncsKeep(i, {}) THEN "dav"
          ELSE IF i \in onDisk THEN "disk" ELSE "nothing"]
     /\ UNCHANGED <<onDisk, onDav, thumbs, deletion, sync, thumbing, dropped>>

\* The client that waits for an answer goes away: the future of the request is
\* dropped where it awaits WebDAV, which may have served it.
SaveDropped(i) ==
  /\ saves[i] = "put"
  /\ onDav' \in {onDav, onDav \cup {i}}
  /\ saves' = [saves EXCEPT ![i] = "over"]
  /\ UNCHANGED <<onDisk, imageIndex, thumbs, deletion, sync, thumbing, promised, dropped>>

---------------------------------------------------------------------------
(* Deleting (delete_images, one image after the other). *)

\* With all_matching the images come from list_items. A save that is not over
\* may already be listed by its file.
BeginDelete(d, i) ==
  /\ i \in Handled /\ deletion[d] = NoDeletion
  /\ saves[i] = "over" \/ i \in onDisk
  /\ imageIndex' \in {imageIndex, Reconciled(onDisk)}
  /\ onDisk' = onDisk \ {i}
  /\ deletion' = [deletion EXCEPT ![d] = [pc |-> "look", image |-> i, removed |-> i \in onDisk]]
  /\ promised' = [promised EXCEPT ![i] = "void"]
  /\ UNCHANGED <<onDav, thumbs, saves, sync, thumbing, dropped>>

DeletionAt(d, pc, i) == deletion[d].pc = pc /\ deletion[d].image = i

\* delete reads under the lock whether WebDAV has the image.
LookUp(d, i) ==
  /\ DeletionAt(d, "look", i)
  /\ deletion' = [deletion EXCEPT ![d].pc = IF imageIndex[i] = "marked" THEN "dav" ELSE "index"]
  /\ UNCHANGED <<onDisk, onDav, imageIndex, thumbs, saves, sync, thumbing, promised, dropped>>

\* A request that fails ends the deletion of all images if there was no file;
\* so does a client that goes away.
DeleteFromDav(d, i) ==
  /\ DeletionAt(d, "dav", i)
  /\ \/ onDav' = onDav \ {i} /\ deletion' = [deletion EXCEPT ![d].pc = "index"]
     \/ /\ onDav' \in {onDav, onDav \ {i}}
        /\ deletion[d].removed /\ deletion' = [deletion EXCEPT ![d].pc = "index"]
     \/ /\ onDav' \in {onDav, onDav \ {i}}
        /\ deletion' = [deletion EXCEPT ![d] = NoDeletion]
  /\ UNCHANGED <<onDisk, imageIndex, thumbs, saves, sync, thumbing, promised, dropped>>

\* Nothing at work can record i on WebDAV again: neither its save, nor a
\* synchronisation that has sent it, is sending it, or found it sent.
NobodyBringsBack(i) ==
  saves[i] = "over" /\ \A s \in Syncers : sync[s].items[i] # "marked" /\ i \notin sync[s].sending

\* Mutant: the entry stays as long as there is a copy on WebDAV.
RemoveEntryWithoutCopy(d, i) ==
  /\ DeletionAt(d, "index", i)
  /\ imageIndex' = [imageIndex EXCEPT ![i] = IF i \in onDav THEN @ ELSE "absent"]
  /\ deletion' = [deletion EXCEPT ![d].pc = "thumb"]
  /\ dropped' = dropped \cup (IF NobodyBringsBack(i) THEN {i} ELSE {})
  /\ UNCHANGED <<onDisk, onDav, thumbs, saves, sync, thumbing, promised>>

\* The answer confirms the deletion whatever is at work meanwhile.
RemoveEntry(d, i) ==
  /\ DeletionAt(d, "index", i)
  /\ imageIndex' = [imageIndex EXCEPT ![i] = "absent"]
  /\ deletion' = [deletion EXCEPT ![d].pc = "thumb"]
  /\ dropped' = dropped \cup (IF NobodyBringsBack(i) THEN {i} ELSE {})
  /\ UNCHANGED <<onDisk, onDav, thumbs, saves, sync, thumbing, promised>>

RemoveThumbnail(d, i) ==
  /\ DeletionAt(d, "thumb", i)
  /\ thumbs' = thumbs \ {i}
  /\ deletion' = [deletion EXCEPT ![d] = NoDeletion]
  /\ UNCHANGED <<onDisk, onDav, imageIndex, saves, sync, thumbing, promised, dropped>>

---------------------------------------------------------------------------
(* sync_all; nothing keeps two of them apart. *)

\* The index is copied under the lock, the files are listed.
BeginSync(s) ==
  /\ ~sync[s].busy /\ Modes \cap {"webdav", "both"} # {}
  /\ sync' = [sync EXCEPT ![s] = [busy |-> TRUE, items |-> imageIndex, todo |-> onDisk, sending |-> {}]]
  /\ UNCHANGED <<onDisk, onDav, imageIndex, thumbs, saves, deletion, thumbing, promised, dropped>>

\* The next file: skipped when marked, failed when it is gone, or read and on
\* its way. The order of the names is left open.
SyncFile(s) ==
  /\ sync[s].sending = {}
  /\ \E i \in sync[s].todo :
       LET sent == IF sync[s].items[i] # "marked" /\ i \in onDisk THEN {i} ELSE {}
       IN sync' = [sync EXCEPT ![s] = [sync[s] EXCEPT !.todo = sync[s].todo \ {i}, !.sending = sent]]
  /\ UNCHANGED <<onDisk, onDav, imageIndex, thumbs, saves, deletion, thumbing, promised, dropped>>

\* WebDAV has it, or the request fails and the next file is tried.
SyncSent(s) ==
  /\ \E i \in sync[s].sending :
       \/ /\ onDav' = onDav \cup {i}
          /\ sync' = [sync EXCEPT ![s] = [sync[s] EXCEPT !.sending = {}, !.items[i] = "marked"]]
       \/ /\ onDav' \in {onDav, onDav \cup {i}}
          /\ sync' = [sync EXCEPT ![s].sending = {}]
  /\ UNCHANGED <<onDisk, imageIndex, thumbs, saves, deletion, thumbing, promised, dropped>>

SyncDropped(s) ==
  /\ \E i \in sync[s].sending : onDav' \in {onDav, onDav \cup {i}}
  /\ sync' = [sync EXCEPT ![s] = NoSync]
  /\ UNCHANGED <<onDisk, imageIndex, thumbs, saves, deletion, thumbing, promised, dropped>>

\* The copy is saved over whatever the index holds by now. What it has on
\* WebDAV, and every other copy still to be saved too, stays there.
SaveSync(s) ==
  /\ sync[s].busy /\ sync[s].todo = {} /\ sync[s].sending = {}
  /\ imageIndex' = sync[s].items
  /\ promised' = [i \in Images |->
       IF promised[i] = "disk" /\ sync[s].items[i] = "marked" /\ SyncsKeep(i, {s})
         THEN "dav" ELSE promised[i]]
  /\ sync' = [sync EXCEPT ![s] = NoSync]
  /\ UNCHANGED <<onDisk, onDav, thumbs, saves, deletion, thumbing, dropped>>

---------------------------------------------------------------------------
(* Thumbnails, the gallery page, the worker, time. *)

\* ensure_thumbnail: the bytes are read, which may take a while, ...
ReadForThumbnail(i) ==
  /\ i \in Handled /\ i \notin thumbs \cup thumbing /\ Serves(i)
  /\ thumbing' = thumbing \cup {i}
  /\ UNCHANGED <<onDisk, onDav, imageIndex, thumbs, saves, deletion, sync, promised, dropped>>

\* ... then the thumbnail is written, or the bytes are no image.
WriteThumbnail(i) ==
  /\ i \in thumbing
  /\ thumbing' = thumbing \ {i}
  /\ thumbs' \in {thumbs, thumbs \cup {i}}
  /\ UNCHANGED <<onDisk, onDav, imageIndex, saves, deletion, sync, promised, dropped>>

\* list_images.
ListImages ==
  \E old \in SUBSET onDisk :
    /\ onDisk' = Left(old)
    /\ promised' = WithoutExpired(promised, old)
    /\ CleanThumbnails(Left(old))
    /\ imageIndex' = Reconciled(Left(old))
    /\ UNCHANGED <<onDav, saves, deletion, sync, thumbing, dropped>>

\* spawn_image_cleanup, every half hour.
CleanUp ==
  \E old \in SUBSET onDisk :
    /\ onDisk' = Left(old)
    /\ promised' = WithoutExpired(promised, old)
    /\ CleanThumbnails(Left(old))
    /\ UNCHANGED <<onDav, imageIndex, saves, deletion, sync, thumbing, dropped>>

\* The process stops wherever it is; main cleans up as it starts.
GalleryRestart ==
  \E old \in SUBSET onDisk :
    /\ onDisk' = Left(old)
    /\ promised' = WithoutExpired(promised, old)
    /\ saves' = [i \in Images |-> IF saves[i] = "new" THEN "new" ELSE "over"]
    /\ deletion' = [d \in Deleters |-> NoDeletion] /\ sync' = [s \in Syncers |-> NoSync]
    /\ thumbing' = {}
    /\ UNCHANGED <<onDav, imageIndex, thumbs, dropped>>

GalleryNext ==
  \/ \E i \in Images :
       \/ BeginSave(i) \/ PutImage(i) \/ InsertEntry(i) \/ SaveDropped(i)
       \/ ReadForThumbnail(i) \/ WriteThumbnail(i)
       \/ \E d \in Deleters :
            \/ BeginDelete(d, i) \/ LookUp(d, i) \/ DeleteFromDav(d, i)
            \/ RemoveEntry(d, i) \/ RemoveThumbnail(d, i)
  \/ \E s \in Syncers :
       BeginSync(s) \/ SyncFile(s) \/ SyncSent(s) \/ SyncDropped(s) \/ SaveSync(s)
  \/ ListImages \/ CleanUp \/ GalleryRestart

GallerySpec == GalleryInit /\ [][GalleryNext]_galleryVars

---------------------------------------------------------------------------
(* Properties. *)

\* What was stored is served until it is deleted: a copy on WebDAV although
\* its file has expired, a file until then; other saves, deletions of other
\* images, listings, failed requests and crashes in between change nothing. Not
\* vouched for is a copy on WebDAV that was recorded while a synchronisation
\* held an index without it (RecordsStay).
SavedImagesServed ==
  \A i \in Images : promised[i] \in {"dav", "disk"} => Serves(i)

\* An image whose deletion was confirmed is not served again, even when WebDAV
\* refused to delete its copy or a failed upload left one there; unless its save
\* was not over, or a synchronisation had it marked or on its way, when its
\* entry was removed: these record it on WebDAV again.
DeletedImagesGone == \A i \in dropped : ~Serves(i)

\* "Every stored image is recorded in `image_index.json` so listing/cleanup can
\* reconcile the on-disk tree with the remote store": the record that an image
\* is on WebDAV goes only with the image. It also goes when a synchronisation
\* saves the copy of the index it took before the image was stored.
RecordsStay ==
  [][\A i \in Images : imageIndex[i] = "marked" /\ imageIndex'[i] # "marked"
       => \E d \in Deleters : deletion[d] # NoDeletion /\ deletion[d].image = i]_galleryVars

\* A thumbnail of an image that is neither on disk nor recorded on WebDAV goes,
\* also one that was written after its image was deleted.
ThumbnailsGo ==
  \A i \in Handled :
    (i \in thumbs /\ i \notin onDisk /\ imageIndex[i] # "marked")
      ~> (i \notin thumbs \/ i \in onDisk \/ imageIndex[i] = "marked")

=============================================================================
