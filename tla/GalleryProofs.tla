--------------------------- MODULE GalleryProofs ---------------------------
(***************************************************************************)
(* Proofs about Gallery: what was vouched for is served, and what was       *)
(* deleted is not.                                                          *)
(***************************************************************************)
EXTENDS Gallery, TLAPS

\* A promise is made by a save that ended; one of a file holds as long as the
\* file is there; one of a copy on WebDAV needs the index and every copy of the
\* index that a synchronisation is going to save.
Promises ==
  \A i \in Images :
    /\ promised[i] \in {"disk", "dav"} => saves[i] = "over"
    /\ promised[i] = "disk" => i \in onDisk
    /\ promised[i] = "dav" =>
         imageIndex[i] = "marked" /\ SyncsKeep(i, {})

\* Only a deletion takes a copy from WebDAV, and it voids the promise first.
Copies ==
  /\ \A i \in Images :
       promised[i] # "void" =>
         /\ saves[i] = "index" => i \in onDav
         /\ imageIndex[i] = "marked" => i \in onDav
         /\ \A s \in Syncers : sync[s].items[i] = "marked" => i \in onDav
  /\ \A d \in Deleters : deletion[d] # NoDeletion => promised[deletion[d].image] = "void"

\* What is gone was saved to the end: nothing is at work that could bring it back.
GoneForGood ==
  /\ \A i \in Images : saves[i] = "new" => i \notin onDisk
  /\ \A d \in Deleters :
       deletion[d] # NoDeletion => deletion[d].image \notin onDisk /\ saves[deletion[d].image] # "new"
  /\ \A i \in dropped : i \notin onDisk /\ imageIndex[i] # "marked" /\ NobodyBringsBack(i)

GalleryInv == GalleryTypeOK /\ Promises /\ Copies /\ GoneForGood

---------------------------------------------------------------------------
(* Deletions and synchronisations, changed field by field. *)

LEMMA DeletionMoves ==
  ASSUME NEW d \in Deletions, d # NoDeletion, NEW pc \in {"dav", "index", "thumb"}
  PROVE  /\ [d EXCEPT !.pc = pc] \in Deletions /\ [d EXCEPT !.pc = pc].image = d.image
         /\ [d EXCEPT !.pc = pc] # NoDeletion /\ d.image \in Images
<1>1. d \in [pc : {"look", "dav", "index", "thumb"}, image : Images, removed : BOOLEAN]
  BY DEF Deletions
<1>2. [d EXCEPT !.pc = pc] \in [pc : {"look", "dav", "index", "thumb"}, image : Images, removed : BOOLEAN]
  BY <1>1
<1>3. [d EXCEPT !.pc = pc].pc = pc /\ [d EXCEPT !.pc = pc].image = d.image
  BY <1>1
<1>4. NoDeletion.pc = "none"
  BY DEF NoDeletion
<1> QED BY <1>1, <1>2, <1>3, <1>4 DEF Deletions

LEMMA DeletionAtWork ==
  ASSUME GalleryTypeOK, NEW pc \in {"look", "dav", "index", "thumb"},
         NEW d \in Deleters, NEW i, DeletionAt(d, pc, i)
  PROVE  deletion[d] # NoDeletion /\ deletion[d].image = i /\ deletion[d] \in Deletions
<1>1. NoDeletion.pc = "none"
  BY DEF NoDeletion
<1> QED BY <1>1 DEF DeletionAt, GalleryTypeOK

\* The images deletions are at are images, and so are those dropped.
LEMMA AtImages ==
  ASSUME GalleryTypeOK
  PROVE  /\ dropped \subseteq Images
         /\ \A d \in Deleters : deletion[d] # NoDeletion => deletion[d].image \in Images
<1>1. \A d \in Deleters : deletion[d] \in Deletions
  BY DEF GalleryTypeOK
<1> QED BY <1>1 DEF GalleryTypeOK, Deletions

---------------------------------------------------------------------------
(* The steps preserve the invariant. *)

\* Files expire, and the promises that rest on them with them; the promise of a
\* copy on WebDAV is not touched.
LEMMA Expiry ==
  ASSUME GalleryTypeOK, NEW old \in SUBSET onDisk
  PROVE  /\ WithoutExpired(promised, old) \in [Images -> {"nothing", "disk", "dav", "void"}]
         /\ \A i \in Images :
              /\ WithoutExpired(promised, old)[i] = "void" <=> promised[i] = "void"
              /\ WithoutExpired(promised, old)[i] = "dav" <=> promised[i] = "dav"
              /\ WithoutExpired(promised, old)[i] = "disk" => promised[i] = "disk" /\ i \notin old
         /\ Left(old) \subseteq onDisk /\ \A i \in onDisk : i \in Left(old) <=> i \notin old
  BY DEF GalleryTypeOK, WithoutExpired, Left

LEMMA BeginSaveInv == ASSUME GalleryInv, NEW i \in Images, BeginSave(i) PROVE GalleryInv'
<1>1. PICK mode \in Modes \ {"none"}, old \in SUBSET onDisk :
        /\ \E written \in (IF mode = "webdav" THEN {{}} ELSE {{}, {i}}) :
             onDisk' = Left(old) \cup written
        /\ saves' = [saves EXCEPT ![i] = IF mode = "local" THEN "disk" ELSE "put"]
        /\ promised' = WithoutExpired(promised, old)
  BY DEF BeginSave
<1>2. PICK written \in {{}, {i}} : onDisk' = Left(old) \cup written
  BY <1>1
<1>3. saves[i] = "new" /\ UNCHANGED <<onDav, imageIndex, thumbs, deletion, sync, thumbing, dropped>>
  BY DEF BeginSave
<1>4. GalleryTypeOK /\ Promises /\ Copies /\ GoneForGood
  BY DEF GalleryInv
<1>5. /\ promised' \in [Images -> {"nothing", "disk", "dav", "void"}]
      /\ \A j \in Images :
           /\ promised'[j] = "void" <=> promised[j] = "void"
           /\ promised'[j] = "dav" <=> promised[j] = "dav"
           /\ promised'[j] = "disk" => promised[j] = "disk" /\ j \notin old
      /\ Left(old) \subseteq onDisk /\ \A j \in onDisk : j \in Left(old) <=> j \notin old
  BY <1>1, <1>4, Expiry
<1>6. /\ saves'[i] \in {"disk", "put"} /\ \A j \in Images \ {i} : saves'[j] = saves[j]
      /\ saves' \in [Images -> {"new", "disk", "put", "index", "over"}]
  BY <1>1, <1>4 DEF GalleryTypeOK
<1>7. GalleryTypeOK'
  BY <1>2, <1>3, <1>4, <1>5, <1>6 DEF GalleryTypeOK
<1>8. Promises'
  BY <1>2, <1>3, <1>4, <1>5, <1>6 DEF Promises, SyncsKeep
<1>9. Copies'
  <2> QED BY <1>3, <1>4, <1>5, <1>6, AtImages DEF Copies
<1>10. GoneForGood'
  <2>1. \A j \in Images \ {i} : j \in onDisk' => j \in onDisk
    BY <1>2, <1>5
  <2> QED BY <1>3, <1>4, <1>6, <2>1, AtImages DEF GoneForGood, NobodyBringsBack
<1> QED BY <1>7, <1>8, <1>9, <1>10 DEF GalleryInv

\* A request to WebDAV ends for the image being saved.
LEMMA PutEnds ==
  ASSUME GalleryInv, NEW i \in Images, saves[i] = "put", onDav' \in {onDav, onDav \cup {i}},
         NEW where \in {"index", "disk", "over"}, saves' = [saves EXCEPT ![i] = where],
         where = "index" => i \in onDav',
         UNCHANGED <<onDisk, imageIndex, thumbs, deletion, sync, thumbing, promised, dropped>>
  PROVE  GalleryInv'
<1>1. GalleryTypeOK /\ Promises /\ Copies /\ GoneForGood
  BY DEF GalleryInv
<1>2. /\ saves'[i] = where /\ \A j \in Images \ {i} : saves'[j] = saves[j]
      /\ saves' \in [Images -> {"new", "disk", "put", "index", "over"}]
  BY <1>1 DEF GalleryTypeOK
<1>3. onDav \subseteq onDav' /\ onDav' \subseteq Images
  BY <1>1 DEF GalleryTypeOK
<1>4. GalleryTypeOK'
  BY <1>1, <1>2, <1>3 DEF GalleryTypeOK
<1>5. Promises'
  BY <1>1, <1>2 DEF Promises, SyncsKeep
<1>6. Copies'
  BY <1>1, <1>2, <1>3, AtImages DEF Copies
<1>7. GoneForGood'
  BY <1>1, <1>2, AtImages DEF GoneForGood, NobodyBringsBack
<1> QED BY <1>4, <1>5, <1>6, <1>7 DEF GalleryInv

LEMMA PutImageInv == ASSUME GalleryInv, NEW i \in Images, PutImage(i) PROVE GalleryInv'
<1>1. CASE onDav' = onDav \cup {i} /\ saves' = [saves EXCEPT ![i] = "index"]
  BY <1>1, PutEnds DEF PutImage
<1>2. CASE onDav' \in {onDav, onDav \cup {i}} /\ saves' = [saves EXCEPT ![i] = "disk"]
  BY <1>2, PutEnds DEF PutImage
<1> QED BY <1>1, <1>2 DEF PutImage

LEMMA SaveDroppedInv == ASSUME GalleryInv, NEW i \in Images, SaveDropped(i) PROVE GalleryInv'
  BY PutEnds DEF SaveDropped

LEMMA InsertEntryInv == ASSUME GalleryInv, NEW i \in Images, InsertEntry(i) PROVE GalleryInv'
<1> DEFINE dav == saves[i] = "index"
<1>1. /\ saves[i] \in {"disk", "index"}
      /\ imageIndex' = [imageIndex EXCEPT ![i] = IF dav THEN "marked" ELSE "listed"]
      /\ saves' = [saves EXCEPT ![i] = "over"]
      /\ promised' = [promised EXCEPT ![i] =
           IF promised[i] = "void" THEN "void"
           ELSE IF dav /\ SyncsKeep(i, {}) THEN "dav"
           ELSE IF i \in onDisk THEN "disk" ELSE "nothing"]
      /\ UNCHANGED <<onDisk, onDav, thumbs, deletion, sync, thumbing, dropped>>
  BY DEF InsertEntry
<1>2. GalleryTypeOK /\ Promises /\ Copies /\ GoneForGood
  BY DEF GalleryInv
<1>3. /\ imageIndex'[i] = IF dav THEN "marked" ELSE "listed"
      /\ saves'[i] = "over"
      /\ promised'[i] = IF promised[i] = "void" THEN "void"
                        ELSE IF dav /\ SyncsKeep(i, {}) THEN "dav"
                        ELSE IF i \in onDisk THEN "disk" ELSE "nothing"
      /\ \A j \in Images \ {i} :
           imageIndex'[j] = imageIndex[j] /\ saves'[j] = saves[j] /\ promised'[j] = promised[j]
  BY <1>1, <1>2 DEF GalleryTypeOK
<1>4. i \notin dropped
  BY <1>1, <1>2 DEF GoneForGood, NobodyBringsBack
<1>5. GalleryTypeOK'
  BY <1>1, <1>2 DEF GalleryTypeOK, Entries
<1>6. Promises'
  <2>1. \A j \in Images : SyncsKeep(j, {})' <=> SyncsKeep(j, {})
    BY <1>1 DEF SyncsKeep
  <2> QED BY <1>1, <1>2, <1>3, <2>1 DEF Promises
<1>7. Copies'
  BY <1>1, <1>2, <1>3, AtImages DEF Copies
<1>8. GoneForGood'
  BY <1>1, <1>2, <1>3, <1>4, AtImages DEF GoneForGood, NobodyBringsBack
<1> QED BY <1>5, <1>6, <1>7, <1>8 DEF GalleryInv

\* list_items and the routes behind it change entries that are not marked.
LEMMA ReconciledFacts ==
  ASSUME NEW disk
  PROVE  /\ Reconciled(disk) \in [Images -> Entries]
         /\ \A i \in Images : Reconciled(disk)[i] = "marked" <=> imageIndex[i] = "marked"
  BY DEF Reconciled, Entries

LEMMA BeginDeleteInv ==
  ASSUME GalleryInv, NEW d \in Deleters, NEW i \in Images, BeginDelete(d, i) PROVE GalleryInv'
<1> DEFINE e == [pc |-> "look", image |-> i, removed |-> i \in onDisk]
<1>1. /\ saves[i] = "over" \/ i \in onDisk
      /\ imageIndex' \in {imageIndex, Reconciled(onDisk)}
      /\ onDisk' = onDisk \ {i}
      /\ deletion' = [deletion EXCEPT ![d] = e]
      /\ promised' = [promised EXCEPT ![i] = "void"]
      /\ UNCHANGED <<onDav, thumbs, saves, sync, thumbing, dropped>>
  BY DEF BeginDelete
<1>2. GalleryTypeOK /\ Promises /\ Copies /\ GoneForGood
  BY DEF GalleryInv
<1>3. /\ imageIndex' \in [Images -> Entries]
      /\ \A j \in Images : imageIndex'[j] = "marked" <=> imageIndex[j] = "marked"
  BY <1>1, <1>2, ReconciledFacts DEF GalleryTypeOK
<1>4. /\ promised' \in [Images -> {"nothing", "disk", "dav", "void"}]
      /\ promised'[i] = "void" /\ \A j \in Images \ {i} : promised'[j] = promised[j]
  BY <1>1, <1>2 DEF GalleryTypeOK
<1>5. e \in Deletions /\ e.image = i
  BY DEF Deletions
<1> HIDE DEF e
<1>6. /\ deletion' \in [Deleters -> Deletions] /\ deletion'[d] = e
      /\ \A f \in Deleters \ {d} : deletion'[f] = deletion[f]
  BY <1>1, <1>2, <1>5 DEF GalleryTypeOK
<1>7. GalleryTypeOK'
  BY <1>1, <1>2, <1>3, <1>4, <1>6 DEF GalleryTypeOK
<1>8. Promises'
  <2>1. \A j \in Images : SyncsKeep(j, {})' <=> SyncsKeep(j, {})
    BY <1>1 DEF SyncsKeep
  <2> QED BY <1>1, <1>2, <1>3, <1>4, <2>1 DEF Promises
<1>9. Copies'
  <2>1. \A f \in Deleters : deletion'[f] # NoDeletion => promised'[deletion'[f].image] = "void"
    BY <1>2, <1>4, <1>5, <1>6, AtImages DEF Copies
  <2>2. \A j \in Images :
          promised'[j] # "void" =>
            /\ saves'[j] = "index" => j \in onDav'
            /\ imageIndex'[j] = "marked" => j \in onDav'
            /\ \A s \in Syncers : sync'[s].items[j] = "marked" => j \in onDav'
    BY <1>1, <1>2, <1>3, <1>4 DEF Copies
  <2> QED BY <2>1, <2>2 DEF Copies
<1>10. GoneForGood'
  <2>1. saves[i] # "new"
    BY <1>1, <1>2 DEF GoneForGood
  <2>2. \A f \in Deleters :
          deletion'[f] # NoDeletion => deletion'[f].image \notin onDisk' /\ saves'[deletion'[f].image] # "new"
    BY <1>1, <1>2, <1>5, <1>6, <2>1 DEF GoneForGood
  <2>3. \A j \in Images : saves'[j] = "new" => j \notin onDisk'
    BY <1>1, <1>2 DEF GoneForGood
  <2>4. \A j \in dropped' : j \notin onDisk' /\ imageIndex'[j] # "marked" /\ NobodyBringsBack(j)'
    BY <1>1, <1>2, <1>3, AtImages DEF GoneForGood, NobodyBringsBack
  <2> QED BY <2>2, <2>3, <2>4 DEF GoneForGood
<1> QED BY <1>7, <1>8, <1>9, <1>10 DEF GalleryInv

\* A deletion at work moves on, or gives up, and leaves the rest alone.
LEMMA DeletionGoesOn ==
  ASSUME GalleryInv, NEW d \in Deleters, NEW i \in Images,
         deletion[d] # NoDeletion, deletion[d].image = i,
         NEW pc \in {"dav", "index", "thumb"},
         NEW e \in {NoDeletion, [deletion[d] EXCEPT !.pc = pc]},
         deletion' = [deletion EXCEPT ![d] = e],
         onDav' \in {onDav, onDav \ {i}},
         UNCHANGED <<onDisk, imageIndex, saves, sync, thumbing, promised, dropped>>,
         thumbs' \subseteq thumbs
  PROVE  GalleryInv'
<1>1. GalleryTypeOK /\ Promises /\ Copies /\ GoneForGood
  BY DEF GalleryInv
<1>2. e \in Deletions /\ (e # NoDeletion => e.image = i)
  <2>1. deletion[d] \in Deletions /\ NoDeletion \in Deletions
    BY <1>1 DEF GalleryTypeOK, Deletions
  <2>2. [deletion[d] EXCEPT !.pc = pc] \in Deletions /\ [deletion[d] EXCEPT !.pc = pc].image = i
    BY <2>1, DeletionMoves
  <2> QED BY <2>1, <2>2
<1>3. /\ deletion' \in [Deleters -> Deletions] /\ deletion'[d] = e
      /\ \A f \in Deleters \ {d} : deletion'[f] = deletion[f]
  BY <1>1, <1>2 DEF GalleryTypeOK
<1>4. \A f \in Deleters :
        deletion'[f] # NoDeletion => deletion[f] # NoDeletion /\ deletion'[f].image = deletion[f].image
  BY <1>2, <1>3
<1>5. GalleryTypeOK'
  BY <1>1, <1>3 DEF GalleryTypeOK
<1>6. Promises'
  BY <1>1 DEF Promises, SyncsKeep
<1>7. Copies'
  <2>1. promised[i] = "void"
    BY <1>1 DEF Copies
  <2> QED BY <1>1, <1>4, <2>1, AtImages DEF Copies
<1>8. GoneForGood'
  BY <1>1, <1>4, AtImages DEF GoneForGood, NobodyBringsBack
<1> QED BY <1>5, <1>6, <1>7, <1>8 DEF GalleryInv

LEMMA LookUpInv ==
  ASSUME GalleryInv, NEW d \in Deleters, NEW i \in Images, LookUp(d, i) PROVE GalleryInv'
<1>1. /\ deletion[d] # NoDeletion /\ deletion[d].image = i
      /\ UNCHANGED <<onDisk, onDav, imageIndex, thumbs, saves, sync, thumbing, promised, dropped>>
  BY DeletionAtWork DEF LookUp, GalleryInv
<1>2. PICK pc \in {"dav", "index", "thumb"} :
        deletion' = [deletion EXCEPT ![d] = [deletion[d] EXCEPT !.pc = pc]]
  BY DEF LookUp
<1> QED BY <1>1, <1>2, DeletionGoesOn

LEMMA DeleteFromDavInv ==
  ASSUME GalleryInv, NEW d \in Deleters, NEW i \in Images, DeleteFromDav(d, i) PROVE GalleryInv'
<1>1. deletion[d] # NoDeletion /\ deletion[d].image = i
  BY DeletionAtWork DEF DeleteFromDav, GalleryInv
<1>2. PICK e \in {NoDeletion, [deletion[d] EXCEPT !.pc = "index"]} :
        deletion' = [deletion EXCEPT ![d] = e]
  BY DEF DeleteFromDav
<1>3. /\ onDav' \in {onDav, onDav \ {i}}
      /\ UNCHANGED <<onDisk, imageIndex, thumbs, saves, sync, thumbing, promised, dropped>>
  BY DEF DeleteFromDav
<1> QED BY <1>1, <1>2, <1>3, DeletionGoesOn

LEMMA RemoveThumbnailInv ==
  ASSUME GalleryInv, NEW d \in Deleters, NEW i \in Images, RemoveThumbnail(d, i) PROVE GalleryInv'
<1>1. deletion[d] # NoDeletion /\ deletion[d].image = i
  BY DeletionAtWork DEF RemoveThumbnail, GalleryInv
<1>2. /\ deletion' = [deletion EXCEPT ![d] = NoDeletion] /\ thumbs' \subseteq thumbs
      /\ UNCHANGED <<onDisk, onDav, imageIndex, saves, sync, thumbing, promised, dropped>>
  BY DEF RemoveThumbnail
<1> QED BY <1>1, <1>2, DeletionGoesOn

LEMMA RemoveEntryInv ==
  ASSUME GalleryInv, NEW d \in Deleters, NEW i \in Images, RemoveEntry(d, i) PROVE GalleryInv'
<1> DEFINE e == [deletion[d] EXCEPT !.pc = "thumb"]
<1>1. /\ imageIndex' = [imageIndex EXCEPT ![i] = "absent"]
      /\ deletion' = [deletion EXCEPT ![d] = e]
      /\ dropped' = dropped \cup (IF NobodyBringsBack(i) THEN {i} ELSE {})
      /\ UNCHANGED <<onDisk, onDav, thumbs, saves, sync, thumbing, promised>>
  BY DEF RemoveEntry
<1>2. deletion[d] # NoDeletion /\ deletion[d].image = i
  BY DeletionAtWork DEF RemoveEntry, GalleryInv
<1>3. GalleryTypeOK /\ Promises /\ Copies /\ GoneForGood
  BY DEF GalleryInv
<1>4. e \in Deletions /\ e.image = i
  BY <1>2, <1>3, DeletionMoves DEF GalleryTypeOK
<1> HIDE DEF e
<1>5. /\ deletion' \in [Deleters -> Deletions] /\ deletion'[d] = e
      /\ \A f \in Deleters \ {d} : deletion'[f] = deletion[f]
  BY <1>1, <1>3, <1>4 DEF GalleryTypeOK
<1>6. /\ imageIndex' \in [Images -> Entries] /\ imageIndex'[i] = "absent"
      /\ \A j \in Images \ {i} : imageIndex'[j] = imageIndex[j]
  BY <1>1, <1>3 DEF GalleryTypeOK, Entries
<1>7. promised[i] = "void" /\ i \notin onDisk /\ saves[i] # "new"
  BY <1>2, <1>3 DEF Copies, GoneForGood
<1>8. /\ dropped' \subseteq Images
      /\ \A j \in dropped' : j \in dropped \/ (j = i /\ NobodyBringsBack(i))
  BY <1>1, <1>3 DEF GalleryTypeOK
<1>9. GalleryTypeOK'
  BY <1>1, <1>3, <1>5, <1>6, <1>8 DEF GalleryTypeOK
<1>10. Promises'
  <2>1. \A j \in Images : SyncsKeep(j, {})' <=> SyncsKeep(j, {})
    BY <1>1 DEF SyncsKeep
  <2> QED BY <1>1, <1>3, <1>6, <1>7, <2>1 DEF Promises
<1>11. Copies'
  <2>1. \A f \in Deleters : deletion'[f] # NoDeletion => promised'[deletion'[f].image] = "void"
    BY <1>1, <1>3, <1>4, <1>5, <1>7 DEF Copies
  <2> QED BY <1>1, <1>3, <1>6, <1>7, <2>1 DEF Copies
<1>12. GoneForGood'
  <2>1. \A f \in Deleters :
          deletion'[f] # NoDeletion => deletion'[f].image \notin onDisk' /\ saves'[deletion'[f].image] # "new"
    BY <1>1, <1>3, <1>4, <1>5, <1>7 DEF GoneForGood
  <2>2. \A j : NobodyBringsBack(j)' <=> NobodyBringsBack(j)
    BY <1>1 DEF NobodyBringsBack
  <2> QED BY <1>1, <1>3, <1>6, <1>7, <1>8, <2>1, <2>2, AtImages DEF GoneForGood
<1> QED BY <1>9, <1>10, <1>11, <1>12 DEF GalleryInv

---------------------------------------------------------------------------
(* Synchronisations. *)

LEMMA NoSyncType == NoSync \in Syncs
  BY DEF NoSync, Syncs, Entries

\* One synchronisation moves on. It keeps every promise of a copy on WebDAV
\* while it is at work, marks what is on WebDAV, and has nothing that is gone.
LEMMA SyncMoves ==
  ASSUME GalleryInv, NEW s \in Syncers, NEW x \in Syncs, sync' = [sync EXCEPT ![s] = x],
         onDav \subseteq onDav', onDav' \subseteq Images,
         UNCHANGED <<onDisk, imageIndex, thumbs, saves, deletion, thumbing, promised, dropped>>,
         \A i \in Images : promised[i] = "dav" /\ x.busy => x.items[i] = "marked",
         \A i \in Images : promised[i] # "void" /\ x.items[i] = "marked" => i \in onDav',
         \A i \in dropped : x.items[i] # "marked" /\ i \notin x.sending
  PROVE  GalleryInv'
<1>1. GalleryTypeOK /\ Promises /\ Copies /\ GoneForGood
  BY DEF GalleryInv
<1>2. /\ sync' \in [Syncers -> Syncs] /\ sync'[s] = x
      /\ \A t \in Syncers \ {s} : sync'[t] = sync[t]
  BY <1>1 DEF GalleryTypeOK
<1>3. GalleryTypeOK'
  BY <1>1, <1>2 DEF GalleryTypeOK
<1>4. Promises'
  <2>1. \A i \in Images : promised[i] = "dav" => SyncsKeep(i, {})'
    BY <1>1, <1>2 DEF SyncsKeep, Promises
  <2> QED BY <1>1, <2>1 DEF Promises
<1>5. Copies'
  BY <1>1, <1>2, AtImages DEF Copies
<1>6. GoneForGood'
  BY <1>1, <1>2, AtImages DEF GoneForGood, NobodyBringsBack
<1> QED BY <1>3, <1>4, <1>5, <1>6 DEF GalleryInv

\* What a synchronisation at work has is in order, whichever it is.
LEMMA SyncFacts ==
  ASSUME GalleryInv, NEW s \in Syncers
  PROVE  /\ sync[s] \in Syncs /\ sync[s].items \in [Images -> Entries]
         /\ sync[s].todo \subseteq Images /\ sync[s].sending \subseteq Images
         /\ \A i \in Images : promised[i] = "dav" /\ sync[s].busy => sync[s].items[i] = "marked"
         /\ \A i \in Images : promised[i] # "void" /\ sync[s].items[i] = "marked" => i \in onDav
         /\ \A i \in dropped : sync[s].items[i] # "marked" /\ i \notin sync[s].sending /\ i \notin onDisk
<1>1. sync[s] \in Syncs
  BY DEF GalleryInv, GalleryTypeOK
<1>2. /\ sync[s].items \in [Images -> Entries]
      /\ sync[s].todo \subseteq Images /\ sync[s].sending \subseteq Images
  BY <1>1 DEF Syncs
<1> QED BY <1>1, <1>2 DEF GalleryInv, Promises, SyncsKeep, Copies, GoneForGood, NobodyBringsBack

LEMMA BeginSyncInv == ASSUME GalleryInv, NEW s \in Syncers, BeginSync(s) PROVE GalleryInv'
<1> DEFINE x == [busy |-> TRUE, items |-> imageIndex, todo |-> onDisk, sending |-> {}]
<1>1. /\ sync' = [sync EXCEPT ![s] = x]
      /\ UNCHANGED <<onDisk, onDav, imageIndex, thumbs, saves, deletion, thumbing, promised, dropped>>
  BY DEF BeginSync
<1>2. x \in Syncs /\ x.items = imageIndex /\ x.sending = {} /\ onDav \subseteq Images
  BY DEF Syncs, GalleryInv, GalleryTypeOK
<1> HIDE DEF x
<1>3. /\ \A i \in Images : promised[i] = "dav" => imageIndex[i] = "marked"
      /\ \A i \in Images : promised[i] # "void" /\ imageIndex[i] = "marked" => i \in onDav
      /\ \A i \in dropped : imageIndex[i] # "marked"
  BY DEF GalleryInv, Promises, Copies, GoneForGood
<1> QED BY <1>1, <1>2, <1>3, SyncMoves

LEMMA SyncFileInv == ASSUME GalleryInv, NEW s \in Syncers, SyncFile(s) PROVE GalleryInv'
<1>1. PICK i \in sync[s].todo :
        LET sent == IF sync[s].items[i] # "marked" /\ i \in onDisk THEN {i} ELSE {}
        IN sync' = [sync EXCEPT ![s] = [sync[s] EXCEPT !.todo = sync[s].todo \ {i}, !.sending = sent]]
  BY DEF SyncFile
<1> DEFINE sent == IF sync[s].items[i] # "marked" /\ i \in onDisk THEN {i} ELSE {}
           x == [sync[s] EXCEPT !.todo = sync[s].todo \ {i}, !.sending = sent]
<1>2. /\ sync' = [sync EXCEPT ![s] = x]
      /\ UNCHANGED <<onDisk, onDav, imageIndex, thumbs, saves, deletion, thumbing, promised, dropped>>
  BY <1>1 DEF SyncFile
<1>3. sent \subseteq onDisk /\ sent \subseteq Images /\ onDav \subseteq Images
  BY SyncFacts DEF GalleryInv, GalleryTypeOK
<1> HIDE DEF sent
<1>4. x \in Syncs /\ x.items = sync[s].items /\ x.sending = sent /\ x.busy = sync[s].busy
  BY <1>3, SyncFacts DEF Syncs
<1> HIDE DEF x
<1> QED BY <1>2, <1>3, <1>4, SyncFacts, SyncMoves

LEMMA SyncSentInv == ASSUME GalleryInv, NEW s \in Syncers, SyncSent(s) PROVE GalleryInv'
<1>1. PICK i \in sync[s].sending :
        \/ /\ onDav' = onDav \cup {i}
           /\ sync' = [sync EXCEPT ![s] = [sync[s] EXCEPT !.sending = {}, !.items[i] = "marked"]]
        \/ /\ onDav' \in {onDav, onDav \cup {i}}
           /\ sync' = [sync EXCEPT ![s] = [sync[s] EXCEPT !.sending = {}]]
  BY DEF SyncSent
<1>2. UNCHANGED <<onDisk, imageIndex, thumbs, saves, deletion, thumbing, promised, dropped>>
  BY DEF SyncSent
<1>3. i \in Images /\ i \notin dropped /\ onDav \subseteq Images
  BY SyncFacts DEF GalleryInv, GalleryTypeOK
<1>4. CASE /\ onDav' = onDav \cup {i}
           /\ sync' = [sync EXCEPT ![s] = [sync[s] EXCEPT !.sending = {}, !.items[i] = "marked"]]
  <2> DEFINE items == [sync[s].items EXCEPT ![i] = "marked"]
             x == [sync[s] EXCEPT !.sending = {}, !.items = items]
  <2>1. /\ items \in [Images -> Entries] /\ items[i] = "marked"
        /\ \A j \in Images \ {i} : items[j] = sync[s].items[j]
    BY <1>3, SyncFacts DEF Entries
  <2>2. sync' = [sync EXCEPT ![s] = x]
    <3>1. x = [sync[s] EXCEPT !.sending = {}, !.items[i] = "marked"]
      BY SyncFacts DEF Syncs
    <3> QED BY <1>4, <3>1
  <2> HIDE DEF items
  <2>3. x.items = items /\ x.sending = {} /\ x.busy = sync[s].busy /\ x \in Syncs
    BY <2>1, SyncFacts DEF Syncs
  <2> HIDE DEF x
  <2>4. \A j \in dropped : j \in Images
    BY AtImages DEF GalleryInv
  <2>5. /\ \A j \in Images : promised[j] = "dav" /\ x.busy => x.items[j] = "marked"
        /\ \A j \in Images : promised[j] # "void" /\ x.items[j] = "marked" => j \in onDav'
        /\ \A j \in dropped : x.items[j] # "marked" /\ j \notin x.sending
    BY <1>3, <1>4, <2>1, <2>3, <2>4, SyncFacts
  <2>6. onDav \subseteq onDav' /\ onDav' \subseteq Images
    BY <1>3, <1>4
  <2> QED BY <1>2, <2>2, <2>3, <2>5, <2>6, SyncMoves
<1>5. CASE /\ onDav' \in {onDav, onDav \cup {i}}
           /\ sync' = [sync EXCEPT ![s] = [sync[s] EXCEPT !.sending = {}]]
  <2> DEFINE x == [sync[s] EXCEPT !.sending = {}]
  <2>1. x.items = sync[s].items /\ x.sending = {} /\ x.busy = sync[s].busy /\ x \in Syncs
    BY SyncFacts DEF Syncs
  <2>2. sync' = [sync EXCEPT ![s] = x]
    BY <1>5
  <2> HIDE DEF x
  <2>3. /\ \A j \in Images : promised[j] = "dav" /\ x.busy => x.items[j] = "marked"
        /\ \A j \in Images : promised[j] # "void" /\ x.items[j] = "marked" => j \in onDav'
        /\ \A j \in dropped : x.items[j] # "marked" /\ j \notin x.sending
    BY <1>5, <2>1, SyncFacts
  <2>4. onDav \subseteq onDav' /\ onDav' \subseteq Images
    BY <1>3, <1>5
  <2> QED BY <1>2, <2>1, <2>2, <2>3, <2>4, SyncMoves
<1> QED BY <1>1, <1>4, <1>5

LEMMA SyncDroppedInv == ASSUME GalleryInv, NEW s \in Syncers, SyncDropped(s) PROVE GalleryInv'
<1>1. PICK i \in sync[s].sending : onDav' \in {onDav, onDav \cup {i}}
  BY DEF SyncDropped
<1>2. /\ sync' = [sync EXCEPT ![s] = NoSync]
      /\ UNCHANGED <<onDisk, imageIndex, thumbs, saves, deletion, thumbing, promised, dropped>>
  BY DEF SyncDropped
<1>3. i \in Images /\ onDav \subseteq Images /\ dropped \subseteq Images
  BY SyncFacts DEF GalleryInv, GalleryTypeOK
<1>4. ~NoSync.busy /\ NoSync.sending = {} /\ \A j \in Images : NoSync.items[j] # "marked"
  BY DEF NoSync
<1> QED BY <1>1, <1>2, <1>3, <1>4, NoSyncType, SyncMoves

LEMMA SaveSyncInv == ASSUME GalleryInv, NEW s \in Syncers, SaveSync(s) PROVE GalleryInv'
<1>1. /\ sync[s].busy /\ imageIndex' = sync[s].items /\ sync' = [sync EXCEPT ![s] = NoSync]
      /\ promised' = [i \in Images |->
           IF promised[i] = "disk" /\ sync[s].items[i] = "marked" /\ SyncsKeep(i, {s})
             THEN "dav" ELSE promised[i]]
      /\ UNCHANGED <<onDisk, onDav, thumbs, saves, deletion, thumbing, dropped>>
  BY DEF SaveSync
<1>2. GalleryTypeOK /\ Promises /\ Copies /\ GoneForGood
  BY DEF GalleryInv
<1>3. /\ sync' \in [Syncers -> Syncs] /\ sync'[s] = NoSync
      /\ \A t \in Syncers \ {s} : sync'[t] = sync[t]
  BY <1>1, <1>2, NoSyncType DEF GalleryTypeOK
<1>4. ~NoSync.busy /\ NoSync.sending = {} /\ \A j \in Images : NoSync.items[j] # "marked"
  BY DEF NoSync
<1>5. /\ promised' \in [Images -> {"nothing", "disk", "dav", "void"}]
      /\ \A i \in Images :
           /\ promised'[i] = "void" <=> promised[i] = "void"
           /\ promised'[i] \in {"disk", "dav"} => promised[i] \in {"disk", "dav"}
           /\ promised'[i] = "disk" => promised[i] = "disk"
           /\ promised'[i] = "dav" /\ promised[i] # "dav" =>
                sync[s].items[i] = "marked" /\ SyncsKeep(i, {s})
  BY <1>1, <1>2 DEF GalleryTypeOK
<1>6. GalleryTypeOK'
  BY <1>1, <1>2, <1>3, <1>5, SyncFacts DEF GalleryTypeOK
<1>7. Promises'
  <2>1. \A i \in Images : promised'[i] = "dav" => SyncsKeep(i, {s}) /\ sync[s].items[i] = "marked"
    BY <1>1, <1>2, <1>5 DEF Promises, SyncsKeep
  <2>2. \A i \in Images : SyncsKeep(i, {s}) => SyncsKeep(i, {})'
    BY <1>3, <1>4 DEF SyncsKeep
  <2> QED BY <1>1, <1>2, <1>5, <2>1, <2>2 DEF Promises
<1>8. Copies'
  <2>1. \A d \in Deleters : deletion'[d] # NoDeletion => promised'[deletion'[d].image] = "void"
    BY <1>1, <1>2, <1>5, AtImages DEF Copies
  <2> QED BY <1>1, <1>2, <1>3, <1>4, <1>5, <2>1 DEF Copies
<1>9. GoneForGood'
  <2>1. \A i \in dropped : NobodyBringsBack(i)'
    BY <1>1, <1>2, <1>3, <1>4, AtImages DEF GoneForGood, NobodyBringsBack
  <2>2. \A i \in dropped : imageIndex'[i] # "marked"
    BY <1>1, SyncFacts
  <2> QED BY <1>1, <1>2, <2>1, <2>2 DEF GoneForGood
<1> QED BY <1>6, <1>7, <1>8, <1>9 DEF GalleryInv

\* Files expire and the index is reconciled with those that are left, or the
\* process stops: nothing is promised or brought back.
LEMMA PassingTime ==
  ASSUME GalleryInv, NEW old \in SUBSET onDisk,
         onDisk' = Left(old), promised' = WithoutExpired(promised, old),
         UNCHANGED <<onDav, dropped>>,
         thumbs' \subseteq thumbs, thumbing' \subseteq thumbing,
         imageIndex' \in [Images -> Entries],
         \A i \in Images : imageIndex'[i] = "marked" <=> imageIndex[i] = "marked",
         deletion' \in {deletion, [d \in Deleters |-> NoDeletion]},
         sync' \in {sync, [s \in Syncers |-> NoSync]},
         saves' \in {saves, [i \in Images |-> IF saves[i] = "new" THEN "new" ELSE "over"]}
  PROVE  GalleryInv'
<1>1. GalleryTypeOK /\ Promises /\ Copies /\ GoneForGood
  BY DEF GalleryInv
<1>2. /\ promised' \in [Images -> {"nothing", "disk", "dav", "void"}]
      /\ \A j \in Images :
           /\ promised'[j] = "void" <=> promised[j] = "void"
           /\ promised'[j] = "dav" <=> promised[j] = "dav"
           /\ promised'[j] = "disk" => promised[j] = "disk" /\ j \notin old
      /\ onDisk' \subseteq onDisk /\ \A j \in onDisk : j \in onDisk' <=> j \notin old
  BY <1>1, Expiry
<1>3. \A i \in Images :
        /\ saves'[i] = "new" <=> saves[i] = "new"
        /\ saves[i] = "over" => saves'[i] = "over"
        /\ saves'[i] = "index" => saves[i] = "index"
  BY <1>1 DEF GalleryTypeOK
<1>4. saves' \in [Images -> {"new", "disk", "put", "index", "over"}]
  BY <1>1 DEF GalleryTypeOK
<1>5. \A s \in Syncers :
        /\ sync'[s].busy => sync'[s] = sync[s]
        /\ sync'[s].items = sync[s].items \/ \A i \in Images : sync'[s].items[i] # "marked"
        /\ sync'[s].sending = sync[s].sending \/ sync'[s].sending = {}
  <2>1. ~NoSync.busy /\ NoSync.sending = {} /\ \A i \in Images : NoSync.items[i] # "marked"
    BY DEF NoSync
  <2>2. \A s \in Syncers : sync'[s] = sync[s] \/ sync'[s] = NoSync
    OBVIOUS
  <2> QED BY <2>1, <2>2
<1>6. \A d \in Deleters : deletion'[d] # NoDeletion => deletion'[d] = deletion[d]
  OBVIOUS
<1>7. GalleryTypeOK'
  <2>1. deletion' \in [Deleters -> Deletions] /\ sync' \in [Syncers -> Syncs]
    BY <1>1, NoSyncType DEF GalleryTypeOK, Deletions
  <2> QED BY <1>1, <1>2, <1>4, <2>1 DEF GalleryTypeOK
<1>8. Promises'
  <2>1. \A i \in Images : SyncsKeep(i, {}) => SyncsKeep(i, {})'
    BY <1>5 DEF SyncsKeep
  <2> QED BY <1>1, <1>2, <1>3, <2>1 DEF Promises
<1>9. Copies'
  BY <1>1, <1>2, <1>3, <1>5, <1>6, AtImages DEF Copies
<1>10. GoneForGood'
  <2>1. \A i \in Images : NobodyBringsBack(i) => NobodyBringsBack(i)'
    BY <1>3, <1>5 DEF NobodyBringsBack
  <2> QED BY <1>1, <1>2, <1>3, <1>6, <2>1, AtImages DEF GoneForGood
<1> QED BY <1>7, <1>8, <1>9, <1>10 DEF GalleryInv

LEMMA ListImagesInv == ASSUME GalleryInv, ListImages PROVE GalleryInv'
<1>1. PICK old \in SUBSET onDisk :
        /\ onDisk' = Left(old) /\ promised' = WithoutExpired(promised, old)
        /\ CleanThumbnails(Left(old)) /\ imageIndex' = Reconciled(Left(old))
        /\ UNCHANGED <<onDav, saves, deletion, sync, thumbing, dropped>>
  BY DEF ListImages
<1>2. thumbs' \subseteq thumbs
  BY <1>1 DEF CleanThumbnails
<1>3. /\ imageIndex' \in [Images -> Entries]
      /\ \A i \in Images : imageIndex'[i] = "marked" <=> imageIndex[i] = "marked"
  BY <1>1, ReconciledFacts
<1> QED BY <1>1, <1>2, <1>3, PassingTime

LEMMA CleanUpInv == ASSUME GalleryInv, CleanUp PROVE GalleryInv'
<1>1. PICK old \in SUBSET onDisk :
        /\ onDisk' = Left(old) /\ promised' = WithoutExpired(promised, old)
        /\ CleanThumbnails(Left(old))
        /\ UNCHANGED <<onDav, imageIndex, saves, deletion, sync, thumbing, dropped>>
  BY DEF CleanUp
<1>2. thumbs' \subseteq thumbs
  BY <1>1 DEF CleanThumbnails
<1>3. imageIndex' \in [Images -> Entries]
  BY <1>1 DEF GalleryInv, GalleryTypeOK
<1> QED BY <1>1, <1>2, <1>3, PassingTime

LEMMA GalleryRestartInv == ASSUME GalleryInv, GalleryRestart PROVE GalleryInv'
<1>1. PICK old \in SUBSET onDisk :
        /\ onDisk' = Left(old) /\ promised' = WithoutExpired(promised, old)
        /\ saves' = [i \in Images |-> IF saves[i] = "new" THEN "new" ELSE "over"]
        /\ deletion' = [d \in Deleters |-> NoDeletion] /\ sync' = [s \in Syncers |-> NoSync]
        /\ thumbing' = {}
        /\ UNCHANGED <<onDav, imageIndex, thumbs, dropped>>
  BY DEF GalleryRestart
<1>2. imageIndex' \in [Images -> Entries]
  BY <1>1 DEF GalleryInv, GalleryTypeOK
<1> QED BY <1>1, <1>2, PassingTime

---------------------------------------------------------------------------
(* The theorems. *)

LEMMA GalleryInvInit == GalleryInit => GalleryInv
  BY NoSyncType DEF GalleryInit, GalleryInv, GalleryTypeOK, Promises, Copies, GoneForGood, Entries,
     Deletions, NoSync

LEMMA GalleryInvNext == GalleryInv /\ [GalleryNext]_galleryVars => GalleryInv'
<1> SUFFICES ASSUME GalleryInv, [GalleryNext]_galleryVars PROVE GalleryInv'
  OBVIOUS
<1>1. ASSUME NEW i \in Images, BeginSave(i) \/ PutImage(i) \/ InsertEntry(i) \/ SaveDropped(i)
      PROVE  GalleryInv'
  BY <1>1, BeginSaveInv, PutImageInv, InsertEntryInv, SaveDroppedInv
<1>2. ASSUME NEW i \in Images, ReadForThumbnail(i) \/ WriteThumbnail(i) PROVE GalleryInv'
  <2>1. /\ thumbs' \subseteq thumbs \cup {i} /\ thumbing' \subseteq thumbing \cup {i}
        /\ UNCHANGED <<onDisk, onDav, imageIndex, saves, deletion, sync, promised, dropped>>
    BY <1>2 DEF ReadForThumbnail, WriteThumbnail
  <2>2. GalleryTypeOK'
    BY <2>1 DEF GalleryInv, GalleryTypeOK
  <2> QED BY <2>1, <2>2 DEF GalleryInv, Promises, Copies, GoneForGood, SyncsKeep, NobodyBringsBack
<1>3. ASSUME NEW i \in Images, NEW d \in Deleters,
             \/ BeginDelete(d, i) \/ LookUp(d, i) \/ DeleteFromDav(d, i)
             \/ RemoveEntry(d, i) \/ RemoveThumbnail(d, i)
      PROVE  GalleryInv'
  BY <1>3, BeginDeleteInv, LookUpInv, DeleteFromDavInv, RemoveEntryInv, RemoveThumbnailInv
<1>4. ASSUME NEW s \in Syncers,
             BeginSync(s) \/ SyncFile(s) \/ SyncSent(s) \/ SyncDropped(s) \/ SaveSync(s)
      PROVE  GalleryInv'
  BY <1>4, BeginSyncInv, SyncFileInv, SyncSentInv, SyncDroppedInv, SaveSyncInv
<1>5. CASE ListImages \/ CleanUp \/ GalleryRestart
  BY <1>5, ListImagesInv, CleanUpInv, GalleryRestartInv
<1>6. CASE UNCHANGED galleryVars
  BY <1>6 DEF galleryVars, GalleryInv, GalleryTypeOK, Promises, Copies, GoneForGood,
              SyncsKeep, NobodyBringsBack
<1> QED BY <1>1, <1>2, <1>3, <1>4, <1>5, <1>6 DEF GalleryNext

\* What the invariant says of the two promises.
LEMMA GalleryPromises == GalleryInv => SavedImagesServed /\ DeletedImagesGone
<1>1. GalleryInv => SavedImagesServed
  BY DEF GalleryInv, Promises, Copies, SavedImagesServed, Serves
<1>2. GalleryInv => DeletedImagesGone
  BY DEF GalleryInv, GoneForGood, DeletedImagesGone, Serves
<1> QED BY <1>1, <1>2

\* Whatever saves, deletions, synchronisations, listings and restarts are
\* interleaved, and however many of them, an image on WebDAV that every index
\* about to be saved records is served until it is deleted, and a file that was
\* saved until it expires.
THEOREM SavedImagesHold == GallerySpec => [](GalleryTypeOK /\ SavedImagesServed)
<1>1. GalleryInv => GalleryTypeOK
  BY DEF GalleryInv
<1> QED BY <1>1, GalleryPromises, GalleryInvInit, GalleryInvNext, PTL DEF GallerySpec

\* Under the same interleavings an image is not served again once its entry was
\* removed while its save was over and no synchronisation had it marked or on
\* its way.
THEOREM DeletedImagesHold == GallerySpec => []DeletedImagesGone
BY GalleryPromises, GalleryInvInit, GalleryInvNext, PTL DEF GallerySpec
=============================================================================
