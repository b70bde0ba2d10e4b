--------------------------------- MODULE Media ---------------------------------
(***************************************************************************)
(* The media library: images that Cloudinary keeps, and the rows of the    *)
(* media table that name them.  An upload stores the image and then its    *)
(* row, and takes the image back if the row fails; a deletion destroys the *)
(* image and then its row.  Nothing makes the two one.                     *)
(***************************************************************************)
EXTENDS Naturals, FiniteSets

CONSTANTS
    Writers, Editors,       \* who asks; an editor may delete everybody's
    MaxUploads,             \* bound on uploads
    MaxDeletes,             \* bound on deletions
    MaxFaults               \* bound on failures

MediaAssumption ==
    /\ Writers \cap Editors = {}
    /\ MaxUploads \in Nat /\ MaxDeletes \in Nat /\ MaxFaults \in Nat

Images == 1..MaxUploads

VARIABLES
    assets,         \* images that Cloudinary keeps
    media,          \* the media table: who uploaded the image of each row
    requests,       \* requests between two awaits
    uploads,        \* uploads so far
    deletes,        \* deletions so far
    faults,         \* failures so far
    hit,            \* history: <<image, what failed about it>>
    deleted         \* history: images whose deletion was answered with success

vars == <<assets, media, requests, uploads, deletes, faults, hit, deleted>>

Rows == [image : Images, by : Writers \cup Editors]

\* upload, create, undo: what an upload does next; destroy, drop: a deletion.
Requests == [id : Nat, image : Images, by : Writers \cup Editors,
             pc : {"upload", "create", "undo", "destroy", "drop"}]

TypeOK ==
    /\ assets \subseteq Images /\ media \subseteq Rows /\ requests \subseteq Requests
    /\ uploads \in 0..MaxUploads /\ deletes \in 0..MaxDeletes
    /\ faults \in 0..MaxFaults /\ deleted \subseteq Images
    /\ hit \subseteq Images \X {"upload", "create", "undo", "destroy", "drop", "crash"}

Init ==
    /\ assets = {} /\ media = {} /\ requests = {} /\ uploads = 0 /\ deletes = 0
    /\ faults = 0 /\ hit = {} /\ deleted = {}

Listed(i) == \E r \in media : r.image = i

\* Request q fails where it is.
Fault(q) ==
    /\ faults < MaxFaults
    /\ faults' = faults + 1
    /\ hit' = hit \cup {<<q.image, q.pc>>}
    /\ UNCHANGED deleted

NoFault == UNCHANGED <<faults, hit>>

Goes(q, pc) == requests' = (requests \ {q}) \cup {[q EXCEPT !.pc = pc]}

Ends(q) == requests' = requests \ {q}

-------------------------------------------------------------------------------
(* uploadMedia *)

Upload(u) ==
    /\ uploads < MaxUploads
    /\ uploads' = uploads + 1
    /\ requests' = requests \cup {[id |-> uploads + deletes, image |-> uploads + 1, by |-> u,
                                   pc |-> "upload"]}
    /\ UNCHANGED <<assets, media, deletes, deleted>> /\ NoFault

Stored(q) ==
    /\ q.pc = "upload"
    /\ assets' = assets \cup {q.image} /\ Goes(q, "create")
    /\ UNCHANGED <<media, uploads, deletes, deleted>> /\ NoFault

\* Cloudinary fails, before or after it has the image: nobody knows its name.
UploadFails(q) ==
    /\ q.pc = "upload" /\ Fault(q)
    /\ assets' \in {assets, assets \cup {q.image}} /\ Ends(q)
    /\ UNCHANGED <<media, uploads, deletes>>

Created(q) ==
    /\ q.pc = "create"
    /\ media' = media \cup {[image |-> q.image, by |-> q.by]} /\ Ends(q)
    /\ UNCHANGED <<assets, uploads, deletes, deleted>> /\ NoFault

\* Mutant: the image is left when its row fails.
CreateFailsOnly(q) ==
    /\ q.pc = "create" /\ Fault(q)
    /\ media' \in {media, media \cup {[image |-> q.image, by |-> q.by]}} /\ Ends(q)
    /\ UNCHANGED <<assets, uploads, deletes>>

\* The database fails, before or after it has the row: the image is taken back.
CreateFails(q) ==
    /\ q.pc = "create" /\ Fault(q)
    /\ media' \in {media, media \cup {[image |-> q.image, by |-> q.by]}} /\ Goes(q, "undo")
    /\ UNCHANGED <<assets, uploads, deletes>>

\* Best effort: a failure is swallowed.
Undo(q) ==
    /\ q.pc = "undo"
    /\ assets' = assets \ {q.image} /\ Ends(q)
    /\ UNCHANGED <<media, uploads, deletes, deleted>> /\ NoFault

UndoFails(q) ==
    /\ q.pc = "undo" /\ Fault(q) /\ Ends(q)
    /\ UNCHANGED <<assets, media, uploads, deletes>>

-------------------------------------------------------------------------------
(* deleteMedia *)

Delete(u, r) ==
    /\ deletes < MaxDeletes
    /\ r \in media /\ u \in Editors \cup {r.by}
    /\ deletes' = deletes + 1
    /\ requests' = requests \cup {[id |-> uploads + deletes, image |-> r.image, by |-> u,
                                   pc |-> "destroy"]}
    /\ UNCHANGED <<assets, media, uploads, deleted>> /\ NoFault

\* Cloudinary answers "not found" for one that is gone already, which is no error.
Destroy(q) ==
    /\ q.pc = "destroy"
    /\ assets' = assets \ {q.image} /\ Goes(q, "drop")
    /\ UNCHANGED <<media, uploads, deletes, deleted>> /\ NoFault

DestroyFails(q) ==
    /\ q.pc = "destroy" /\ Fault(q) /\ Ends(q)
    /\ assets' \in {assets, assets \ {q.image}}
    /\ UNCHANGED <<media, uploads, deletes>>

\* An error, if the row is gone.
Drop(q) ==
    /\ q.pc = "drop"
    /\ media' = {r \in media : r.image # q.image} /\ Ends(q)
    /\ deleted' = IF Listed(q.image) THEN deleted \cup {q.image} ELSE deleted
    /\ UNCHANGED <<assets, uploads, deletes>> /\ NoFault

DropFails(q) ==
    /\ q.pc = "drop" /\ Fault(q) /\ Ends(q)
    /\ UNCHANGED <<assets, media, uploads, deletes>>

\* The process ends: so do its requests.
Crash ==
    /\ requests # {} /\ faults < MaxFaults
    /\ requests' = {} /\ faults' = faults + 1
    /\ hit' = hit \cup {<<q.image, "crash">> : q \in requests}
    /\ UNCHANGED <<assets, media, uploads, deletes, deleted>>

Next ==
    \/ \E u \in Writers \cup Editors : Upload(u) \/ \E r \in media : Delete(u, r)
    \/ \E q \in requests :
        \/ Stored(q) \/ UploadFails(q) \/ Created(q) \/ CreateFails(q) \/ Undo(q) \/ UndoFails(q)
        \/ Destroy(q) \/ DestroyFails(q) \/ Drop(q) \/ DropFails(q)
    \/ Crash

Spec == Init /\ [][Next]_vars

-------------------------------------------------------------------------------
(* Properties *)

InProgress(i) == \E q \in requests : q.image = i

Hit(i, what) == \E w \in what : <<i, w>> \in hit

\* An image without a row is one whose upload is in progress, whose upload or compensation
\* failed as well, or that a crash left: a failure of its row alone leaves none ("don't leave
\* an orphaned asset in Cloudinary", studio.service.ts:221).  A row without an image is one
\* of a request in progress or of one that failed.  Deletions may overlap.  After one that
\* succeeded neither is ever there again ("Permanently deletes the asset from Cloudinary and
\* the media record", studio.service.ts:242).
RowsAndImagesMatch ==
    /\ \A i \in assets : Listed(i) \/ InProgress(i) \/ Hit(i, {"upload", "undo", "crash"})
    /\ \A r \in media : \/ r.image \in assets \/ InProgress(r.image)
                        \/ Hit(r.image, {"create", "destroy", "drop", "crash"})
    /\ \A i \in deleted : i \notin assets /\ ~Listed(i)
===============================================================================
