------------------------------- MODULE Files --------------------------------
(***************************************************************************)
(* Uploaded files and the rows that name them: the attachments of requests,*)
(* surveys and work orders, and the avatar of a vendor.                    *)
(*                                                                         *)
(* Storage takes no part in the database's transactions: a file is there   *)
(* once it is written and gone once it is unlinked, whether or not the     *)
(* handler goes on to commit.  The three attachment services take the same *)
(* steps; who may take them, and while the parent is in which status, is   *)
(* left out.  The backend's other way to files, /storage, writes no rows,  *)
(* and the profile's image may also be given in words, as any text.        *)
(***************************************************************************)

CONSTANTS
  Files,    \* bound: files in use, by the name storage gives them
  NoFile,   \* there is none
  Calls     \* bound: handlers in flight at once

VARIABLES
  stored,         \* the files in storage
  rows,           \* the attachments rows, by file: what they are for
  profileImage,   \* the file the vendor's profile shows
  given,          \* auxiliary: the profile's image was given in words
  loose,          \* history: files a failed call, or /storage, has left behind
  calls           \* what each handler has done and holds

vars == <<stored, rows, profileImage, given, loose, calls>>

Avatars == {f \in Files : rows[f] = "avatar"}

\* A handler has its operation, the last step it took, its own file, and for
\* an avatar's upload the file of the avatar it replaces.
CallStates ==
  [ op       : {"none", "attach", "detach", "avatar", "remove"},
    at       : {"read", "stored", "picked", "unlinked"},
    file     : Files \cup {NoFile},
    previous : Files \cup {NoFile} ]

NoCall == [ op |-> "none", at |-> "read", file |-> NoFile, previous |-> NoFile ]

\* One type invariant.
TypeOK ==
  /\ stored \subseteq Files
  /\ rows \in [Files -> {"none", "attachment", "avatar"}]
  /\ profileImage \in Files \cup {NoFile}
  /\ given \in BOOLEAN
  /\ loose \subseteq Files
  /\ calls \in [Calls -> CallStates]

Init ==
  /\ stored = {}
  /\ rows = [f \in Files |-> "none"]
  /\ profileImage = NoFile
  /\ given = FALSE
  /\ loose = {}
  /\ calls = [c \in Calls |-> NoCall]

-----------------------------------------------------------------------------
Idle(c) == calls[c].op = "none"
Finish(c) == calls' = [calls EXCEPT ![c] = NoCall]
Held(c) == {calls[c].file, calls[c].previous} \ {NoFile}

\* A UUID nothing refers to.
Unused(f) ==
  /\ f \notin stored /\ rows[f] = "none"
  /\ \A c \in Calls : f \notin Held(c)

\* uploadAttachment and uploadAvatar write the file before anything else.
StoreFile(c, op, f) ==
  /\ Idle(c)
  /\ Unused(f)
  /\ stored' = stored \cup {f}
  /\ loose' = loose \ {f}
  /\ calls' = [calls EXCEPT ![c] =
                 [ op |-> op, at |-> "stored", file |-> f, previous |-> NoFile ]]
  /\ UNCHANGED <<rows, profileImage, given>>

CreateAttachment(c) ==
  /\ calls[c].op = "attach"
  /\ rows' = [rows EXCEPT ![calls[c].file] = "attachment"]
  /\ Finish(c)
  /\ UNCHANGED <<stored, profileImage, given, loose>>

\* deleteAttachment and deleteAvatar find the row (for an avatar, any)...
ReadForDelete(c, f) ==
  /\ Idle(c)
  /\ rows[f] # "none"
  /\ calls' = [calls EXCEPT ![c] =
                 [ op |-> IF rows[f] = "avatar" THEN "remove" ELSE "detach",
                   at |-> "read", file |-> f, previous |-> NoFile ]]
  /\ UNCHANGED <<stored, rows, profileImage, given, loose>>

\* ... unlink the file, which the provider may fail to do without saying so ...
Unlink(c, f) ==
  /\ calls' = [calls EXCEPT ![c] =
                 [ op |-> @.op, at |-> "unlinked", file |-> @.file,
                   previous |-> @.previous ]]
  /\ \/ stored' = stored \ {f} /\ UNCHANGED loose
     \/ UNCHANGED stored /\ loose' = loose \cup {f}
  /\ UNCHANGED <<rows, profileImage, given>>

UnlinkDeleted(c) ==
  /\ calls[c].op \in {"detach", "remove"} /\ calls[c].at = "read"
  /\ Unlink(c, calls[c].file)

\* ... and delete the row, which fails if another call has deleted it.
RowKept(f) == rows
WithoutRow(f) == [g \in Files |-> IF g = f THEN "none" ELSE rows[g]]

RowOnly(image) == image
ProfileToo(image) == NoFile

DeleteRow(c) ==
  LET f == calls[c].file
  IN /\ calls[c].op \in {"detach", "remove"} /\ calls[c].at = "unlinked"
     /\ rows[f] # "none"
     /\ rows' = WithoutRow(f)
     /\ profileImage' =
          IF calls[c].op = "remove" THEN ProfileToo(profileImage) ELSE profileImage
     /\ given' = (given /\ calls[c].op # "remove")
     /\ Finish(c)
     /\ UNCHANGED <<stored, loose>>

\* The transaction of uploadAvatar: the avatar so far, any if there are several,
PickPrevious(c) ==
  /\ calls[c].op = "avatar" /\ calls[c].at = "stored"
  /\ \E previous \in IF Avatars = {} THEN {NoFile} ELSE Avatars :
       calls' = [calls EXCEPT ![c] =
                   [ op       |-> "avatar",
                     at       |-> IF previous = NoFile THEN "unlinked" ELSE "picked",
                     file     |-> @.file,
                     previous |-> previous ]]
  /\ UNCHANGED <<stored, rows, profileImage, given, loose>>

\* ... whose file goes at once,
UnlinkPrevious(c) ==
  /\ calls[c].op = "avatar" /\ calls[c].at = "picked"
  /\ Unlink(c, calls[c].previous)

\* ... and whose row goes with the commit, if no other call has deleted it.
CommitAvatar(c) ==
  LET call == calls[c]
  IN /\ call.op = "avatar" /\ call.at = "unlinked"
     /\ call.previous # NoFile => rows[call.previous] # "none"
     /\ rows' = [WithoutRow(call.previous) EXCEPT ![call.file] = "avatar"]
     /\ profileImage' = call.file
     /\ given' = FALSE
     /\ Finish(c)
     /\ UNCHANGED <<stored, loose>>

\* A handler ends without its last write; what it has done to files stays.
Fail(c) ==
  /\ ~Idle(c)
  /\ loose' = loose \cup
       (IF calls[c].op \in {"attach", "avatar"} THEN {calls[c].file} ELSE {})
         \cup (IF calls[c].at = "unlinked" THEN Held(c) ELSE {})
  /\ Finish(c)
  /\ UNCHANGED <<stored, rows, profileImage, given>>

-----------------------------------------------------------------------------
\* UploadService writes the new file and then unlinks the one it is told to
\* replace; an administrator deletes any.
StorageUpload(f, old) ==
  /\ Unused(f) /\ old # f
  /\ stored' = (stored \cup {f}) \ {old}
  /\ loose' = loose \cup ({f, old} \ {NoFile})
  /\ UNCHANGED <<rows, profileImage, given, calls>>

StorageDelete(f) ==
  /\ f \in stored
  /\ stored' = stored \ {f}
  /\ loose' = loose \cup {f}
  /\ UNCHANGED <<rows, profileImage, given, calls>>

\* updateVendorProfile takes the image as it is given, or takes it away; text
\* that names none of the files is like no image.
updateVendorProfile(image) ==
  /\ profileImage' = image
  /\ given' = TRUE
  /\ UNCHANGED <<stored, rows, loose, calls>>

FileStep(c) ==
  \/ \E f \in Files :
       StoreFile(c, "attach", f) \/ StoreFile(c, "avatar", f) \/ ReadForDelete(c, f)
  \/ CreateAttachment(c) \/ UnlinkDeleted(c) \/ DeleteRow(c)
  \/ PickPrevious(c) \/ UnlinkPrevious(c) \/ CommitAvatar(c)
  \/ Fail(c)

Storage ==
  \E f \in Files :
    \/ \E old \in Files \cup {NoFile} : StorageUpload(f, old)
    \/ StorageDelete(f)

Next ==
  \/ \E c \in Calls : FileStep(c)
  \/ Storage
  \/ \E image \in Files \cup {NoFile} : updateVendorProfile(image)

Spec == Init /\ [][Next]_vars

-----------------------------------------------------------------------------
\* Every file in storage has a row and every row its file, but for those a call
\* in flight is working on and those a failure has left behind: two deletions
\* of one file, or an upload and a deletion, do no harm to each other's.
FilesMatchRows ==
  \A f \in Files \ loose :
    (f \in stored) # (rows[f] # "none") => \E c \in Calls : f \in Held(c)

\* The profile shows an avatar the database still has, however uploads and
\* deletions overlap, unless its image was given in words since.
ImageHasAvatar ==
  profileImage # NoFile /\ ~given => rows[profileImage] = "avatar"

=============================================================================
