------------------------------ MODULE Account -------------------------------
(***************************************************************************)
(* What a user keeps besides requests and documents: a customer's          *)
(* addresses, and uploaded files.  The handlers of the one never touch the *)
(* other, so a behaviour is one of the two.                                *)
(***************************************************************************)
EXTENDS Addresses

CONSTANTS Files, NoFile, FileCalls   \* those of Files

ASSUME NoFileAssumption == NoFile \notin Files

VARIABLES
  stored, rows, profileImage, given, loose, fileCalls,   \* those of Files
  subject                                                \* the behaviour is about

Uploads == INSTANCE Files WITH Calls <- FileCalls, calls <- fileCalls

fileVars == <<stored, rows, profileImage, given, loose, fileCalls>>
accountVars == <<vars, fileVars, subject>>

\* One type invariant for both.
AccountTypeOK ==
  /\ TypeOK
  /\ Uploads!TypeOK
  /\ subject \in {"addresses", "files"}

AccountInit == Init /\ Uploads!Init /\ subject \in {"addresses", "files"}

AccountNext ==
  \/ subject = "addresses" /\ Next /\ UNCHANGED <<fileVars, subject>>
  \/ subject = "files" /\ Uploads!Next /\ UNCHANGED <<vars, subject>>

AccountSpec == AccountInit /\ [][AccountNext]_accountVars

-----------------------------------------------------------------------------
\* What Files says: files and rows match, but for those being worked on or left
\* behind by a failure,
FilesMatchRows == Uploads!FilesMatchRows

\* and the image an upload gave the profile is an avatar the database has.
ImageHasAvatar == Uploads!ImageHasAvatar

=============================================================================
