-------------------------------- MODULE Api ---------------------------------
(***************************************************************************)
(* The HTTP API as far as roles and files go: the routes of api/router.rs  *)
(* that need a token, in front of Accounts and Files.  Binaries are        *)
(* uploaded with the token of an administrator and downloaded by anybody;  *)
(* the files of a job are uploaded by its owner.                           *)
(***************************************************************************)
EXTENDS Accounts, Files

CONSTANTS OwnerOf,    \* the user whose job a job file belongs to
          MaxUploads  \* bound on the uploads

(* A connection has one request at a time, of either kind. *)
ASSUME OneRequest == User = Client
ASSUME UploadsAssumption == MaxUploads \in Nat

VARIABLES uploads     \* counts them

vars == <<accountVars, fileVars, uploads>>

Init == AccountsInit /\ FilesInit /\ uploads = 0

Idle(c) == req[c] = NoRequest /\ transfer[c] = NoTransfer

MayUpload(t, f) == IF f \in JobFile THEN t.sub = OwnerOf[f] ELSE IsAdmin(t)

(* A token that is valid when the request comes in. *)
UploadFile(u, t, f, v) ==
    /\ up /\ Idle(u) /\ t \in tokens /\ MayUpload(t, f)
    /\ uploads < MaxUploads /\ uploads' = uploads + 1
    /\ BeginUpload(u, f, v)
    /\ UNCHANGED accountVars

DownloadWorker(u, f) == /\ up /\ Idle(u) /\ f \notin JobFile
                        /\ OpenForReading(u, f)
                        /\ UNCHANGED <<accountVars, uploads>>

(* The master stops in the middle of everything. *)
Stop == /\ StopMaster
        /\ transfer' = [u \in User |-> NoTransfer]
        /\ torn' = torn \cup {f \in File : Uploading(f) # {}}
        /\ UNCHANGED <<content, rows, uploads>>

Next == \/ Stop
        \/ /\ RequestStep
           /\ \A c \in Client : transfer[c] # NoTransfer => req'[c] = NoRequest
           /\ UNCHANGED <<fileVars, uploads>>
        \/ BootstrapAdmin /\ UNCHANGED <<fileVars, uploads>>
        \/ \E u \in User :
             \/ \E f \in File : \/ DownloadWorker(u, f)
                                \/ \E t \in tokens, v \in Version : UploadFile(u, t, f, v)
             \/ TransferStep(u) /\ UNCHANGED <<accountVars, uploads>>

Spec == Init /\ [][Next]_vars

-----------------------------------------------------------------------------
(* The types; a connection is busy with one request at a time, and with    *)
(* none when the master is down.                                           *)
TypeOK == /\ AccountsTypeOK /\ FilesTypeOK /\ uploads \in 0..MaxUploads
          /\ \A c \in Client : /\ ~up => Idle(c)
                               /\ req[c] = NoRequest \/ transfer[c] = NoTransfer
=============================================================================
