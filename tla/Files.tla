------------------------------- MODULE Files --------------------------------
(***************************************************************************)
(* Files that are uploaded over HTTP and kept on the master's disk: the    *)
(* worker binaries (upload_worker_binary, download_worker) and the files   *)
(* of jobs (upload_job_file, which also records a row with the hash).      *)
(* tokio::fs::write truncates the file and writes it in place; a download  *)
(* opens the file, asks for the size by name, and reads to the end.  So a  *)
(* file is a sequence of blocks, each from some version of its content.    *)
(***************************************************************************)
EXTENDS Integers, Sequences

CONSTANTS File,
          JobFile,   \* those with rows in job_files
          Version,   \* contents that are uploaded
          Size,      \* the number of blocks of a version
          User,      \* connections that upload or download
          NoTransfer, NoFile

VARIABLES content,   \* the blocks on disk, or NoFile
          rows,      \* the versions (hashes) recorded in job_files
          transfer,  \* the upload or download of a connection
          torn       \* history: files that failed or overlapping uploads have touched since

fileVars == <<content, rows, transfer, torn>>

Hole == "hole"    \* a block that was skipped
Block == Version \cup {Hole}
Whole(v) == [i \in 1..Size[v] |-> v]

Upload == [op : {"upload"}, file : File, version : Version, step : {"open", "write", "row"}, done : Nat]
Download == [op : {"download"}, file : File, step : {"stat", "read", "sent"}, size : Nat,
             body : Seq(Block), clean : BOOLEAN]

ASSUME FilesAssumption ==
    /\ JobFile \subseteq File
    /\ Size \in [Version -> Nat]
    /\ NoTransfer \notin Upload \cup Download
    /\ NoFile \notin Seq(Block)

FilesInit == /\ content = [f \in File |-> NoFile]
             /\ rows = [f \in File |-> <<>>]
             /\ transfer = [u \in User |-> NoTransfer]
             /\ torn = {}

FilesTypeOK == /\ content \in [File -> Seq(Block) \cup {NoFile}]
               /\ rows \in [File -> Seq(Version)]
               /\ transfer \in [User -> Upload \cup Download \cup {NoTransfer}]
               /\ torn \subseteq File

Does(u, op, step) == transfer[u] # NoTransfer /\ transfer[u].op = op /\ transfer[u].step = step
Uploading(f) == {u \in User : transfer[u] # NoTransfer /\ transfer[u].op = "upload" /\ transfer[u].file = f}
Close(u) == transfer' = [transfer EXCEPT ![u] = NoTransfer]

(* Who reads the file while it is written has not got it for sure. *)
Disturb(f) == [w \in User |-> IF transfer[w] # NoTransfer /\ transfer[w].op = "download"
                                   /\ transfer[w].file = f /\ transfer[w].step # "sent"
                                THEN [transfer[w] EXCEPT !.clean = FALSE] ELSE transfer[w]]

-----------------------------------------------------------------------------
(* The body has been received; the directory exists or is created. *)
BeginUpload(u, f, v) ==
    /\ transfer[u] = NoTransfer
    /\ transfer' = [Disturb(f) EXCEPT ![u] = [op |-> "upload", file |-> f, version |-> v,
                                              step |-> "open", done |-> 0]]
    /\ torn' = IF Uploading(f) = {} THEN torn \ {f} ELSE torn \cup {f}
    /\ UNCHANGED <<content, rows>>

(* Mutant: the old content is not cut off. *)
NoTruncate(f) == [content EXCEPT ![f] = IF @ = NoFile THEN <<>> ELSE @]

Truncate(f) == [content EXCEPT ![f] = <<>>]

OpenForWriting(u) == /\ Does(u, "upload", "open")
                     /\ content' = Truncate(transfer[u].file)
                     /\ transfer' = [transfer EXCEPT ![u].step = "write"]
                     /\ UNCHANGED <<rows, torn>>

(* A write at an offset, which another upload may have cut off. *)
PutBlock(s, i, v) == [k \in 1..(IF Len(s) < i THEN i ELSE Len(s)) |->
                        IF k = i THEN v ELSE IF k <= Len(s) THEN s[k] ELSE Hole]

WriteBlock(u) ==
    /\ Does(u, "upload", "write")
    /\ LET t == transfer[u]  next == t.done + 1 IN
       /\ next <= Size[t.version]
       /\ content' = [content EXCEPT ![t.file] = PutBlock(@, next, t.version)]
       /\ transfer' = [transfer EXCEPT ![u].done = next]
    /\ UNCHANGED <<rows, torn>>

(* A job file gets a row; the upload of a binary is over. *)
EndUpload(u) == /\ Does(u, "upload", "write")
                /\ LET t == transfer[u] IN
                   /\ t.done = Size[t.version]
                   /\ IF t.file \in JobFile THEN transfer' = [transfer EXCEPT ![u].step = "row"]
                                            ELSE Close(u)
                /\ UNCHANGED <<content, rows, torn>>

InsertFile(u) == /\ Does(u, "upload", "row")
                 /\ rows' = [rows EXCEPT ![transfer[u].file] = Append(@, transfer[u].version)]
                 /\ Close(u)
                 /\ UNCHANGED <<content, torn>>

(* The disk, the database or the master fails: what is written stays. *)
AbortUpload(u) == /\ transfer[u] # NoTransfer /\ transfer[u].op = "upload"
                  /\ torn' = torn \cup {transfer[u].file}
                  /\ Close(u)
                  /\ UNCHANGED <<content, rows>>

-----------------------------------------------------------------------------
(* download_worker *)

OpenForReading(u, f) ==
    /\ transfer[u] = NoTransfer
    /\ content[f] # NoFile          \* otherwise 404
    /\ transfer' = [transfer EXCEPT ![u] =
           [op |-> "download", file |-> f, step |-> "stat", size |-> 0, body |-> <<>>,
            clean |-> f \notin torn /\ Uploading(f) = {}]]
    /\ UNCHANGED <<content, rows, torn>>

Stat(u) == /\ Does(u, "download", "stat")
           /\ transfer' = [transfer EXCEPT ![u].size = Len(content[transfer[u].file]),
                                                ![u].step = "read"]
           /\ UNCHANGED <<content, rows, torn>>

ReadBlock(u) == /\ Does(u, "download", "read")
                /\ LET t == transfer[u]  next == Len(t.body) + 1 IN
                   IF next <= Len(content[t.file])
                     THEN transfer' = [transfer EXCEPT ![u].body = Append(@, content[t.file][next])]
                     ELSE transfer' = [transfer EXCEPT ![u].step = "sent"]
                /\ UNCHANGED <<content, rows, torn>>

(* The client has got its answer, or has gone before. *)
EndDownload(u) == /\ transfer[u] # NoTransfer /\ transfer[u].op = "download"
                  /\ Close(u)
                  /\ UNCHANGED <<content, rows, torn>>

TransferStep(u) == \/ OpenForWriting(u) \/ WriteBlock(u) \/ EndUpload(u) \/ InsertFile(u) \/ AbortUpload(u)
                   \/ Stat(u) \/ ReadBlock(u) \/ EndDownload(u)

-----------------------------------------------------------------------------
(* Unless uploads overlapped or one failed, a file nobody is writing is    *)
(* one whole version, for a job the one its latest row has the hash of;    *)
(* and a download that no upload of its file overlapped is one whole       *)
(* version with its right size.                                            *)
WholeUnlessOverlap ==
    /\ \A f \in File : f \notin torn /\ Uploading(f) = {} /\ content[f] # NoFile =>
         \E v \in Version : /\ content[f] = Whole(v)
                            /\ f \in JobFile => rows[f] # <<>> /\ rows[f][Len(rows[f])] = v
    /\ \A u \in User : Does(u, "download", "sent") /\ transfer[u].clean =>
         \E v \in Version : transfer[u].body = Whole(v) /\ transfer[u].size = Size[v]

(* Why it holds: a file that is not torn has one writer, which has written *)
(* the beginning of its version;                                           *)
Wrote(s, v, n) == Len(s) = n /\ \A i \in 1..n : s[i] = v

WriterSound(u) ==
    LET t == transfer[u] IN
    t # NoTransfer /\ t.op = "upload" =>
       /\ t.done <= Size[t.version] /\ (t.step = "open" => t.done = 0)
       /\ t.step # "open" => content[t.file] # NoFile
       /\ t.step = "row" => t.file \in JobFile
       /\ t.file \notin torn =>
            /\ \A w \in Uploading(t.file) : w = u
            /\ t.step = "write" => Wrote(content[t.file], t.version, t.done)
            /\ t.step = "row" => Wrote(content[t.file], t.version, Size[t.version])

(* and what a reader has was in the file all the time.                     *)
ReaderSound(u) ==
    LET t == transfer[u] IN
    t # NoTransfer /\ t.op = "download" =>
       /\ t.step # "sent" => content[t.file] # NoFile
       /\ t.step = "stat" => t.body = <<>>
       /\ t.clean /\ t.step # "sent" => t.file \notin torn /\ Uploading(t.file) = {}
       /\ t.clean /\ t.step = "read" =>
            /\ t.size = Len(content[t.file])
            /\ Len(t.body) <= t.size
            /\ \A i \in 1..Len(t.body) : t.body[i] = content[t.file][i]
       /\ t.clean /\ t.step = "sent" =>
            \E v \in Version : Wrote(t.body, v, Size[v]) /\ t.size = Size[v]

FileSound(f) ==
    f \notin torn /\ Uploading(f) = {} /\ content[f] # NoFile =>
       \E v \in Version : /\ Wrote(content[f], v, Size[v])
                          /\ f \in JobFile => rows[f] # <<>> /\ rows[f][Len(rows[f])] = v

FilesInv == /\ FilesTypeOK
            /\ \A u \in User : WriterSound(u) /\ ReaderSound(u)
            /\ \A f \in File : FileSound(f)
=============================================================================
