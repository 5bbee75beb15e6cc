------------------------------ MODULE SftpEdit ------------------------------
(***************************************************************************)
(* "vi <path>" in an ssh REPL: Interceptor._get_file copies the remote     *)
(* file into sftp_directory under its base name and opens it in Sublime;   *)
(* SublimeReplsshViewEventListener uploads it on every save, on Sublime's  *)
(* async thread, and removes the copy when its view closes.  Paramiko is   *)
(* for Windows only, where a file that is open cannot be removed.          *)
(*                                                                         *)
(* Sublime has one view per local file.  A content is the remote file it   *)
(* stems from and the number of the edit.                                  *)
(***************************************************************************)
EXTENDS Integers, SeqOrder

CONSTANTS
  Paths,       \* remote files
  BaseName,    \* os.path.basename, a function on Paths
  MaxEdits,    \* bound: edits
  MaxQueued,   \* bound: saves that wait for their upload
  MaxFailures  \* bound: transfers that raise

ASSUME BaseNameAssumption == BaseName \in [Paths -> Nat]
ASSUME SftpBoundsAssumption ==
  MaxEdits \in Nat /\ MaxQueued \in Nat /\ MaxFailures \in Nat

Names == {BaseName[p] : p \in Paths}
\* The name a save has whose view is gone.
Gone == -1
NoPath == "no path"
ASSUME NoPathAssumption == NoPath \notin Paths
Content == [of : Paths, edit : 0..MaxEdits]
\* A transfer that broke off, a file made by open(path, 'w'), or none at all.
Cut == [of |-> NoPath, edit |-> -1]
EmptyFile == [of |-> NoPath, edit |-> 0]
Absent == [of |-> NoPath, edit |-> -2]
NoContent == {Cut, EmptyFile, Absent}

VARIABLES
  remote,      \* per remote file: its content
  local,       \* per name: the copy in sftp_directory
  editor,      \* per name: "closed", "clean" or "dirty", the view on the copy
  buffer,      \* per name: what the view shows
  dest,        \* per name: the setting dest_path
  uploads,     \* saves whose on_post_save_async has not run
  transfer,    \* the upload that runs, or NoTransfer
  listed,      \* the REPL is in repl_views, and its connection is up
  edits, failures,
  saved,       \* history: per remote file, the last content the user saved for it
  mixed,       \* history: a copy was fetched over one of another remote file,
               \* that is in a view or being uploaded
  lostSave,    \* history: remote files a save did not reach, for the REPL was
               \* gone, the transfer failed, or the view was closed before it
  badFetch,    \* history: a download raised, met an upload, or a damaged file
  kept         \* history: names whose view was closed during an upload of theirs,
               \* or after the REPL

\* The local file a transfer reads, as it was at its begin.
NoTransfer == [name |-> Gone, path |-> NoPath, content |-> Absent]

sfVars == <<remote, local, editor, buffer, dest, uploads, transfer, listed,
            edits, failures, saved, mixed, lostSave, badFetch, kept>>

SfInit ==
  /\ remote = [p \in Paths |-> [of |-> p, edit |-> 0]]
  /\ local = [n \in Names |-> Absent]
  /\ editor = [n \in Names |-> "closed"]
  /\ buffer = [n \in Names |-> Absent]
  /\ dest = [n \in Names |-> NoPath]
  /\ uploads = <<>> /\ transfer = NoTransfer /\ listed = TRUE
  /\ edits = 0 /\ failures = 0
  /\ saved = [p \in Paths |-> [of |-> p, edit |-> 0]]
  /\ mixed = FALSE /\ lostSave = {} /\ badFetch = FALSE
  /\ kept = {}

\* An upload to p is under way or waits for its turn.
Pending(p) == transfer.path = p \/ \E n \in Range(uploads) \ {Gone} : dest[n] = p

\* The copy of p is there, in a view; a view with unsaved edits keeps them, a
\* clean one is reloaded.
Opened(p, content) ==
  LET n == BaseName[p]
  IN  /\ local' = [local EXCEPT ![n] = content]
      /\ editor' = [editor EXCEPT ![n] = IF @ = "closed" THEN "clean" ELSE @]
      /\ buffer' = [buffer EXCEPT ![n] = IF editor[n] = "dirty" THEN @ ELSE content]
      /\ dest' = [dest EXCEPT ![n] = p]
      /\ mixed' = (mixed \/ (editor[n] # "closed" /\ dest[n] # p)
                        \/ (transfer.name = n /\ transfer.path # p))
      /\ kept' = kept \ {n}
      /\ UNCHANGED <<remote, uploads, transfer, listed, edits, saved, lostSave>>

\* sftp.get, in the main thread.
Fetch(p) ==
  /\ listed /\ Opened(p, remote[p])
  /\ badFetch' = (badFetch \/ Pending(p) \/ remote[p] = Cut)
  /\ UNCHANGED failures

\* An IOError -- no such file, no permission -- makes an empty file, in the
\* belief that the remote file is new.
FetchFails(p) ==
  /\ listed /\ failures < MaxFailures /\ failures' = failures + 1
  /\ Opened(p, EmptyFile) /\ badFetch' = TRUE

\* Any other exception -- the connection is lost -- opens no view, and may leave
\* a part of the copy.
FetchRaises(p) ==
  LET n == BaseName[p]
  IN  /\ listed /\ failures < MaxFailures /\ failures' = failures + 1
      /\ badFetch' = TRUE
      /\ local' \in {local, [local EXCEPT ![n] = Cut]}
      /\ buffer' = IF editor[n] = "clean" THEN [buffer EXCEPT ![n] = local'[n]] ELSE buffer
      /\ UNCHANGED <<remote, editor, dest, uploads, transfer, listed, edits, saved,
                     mixed, lostSave, kept>>

EditCopy(n) ==
  /\ editor[n] # "closed" /\ edits < MaxEdits
  /\ edits' = edits + 1
  /\ editor' = [editor EXCEPT ![n] = "dirty"]
  /\ buffer' = [buffer EXCEPT ![n] =
                  [of |-> IF @.of = NoPath THEN dest[n] ELSE @.of, edit |-> edits + 1]]
  /\ UNCHANGED <<remote, local, dest, uploads, transfer, listed, failures, saved,
                 mixed, lostSave, badFetch, kept>>

\* What if a save were not uploaded while another one is?
SaveSkips(n) ==
  /\ editor[n] # "closed" /\ Len(uploads) < MaxQueued
  /\ local' = [local EXCEPT ![n] = buffer[n]]
  /\ editor' = [editor EXCEPT ![n] = "clean"]
  /\ uploads' = IF transfer = NoTransfer THEN Append(uploads, n) ELSE uploads
  /\ saved' = [saved EXCEPT ![dest[n]] = buffer[n]]
  /\ lostSave' = lostSave \ {dest[n]}
  /\ UNCHANGED <<remote, buffer, dest, transfer, listed, edits, failures, mixed,
                 badFetch, kept>>

\* Sublime writes the file and queues on_post_save_async.
Save(n) ==
  /\ editor[n] # "closed" /\ Len(uploads) < MaxQueued
  /\ local' = [local EXCEPT ![n] = buffer[n]]
  /\ editor' = [editor EXCEPT ![n] = "clean"]
  /\ uploads' = Append(uploads, n)
  /\ saved' = [saved EXCEPT ![dest[n]] = buffer[n]]
  /\ lostSave' = lostSave \ {dest[n]}
  /\ UNCHANGED <<remote, buffer, dest, transfer, listed, edits, failures, mixed,
                 badFetch, kept>>

\* on_post_save_async: a view that is gone has no settings, and no upload; the
\* same without a registered REPL; else put_file opens the remote file, which
\* empties it.
BeginUpload ==
  /\ uploads # <<>> /\ transfer = NoTransfer
  /\ uploads' = Tail(uploads)
  /\ LET n == Head(uploads)
     IN  \/ n = Gone /\ UNCHANGED <<transfer, remote, lostSave>>
         \/ /\ n # Gone /\ listed
            /\ transfer' = [name |-> n, path |-> dest[n], content |-> local[n]]
            /\ remote' = [remote EXCEPT ![dest[n]] = Cut]
            /\ UNCHANGED lostSave
         \/ /\ n # Gone /\ ~listed
            /\ lostSave' = lostSave \cup {dest[n]}
            /\ UNCHANGED <<transfer, remote>>
  /\ UNCHANGED <<local, editor, buffer, dest, listed, edits, failures, saved,
                 mixed, badFetch, kept>>

\* What if the upload went where the view points by now?
EndUploadElsewhere ==
  /\ transfer # NoTransfer /\ listed
  /\ remote' = [p \in Paths |-> local[transfer.name]]
  /\ transfer' = NoTransfer
  /\ UNCHANGED <<local, editor, buffer, dest, uploads, listed, edits, failures,
                 saved, mixed, lostSave, badFetch, kept>>

\* What if the file were read before it is saved?
EndUploadStale ==
  /\ transfer # NoTransfer /\ listed
  /\ transfer' = NoTransfer
  /\ UNCHANGED <<remote, local, editor, buffer, dest, uploads, listed, edits,
                 failures, saved, mixed, lostSave, badFetch, kept>>

\* The copy is read to its end, before or after another save wrote to it.
EndUpload ==
  /\ transfer # NoTransfer /\ listed
  /\ \E content \in {transfer.content, local[transfer.name]} :
       remote' = [remote EXCEPT ![transfer.path] = content]
  /\ transfer' = NoTransfer
  /\ UNCHANGED <<local, editor, buffer, dest, uploads, listed, edits, failures,
                 saved, mixed, lostSave, badFetch, kept>>

\* The connection breaks, with the REPL or by itself: the exception is printed,
\* and the status says "uploaded".
UploadFails ==
  /\ transfer # NoTransfer
  /\ IF listed
       THEN failures < MaxFailures /\ failures' = failures + 1
       ELSE UNCHANGED failures
  /\ lostSave' = lostSave \cup {transfer.path}
  /\ transfer' = NoTransfer
  /\ UNCHANGED <<remote, local, editor, buffer, dest, uploads, listed, edits,
                 saved, mixed, badFetch, kept>>

\* What if the copy were kept?
CloseEditorKeeps(n) ==
  /\ editor[n] # "closed"
  /\ editor' = [editor EXCEPT ![n] = "closed"]
  /\ buffer' = [buffer EXCEPT ![n] = Absent]
  /\ UNCHANGED <<remote, local, dest, uploads, transfer, listed, edits, failures,
                 saved, mixed, lostSave, badFetch, kept>>

\* on_close: the copy is removed as long as the REPL is registered, but os.remove
\* raises on the file an upload has open, and the copy stays.  Saves of this view
\* that have not been uploaded yet will not be.
CloseEditor(n) ==
  /\ editor[n] # "closed"
  /\ editor' = [editor EXCEPT ![n] = "closed"]
  /\ buffer' = [buffer EXCEPT ![n] = Absent]
  /\ IF listed /\ transfer.name # n
       THEN local' = [local EXCEPT ![n] = Absent] /\ UNCHANGED kept
       ELSE UNCHANGED local /\ kept' = kept \cup {n}
  /\ uploads' = [i \in DOMAIN uploads |-> IF uploads[i] = n THEN Gone ELSE uploads[i]]
  /\ lostSave' = lostSave \cup IF n \in Range(uploads) THEN {dest[n]} ELSE {}
  /\ dest' = [dest EXCEPT ![n] = NoPath]
  /\ UNCHANGED <<remote, transfer, listed, edits, failures, saved, mixed, badFetch>>

\* The REPL's view is closed, and its connection with it.
CloseRepl ==
  /\ listed /\ listed' = FALSE
  /\ UNCHANGED <<remote, local, editor, buffer, dest, uploads, transfer, edits,
                 failures, saved, mixed, lostSave, badFetch, kept>>

SfNext ==
  \/ \E p \in Paths : Fetch(p) \/ FetchFails(p) \/ FetchRaises(p)
  \/ \E n \in Names : EditCopy(n) \/ Save(n) \/ CloseEditor(n)
  \/ BeginUpload \/ EndUpload \/ UploadFails \/ CloseRepl

SfSpec == SfInit /\ [][SfNext]_sfVars
-----------------------------------------------------------------------------
SfTypeOK ==
  /\ remote \in [Paths -> Content \cup NoContent]
  /\ local \in [Names -> Content \cup NoContent]
  /\ editor \in [Names -> {"closed", "clean", "dirty"}]
  /\ buffer \in [Names -> Content \cup NoContent]
  /\ dest \in [Names -> Paths \cup {NoPath}]
  /\ uploads \in Seq(Names \cup {Gone}) /\ Len(uploads) <= MaxQueued
  /\ transfer \in [name : Names, path : Paths, content : Content \cup NoContent]
                  \cup {NoTransfer}
  /\ listed \in BOOLEAN /\ edits \in 0..MaxEdits /\ failures \in 0..MaxFailures
  /\ saved \in [Paths -> Content \cup NoContent]
  /\ mixed \in BOOLEAN /\ lostSave \subseteq Paths /\ badFetch \in BOOLEAN
  /\ kept \subseteq Names

(* A save arrives: when no upload of a remote file is under way, the file   *)
(* has what was last saved for it, whatever was saved while uploads were    *)
(* running -- unless that save was lost, copies of two files were mixed, or *)
(* "vi" fetched the file again before its upload was over.                  *)
SavesArrive ==
  ~mixed /\ ~badFetch => \A p \in Paths \ lostSave : Pending(p) \/ remote[p] = saved[p]

(* A remote file only ever gets contents that stem from it.                 *)
OwnContent ==
  ~mixed => \A p \in Paths : remote[p].of \in {p, NoPath}

(* A remote file is empty or cut short only until its upload is over, or    *)
(* after a transfer failed: no order of editing, saving and closing damages *)
(* it.                                                                      *)
NoDamage ==
  ~badFetch /\ ~mixed =>
    \A p \in Paths : remote[p] \in NoContent => Pending(p) \/ p \in lostSave

(* No copy of a remote file stays behind once its view is closed while the  *)
(* REPL lives, whatever uploads run -- but one being uploaded at that       *)
(* moment, or left by a download that broke off.                            *)
CopiesRemoved ==
  ~badFetch => \A n \in Names \ kept : editor[n] = "closed" => local[n] = Absent

(* No order of fetching, editing, saving and closing damages a remote file, *)
(* loses a save unseen, or leaves a copy behind, but where uploads break or *)
(* the copies or downloads of two uploads meet.                             *)
FilesAreSafe == OwnContent /\ NoDamage /\ SavesArrive /\ CopiesRemoved

(* What a save puts on the server is the file that was opened, edited or    *)
(* not: "it will download file_to_edit.txt and open in new tab.  then on    *)
(* save, file_to_edit.txt is uploaded" (SublimeREPL-ssh.sublime-settings).  *)
(* A file that is there but cannot be downloaded is opened as an empty one. *)
NothingIsEmptied == ~mixed => \A p \in Paths : remote[p] # EmptyFile
=============================================================================
