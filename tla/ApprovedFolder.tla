----------------------------- MODULE ApprovedFolder -----------------------------
(***************************************************************************)
(* LocalApprovedFolderStore (apps/api/app/file_ops.py): uploads, downloads *)
(* and quarantines of files that run at the same time.  A step is a call   *)
(* of the file system; a crash between two of them is left out.            *)
(*                                                                         *)
(* An upload writes a file of its own before it gives it a name, so the    *)
(* upload stands for the file it made; a rename changes which file a name  *)
(* stands for and never what an open file contains.  A path that           *)
(* resolve_safe_path or validate_extension refuses changes nothing; Paths  *)
(* are the others.                                                         *)
(***************************************************************************)
EXTENDS ApiProcess

CONSTANTS
  Paths,      \* relative paths the policy allows
  Uploads,    \* calls of upload, each with a file of its own
  Downloads,  \* calls of download
  Deletes,    \* calls of quarantine_file
  Sizes,      \* chunks that an uploaded content has
  MaxSize,    \* max_file_size_bytes, in chunks
  MayDelete   \* allow_delete and quarantine_enabled of the policy

ASSUME FolderAssumption ==
  /\ Nil \notin Uploads
  /\ Sizes \subseteq Nat
  /\ MaxSize \in Nat

VARIABLES
  named,        \* the file at each path
  temporaries,  \* files under their temporary name
  quarantine,   \* the name under which each quarantined file is found
  written,      \* the chunks written to each file
  upload,       \* the progress of the uploads
  download,     \* the progress of the downloads
  delete,       \* the progress of the quarantines
  replaced      \* history: the files that a later upload took the name of

folderVars ==
  <<named, temporaries, quarantine, written, upload, download, delete, replaced>>

-----------------------------------------------------------------------------

Idle == [step |-> "new", path |-> Nil, size |-> 0]

FolderInit ==
  /\ named = [p \in Paths |-> Nil]
  /\ temporaries = {}
  /\ quarantine = {}
  /\ written = [u \in Uploads |-> 0]
  /\ upload = [u \in Uploads |-> Idle]
  /\ download = [r \in Downloads |-> [step |-> "new", file |-> Nil, got |-> 0]]
  /\ delete = [q \in Deletes |-> [step |-> "new", path |-> Nil]]
  /\ replaced = {}

\* A slip: the file is written under its final name.
OpenInPlace(u, p, size) ==
  /\ upload[u].step = "new"
  /\ upload' = [upload EXCEPT ![u] = [step |-> "writing", path |-> p, size |-> size]]
  /\ named' = [named EXCEPT ![p] = u]
  /\ temporaries' = temporaries \cup {u}
  /\ UNCHANGED <<quarantine, written, download, delete, replaced, clock>>

OpenTemporary(u, p, size) ==
  /\ upload[u].step = "new"
  /\ upload' = [upload EXCEPT ![u] = [step |-> "writing", path |-> p, size |-> size]]
  /\ temporaries' = temporaries \cup {u}
  /\ UNCHANGED <<named, quarantine, written, download, delete, replaced, clock>>

\* A chunk arrives; the limit is checked before it is written.
WriteChunk(u) ==
  /\ upload[u].step = "writing"
  /\ written[u] < upload[u].size
  /\ IF written[u] + 1 > MaxSize
     THEN /\ upload' = [upload EXCEPT ![u].step = "failed"]
          /\ UNCHANGED written
     ELSE /\ written' = [written EXCEPT ![u] = @ + 1]
          /\ UNCHANGED upload
  /\ UNCHANGED <<named, temporaries, quarantine, download, delete, replaced, clock>>

\* The source of the chunks, or the disk, fails.
BreakUpload(u) ==
  /\ upload[u].step = "writing"
  /\ upload' = [upload EXCEPT ![u].step = "failed"]
  /\ UNCHANGED <<named, temporaries, quarantine, written, download, delete, replaced, clock>>

\* os.replace, after the last chunk; unlink then finds no temporary file.
Replace(u) ==
  LET p == upload[u].path
  IN /\ upload[u].step = "writing"
     /\ written[u] = upload[u].size
     /\ upload' = [upload EXCEPT ![u].step = "done"]
     /\ named' = [named EXCEPT ![p] = u]
     /\ temporaries' = temporaries \ {u}
     /\ replaced' = IF named[p] = Nil THEN replaced ELSE replaced \cup {named[p]}
     /\ UNCHANGED <<quarantine, written, download, delete, clock>>

\* finally: the temporary file of an upload that failed is removed.
Unlink(u) ==
  /\ upload[u].step = "failed"
  /\ u \in temporaries
  /\ temporaries' = temporaries \ {u}
  /\ UNCHANGED <<named, quarantine, written, upload, download, delete, replaced, clock>>

\* download: is_file and open; a name that vanished in between raises, as does
\* one that was not there.
OpenDownload(r, p) ==
  /\ download[r].step = "new"
  /\ named[p] # Nil
  /\ download' = [download EXCEPT ![r] = [step |-> "reading", file |-> named[p], got |-> 0]]
  /\ UNCHANGED <<named, temporaries, quarantine, written, upload, delete, replaced, clock>>

\* A read returns the next chunk of the file that was opened, nothing at its end.
ReadChunk(r) ==
  LET file == download[r].file
  IN /\ download[r].step = "reading"
     /\ download' = IF download[r].got < written[file]
                     THEN [download EXCEPT ![r].got = @ + 1]
                     ELSE [download EXCEPT ![r].step = "done"]
     /\ UNCHANGED <<named, temporaries, quarantine, written, upload, delete, replaced, clock>>

\* quarantine_file: is_file holds now, the move comes later.
FindFile(q, p) ==
  /\ MayDelete
  /\ delete[q].step = "new"
  /\ named[p] # Nil
  /\ delete' = [delete EXCEPT ![q] = [step |-> "found", path |-> p]]
  /\ UNCHANGED <<named, temporaries, quarantine, written, upload, download, replaced, clock>>

\* A slip: the file keeps its name in the quarantine.
OwnName(q, p) == p

\* The name in the quarantine begins with a fresh UUID.
QuarantineName(q, p) == <<q, p>>

\* The move takes whatever file has the name by now, and raises if none has.
Move(q) ==
  LET p == delete[q].path
      target == QuarantineName(q, p)
  IN /\ delete[q].step = "found"
     /\ delete' = [delete EXCEPT ![q].step = "done"]
     /\ IF named[p] = Nil
        THEN UNCHANGED <<named, quarantine>>
        ELSE /\ named' = [named EXCEPT ![p] = Nil]
             /\ quarantine' = {e \in quarantine : e[1] # target} \cup {<<target, named[p]>>}
     /\ UNCHANGED <<temporaries, written, upload, download, replaced, clock>>

FolderNext ==
  \/ \E u \in Uploads :
       \/ \E p \in Paths, size \in Sizes : OpenTemporary(u, p, size)
       \/ WriteChunk(u)
       \/ BreakUpload(u)
       \/ Replace(u)
       \/ Unlink(u)
  \/ \E r \in Downloads : (\E p \in Paths : OpenDownload(r, p)) \/ ReadChunk(r)
  \/ \E q \in Deletes : (\E p \in Paths : FindFile(q, p)) \/ Move(q)

FolderSpec == FolderInit /\ ClockInit /\ [][FolderNext]_folderVars

-----------------------------------------------------------------------------

FolderTypeOK ==
  /\ named \in [Paths -> Uploads \cup {Nil}]
  /\ temporaries \subseteq Uploads
  /\ written \in [Uploads -> Nat]
  /\ \A u \in Uploads : upload[u].step \in {"new", "writing", "done", "failed"}

\* A download that ended gave one uploaded content from its first chunk to its
\* last, though the file was replaced or quarantined while it was read; and
\* never more than the limit of the policy.
DownloadsAreWhole ==
  \A r \in Downloads :
    download[r].step = "done" =>
      /\ upload[download[r].file].step = "done"
      /\ download[r].got = upload[download[r].file].size
      /\ download[r].got <= MaxSize

\* An upload that was acknowledged is at its path, in the quarantine or gave
\* way to a later upload, whatever quarantines raced with it.
UploadsAreAccountedFor ==
  \A u \in Uploads :
    upload[u].step = "done" =>
      \/ named[upload[u].path] = u
      \/ \E e \in quarantine : e[2] = u
      \/ u \in replaced
=============================================================================
