---------------------------- MODULE EvidenceCapture ----------------------------
(***************************************************************************)
(* Uploaded files and retained evidence of one project: the upload and     *)
(* removal of files (mas/knowledge/files.py), the capture of evidence from *)
(* uploads and from the evidence bridge (mas/knowledge/evidence_snapshot), *)
(* and the deletion of the project (mas/store.py), over two stores of      *)
(* bytes and the tables of v47.  The API runs in one process, the bridge's *)
(* captures in processes of their own.  Capture is enabled throughout.     *)
(***************************************************************************)
EXTENDS FiniteSets

CONSTANTS Task,        \* requests of the API
          File,        \* file_ids; each upload draws a new one
          Capture,     \* transactions of the evidence bridge
          Op,          \* operation ids the operator gives the bridge
          Content,     \* bytes captured by the bridge
          None

ASSUME ConstantsAssumption ==
    /\ None \notin Task \cup File \cup Capture \cup Op \cup Content
    /\ File \cap Content = {} /\ File \cap Op = {}
    /\ "failed" \notin File \cup Content /\ None # "failed"
    /\ \A listed \in SUBSET File : listed # None

VARIABLES
    project,    \* is there a row of projects?
    row,        \* the manifests in state_snapshots.state_json, None for no row
    doc,        \* the manifests in the ProjectState object the requests share
    cached,     \* is that object in the store's cache?
    disk,       \* files in the upload store, contents in the evidence store
    snaps,      \* source_snapshot: [op, ref]
    ops,        \* ingest_operation: the ref its snapshot has, "failed", or None
    task,       \* what each request is doing
    tx,         \* what each transaction of the bridge is doing
    acked,      \* uploads that were answered, and not condemned since
    condemned,  \* history: files that were removed, or listed when the project's state was deleted
    revived     \* history: did a save insert the project again after its deletion?

files  == <<disk>>
tables == <<snaps, ops>>
state  == <<row, doc, cached>>
told   == <<acked, condemned>>
vars == <<project, state, files, tables, task, tx, told, revived>>

Idle   == [at |-> "idle", file |-> None]
Closed == [at |-> "closed", op |-> None, content |-> None]

Init ==
    /\ project = TRUE
    /\ row = {} /\ doc = {} /\ cached = TRUE
    /\ disk = {}
    /\ snaps = {} /\ ops = [o \in Op \cup File |-> None]
    /\ task = [w \in Task |-> Idle]
    /\ tx = [x \in Capture |-> Closed]
    /\ acked = {} /\ condemned = {} /\ revived = FALSE

-----------------------------------------------------------------------------
(* store.load, store.save, store.delete                                     *)

Holding == {"receiving", "removing", "saving"}
Holds(w) == task[w].at \in Holding

\* The shared object, if it is referred to after this step.
Live(d) == IF cached' \/ \E w \in Task : task'[w].at \in Holding THEN d ELSE {}

\* The shared object is the cached one, or one read from the row.  (Two objects
\* of a project in use at once are the subject of ProjectStore.)
Load ==
    \/ cached /\ UNCHANGED <<doc, cached>>
    \/ /\ ~cached /\ row # None
       /\ \A w \in Task : ~Holds(w)
       /\ doc' = row /\ cached' = TRUE

\* One transaction: projects and state_snapshots are upserted.
Save(w) ==
    /\ task[w].at = "saving"
    /\ project' = TRUE /\ revived' = (revived \/ ~project)
    /\ row' = doc /\ cached' = TRUE
    /\ acked' = acked \cup ({task[w].file} \cap doc)
    /\ task' = [task EXCEPT ![w] = Idle]
    /\ UNCHANGED <<doc, files, tables, tx, condemned>>

SaveFails(w) ==
    /\ task[w].at = "saving"
    /\ task' = [task EXCEPT ![w] = Idle]
    /\ UNCHANGED <<project, row, cached, files, tables, tx, told, revived>>
    /\ doc' = Live(doc)

\* DELETE /projects: the cache entry goes first ...
BeginDelete(w) ==
    /\ task[w].at = "idle"
    /\ cached' = FALSE
    /\ task' = [task EXCEPT ![w].at = "popped"]
    /\ UNCHANGED <<project, row, files, tables, tx, told, revived>>
    /\ doc' = Live(doc)

\* ... then the state's row, committed on its own ...
DeleteState(w) ==
    /\ task[w].at = "popped"
    /\ row' = None
    /\ condemned' = condemned \cup (File \cap (disk \cup doc)) \cup acked /\ acked' = {}
    /\ task' = [task EXCEPT ![w].at = "stateless"]
    /\ UNCHANGED <<project, doc, cached, files, tables, tx, revived>>

\* v47: ON DELETE RESTRICT, failed operations included.
Retained == \E o \in DOMAIN ops : ops[o] # None

\* The rows of a transaction of the bridge that is still open.
Open(x) == tx[x].at \in {"opened", "written"}

\* ... then the project's: refused while evidence is retained, and waiting for
\* transactions whose rows refer to it.
DeleteProject(w) ==
    /\ task[w].at = "stateless"
    /\ \A x \in Capture : ~Open(x)
    /\ IF project /\ ~Retained
       THEN /\ project' = FALSE
            /\ task' = [task EXCEPT ![w].at = "unlinking"]
       ELSE /\ task' = [task EXCEPT ![w] = Idle]
            /\ UNCHANGED project
    /\ UNCHANGED <<state, files, tables, tx, told, revived>>

\* delete_project_uploads, whatever is in the directory by now.
Unlink(w) ==
    /\ task[w].at = "unlinking"
    /\ disk' = disk \ File
    /\ condemned' = condemned \cup (File \cap disk) /\ acked' = acked \ disk
    /\ task' = [task EXCEPT ![w] = Idle]
    /\ UNCHANGED <<project, state, tables, tx, revived>>

-----------------------------------------------------------------------------
(* Uploads and removals                                                     *)

BeginUpload(w) ==
    /\ task[w].at = "idle"
    /\ Load
    /\ task' = [task EXCEPT ![w].at = "receiving"]
    /\ UNCHANGED <<project, row, files, tables, tx, told, revived>>

NewFile(f) == f \notin disk \cup doc \cup acked \cup condemned /\ ops[f] = None
              /\ (row # None => f \notin row)

\* Mutant: the manifest stays when the rest is undone.
IngestFailsListed(w) ==
    /\ task[w].at = "receiving"
    /\ \E f \in File : NewFile(f) /\ doc' = doc \cup {f}
    /\ task' = [task EXCEPT ![w] = Idle]
    /\ UNCHANGED <<project, row, cached, files, tables, tx, told, revived>>

\* The bytes cannot be stored or parsed: what was added is taken back.
IngestFails(w) ==
    /\ task[w].at = "receiving"
    /\ task' = [task EXCEPT ![w] = Idle]
    /\ UNCHANGED <<project, row, cached, files, tables, tx, told, revived>>
    /\ doc' = Live(doc)

\* The file is stored and listed, and then captured, all without an await.  The
\* capture commits, or only its failure is recorded, or it is lost altogether, as
\* when the project's row is gone: the upload does not depend on it.
Ingest(w, f) ==
    /\ task[w].at = "receiving"
    /\ NewFile(f)
    /\ disk' = disk \cup {f} /\ doc' = doc \cup {f}
    /\ \/ /\ project
          /\ snaps' = snaps \cup {[op |-> f, ref |-> f]}
          /\ ops' = [ops EXCEPT ![f] = f]
       \/ /\ project
          /\ ops' = [ops EXCEPT ![f] = "failed"]
          /\ UNCHANGED snaps
       \/ UNCHANGED tables
    /\ task' = [task EXCEPT ![w] = [at |-> "saving", file |-> f]]
    /\ UNCHANGED <<project, row, cached, tx, told, revived>>

BeginRemove(w, f) ==
    /\ task[w].at = "idle"
    /\ Load
    /\ f \in doc'
    /\ task' = [task EXCEPT ![w] = [at |-> "removing", file |-> f]]
    /\ UNCHANGED <<project, row, files, tables, tx, told, revived>>

\* Mutant: only what the operation records as committed is protected, by its id.
LinkedByName(f) == \E s \in snaps : s.op = f /\ s.ref \notin File

Linked(f) == \E s \in snaps : s.ref = f

\* assert_safe_to_delete_storage_ref, then the unlink and the manifest.
Remove(w) ==
    LET f == task[w].file IN
    /\ task[w].at = "removing"
    /\ f \in doc /\ ~Linked(f)
    /\ disk' = disk \ {f} /\ doc' = doc \ {f}
    /\ condemned' = condemned \cup {f} /\ acked' = acked \ {f}
    /\ task' = [task EXCEPT ![w].at = "saving"]
    /\ UNCHANGED <<project, row, cached, tables, tx, revived>>

\* Not listed any more; linked; or the linkage cannot be read.
RemoveRefused(w) ==
    /\ task[w].at = "removing"
    /\ task' = [task EXCEPT ![w] = Idle]
    /\ UNCHANGED <<project, row, cached, files, tables, tx, told, revived>>
    /\ doc' = Live(doc)

-----------------------------------------------------------------------------
(* capture_evidence_source_bytes in a transaction of its caller             *)

Roll(x) == tx' = [tx EXCEPT ![x] = Closed]

\* The project and the operation are looked up; a committed operation is returned
\* or refused (Reuse), and nothing is stored.
Probe(x, o, c) ==
    /\ tx[x].at = "closed"
    /\ project /\ ops[o] = None
    /\ tx' = [tx EXCEPT ![x] = [at |-> "storing", op |-> o, content |-> c]]
    /\ UNCHANGED <<project, state, files, tables, task, told, revived>>

\* persist_source_bytes: written beside, renamed, read again.
Persist(x) ==
    /\ tx[x].at = "storing"
    /\ disk' = disk \cup {tx[x].content}
    /\ tx' = [tx EXCEPT ![x].at = "stored"]
    /\ UNCHANGED <<project, state, tables, task, told, revived>>

\* Another open transaction has inserted the same operation, or the same blob.
OpBusy(x)   == \E y \in Capture \ {x} : Open(y) /\ tx[y].op = tx[x].op
BlobBusy(x) == \E y \in Capture \ {x} : tx[y].at = "written" /\ tx[y].content = tx[x].content

\* Mutant: the operation that was there at the insert is not looked at again.
InsertOperationAnyway(x) ==
    /\ tx[x].at = "stored" /\ ~OpBusy(x)
    /\ project
    /\ tx' = [tx EXCEPT ![x].at = "opened"]
    /\ UNCHANGED <<project, state, files, tables, task, told, revived>>

\* INSERT ... ON CONFLICT DO NOTHING waits for an open transaction with the same
\* key; it needs the project's row, and keeps it from being deleted.
InsertOperation(x) ==
    /\ tx[x].at = "stored" /\ ~OpBusy(x)
    /\ project
    /\ ops[tx[x].op] = None
    /\ tx' = [tx EXCEPT ![x].at = "opened"]
    /\ UNCHANGED <<project, state, files, tables, task, told, revived>>

\* The authoritative recheck finds the operation committed: it is returned if it
\* is of the same bytes and they are there, and refused otherwise.
Recheck(x) ==
    /\ tx[x].at = "stored" /\ ~OpBusy(x)
    /\ ops[tx[x].op] # None
    /\ Roll(x)
    /\ UNCHANGED <<project, state, files, tables, task, told, revived>>

InsertSnapshot(x) ==
    /\ tx[x].at = "opened" /\ ~BlobBusy(x)
    /\ tx' = [tx EXCEPT ![x].at = "written"]
    /\ UNCHANGED <<project, state, files, tables, task, told, revived>>

\* The caller's COMMIT; the bytes were verified once more before it.
CommitCapture(x) ==
    /\ tx[x].at = "written"
    /\ tx[x].content \in disk
    /\ snaps' = snaps \cup {[op |-> tx[x].op, ref |-> tx[x].content]}
    /\ ops' = [ops EXCEPT ![tx[x].op] = tx[x].content]
    /\ Roll(x)
    /\ UNCHANGED <<project, state, files, task, told, revived>>

\* Mutant: a transaction that was refused is left open.
RejectedOpen(x) ==
    /\ tx[x].at = "stored" /\ ~OpBusy(x)
    /\ ~project
    /\ tx' = [tx EXCEPT ![x].at = "rejected"]
    /\ UNCHANGED <<project, state, files, tables, task, told, revived>>

\* The foreign key: the project is gone.  The caller rolls back.
Rejected(x) ==
    /\ tx[x].at = "stored" /\ ~OpBusy(x)
    /\ ~project
    /\ Roll(x)
    /\ UNCHANGED <<project, state, files, tables, task, told, revived>>

\* A storage error, the dry run that is the bridge's default, or the end of its
\* process: bytes may stay, rows do not.
Abort(x) ==
    /\ tx[x].at # "closed"
    /\ Roll(x)
    /\ UNCHANGED <<project, state, files, tables, task, told, revived>>

-----------------------------------------------------------------------------
\* The API process ends; files and tables stay.
Crash ==
    /\ doc' = {} /\ cached' = FALSE
    /\ task' = [w \in Task |-> Idle]
    /\ UNCHANGED <<project, row, files, tables, tx, told, revived>>

Proceed(w) ==
    \/ Save(w) \/ SaveFails(w)
    \/ DeleteState(w) \/ DeleteProject(w) \/ Unlink(w)
    \/ IngestFails(w) \/ \E f \in File : Ingest(w, f)
    \/ Remove(w) \/ RemoveRefused(w)

Advance(x) ==
    \/ Persist(x) \/ InsertOperation(x) \/ Recheck(x) \/ Rejected(x)
    \/ InsertSnapshot(x) \/ CommitCapture(x)

Next ==
    \/ \E w \in Task : \/ BeginUpload(w) \/ BeginDelete(w) \/ Proceed(w)
                       \/ \E f \in File : BeginRemove(w, f)
    \/ \E x \in Capture : \/ Advance(x) \/ Abort(x)
                          \/ \E o \in Op, c \in Content : Probe(x, o, c)
    \/ Crash

Spec == Init /\ [][Next]_vars

\* The bridge runs, and whoever waits for a row of another transaction is queued.
Fairness == \A x \in Capture : SF_vars(Advance(x))
FairSpec == Spec /\ Fairness

-----------------------------------------------------------------------------
TaskRecord == [at : {"idle", "receiving", "removing", "saving", "popped", "stateless", "unlinking"},
               file : File \cup {None}]
TxRecord   == [at : {"closed", "storing", "stored", "opened", "written"},
               op : Op \cup {None}, content : Content \cup {None}]

TypeOK ==
    /\ project \in BOOLEAN /\ cached \in BOOLEAN /\ revived \in BOOLEAN
    /\ row \in (SUBSET File) \cup {None} /\ doc \subseteq File
    /\ disk \subseteq File \cup Content
    /\ snaps \subseteq [op : Op \cup File, ref : File \cup Content]
    /\ ops \in [Op \cup File -> File \cup Content \cup {"failed", None}]
    /\ task \in [Task -> TaskRecord] /\ tx \in [Capture -> TxRecord]
    /\ acked \subseteq File /\ condemned \subseteq File

(* "A committed SourceSnapshot can never reference absent or corrupt bytes" *)
(* whatever is rolled back, retried, removed or crashes; for uploads, as    *)
(* long as no save brings a deleted project back.                           *)
RetainedBytesSurvive ==
    \A s \in snaps : s.ref \in disk \/ (s.ref \in File /\ revived)

(* An operation stands for one capture, however often and concurrently it   *)
(* is retried, and its row names that capture.                              *)
OneCapturePerOperation ==
    \A s, t \in snaps : (s.op = t.op => s = t) /\ ops[s.op] = s.ref

(* A file that is listed, or whose upload was answered, has its bytes, and  *)
(* an answered one is listed in the row, unless its deletion or that of the *)
(* project was asked for: what other uploads, removals, failures and        *)
(* crashes undo is never more than their own.                               *)
UploadsAreWhole ==
    \A f \in File \ condemned :
        /\ (f \in doc \cup acked \/ (row # None /\ f \in row)) => f \in disk
        /\ f \in acked => row # None /\ f \in row

(* Every capture that was begun ends, also one that waits for the rows of   *)
(* another: no two wait for each other, and none is left open.              *)
CapturesEnd == \A x \in Capture : tx[x].at # "closed" ~> tx[x].at = "closed"

-----------------------------------------------------------------------------
(* What the repository says and the code does not keep.                     *)

(* "Project deletion is rejected while retained evidence exists": a project *)
(* whose evidence is retained, and that no request is deleting, still has   *)
(* its state.                                                               *)
RejectedDeletionKeepsState ==
    snaps # {} /\ (\A w \in Task : task[w].at \notin {"popped", "stateless"}) => row # None

(* Retained bytes survive without exception.                                *)
RetainedBytesAlwaysSurvive == \A s \in snaps : s.ref \in disk
=============================================================================
