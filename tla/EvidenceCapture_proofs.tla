------------------------- MODULE EvidenceCapture_proofs -------------------------
(***************************************************************************)
(* Proofs about EvidenceCapture for every set of requests, files,          *)
(* transactions, operations and contents.  The three safety properties are *)
(* made inductive together by what they owe to each other: a project that  *)
(* is gone has no evidence, an open transaction is alone with its          *)
(* operation, and the shared object lists whatever was answered.           *)
(***************************************************************************)
EXTENDS EvidenceCapture, TLAPS

\* The foreign keys: without a project there is neither evidence nor an open transaction.
GoneIsEmpty ==
    ~project => /\ snaps = {}
                /\ \A x \in Capture : ~Open(x)

\* Its directory is emptied after the project is gone, and it comes back by a save only.
UnlinkingIsGone ==
    ~revived => \A w \in Task : task[w].at = "unlinking" => ~project

\* Whoever has inserted its operation is the only one, and finds it unfinished.
OpenIsAlone ==
    \A x \in Capture : Open(x) =>
        /\ tx[x].op \in Op /\ tx[x].content \in Content
        /\ ops[tx[x].op] = None
        /\ \A y \in Capture : Open(y) /\ tx[y].op = tx[x].op => x = y

\* Until its rows are written a capture has an operation and contents.
Begun == \A x \in Capture : tx[x].at # "closed" => tx[x].op \in Op /\ tx[x].content \in Content

\* The object that requests share lists what was answered.
SharedIsCurrent ==
    cached \/ (\E w \in Task : Holds(w)) => acked \ condemned \subseteq doc

\* What the evidence rests on, and what the uploads rest on.
EvidenceInv ==
    /\ GoneIsEmpty /\ UnlinkingIsGone /\ OpenIsAlone /\ Begun
    /\ RetainedBytesSurvive /\ OneCapturePerOperation
UploadInv == SharedIsCurrent /\ UploadsAreWhole

IInv == TypeOK /\ EvidenceInv /\ UploadInv

-----------------------------------------------------------------------------
(* Types                                                                   *)

LEMMA TypeInit == Init => TypeOK
<1> SUFFICES ASSUME Init PROVE TypeOK
    OBVIOUS
<1> USE DEF Init, Idle, Closed
<1>1. task \in [Task -> TaskRecord] /\ tx \in [Capture -> TxRecord]
    BY DEF TaskRecord, TxRecord
<1>2. ops \in [Op \cup File -> File \cup Content \cup {"failed", None}]
    OBVIOUS
<1>3. project \in BOOLEAN /\ cached \in BOOLEAN /\ revived \in BOOLEAN
    OBVIOUS
<1>4. row \in (SUBSET File) \cup {None}
    OBVIOUS
<1> QED BY <1>1, <1>2, <1>3, <1>4 DEF TypeOK

LEMMA TypeStep == TypeOK /\ Begun /\ [Next]_vars => TypeOK'
<1> SUFFICES ASSUME TypeOK, Begun, [Next]_vars PROVE TypeOK'
    OBVIOUS
<1> USE ConstantsAssumption DEF TypeOK, TaskRecord, TxRecord, files, tables, state, told
<1>1. ASSUME NEW w \in Task, Save(w) PROVE TypeOK'
    BY <1>1 DEF Save, Idle
<1>2. ASSUME NEW w \in Task, SaveFails(w) PROVE TypeOK'
    BY <1>2 DEF SaveFails, Live, Idle
<1>3. ASSUME NEW w \in Task, BeginDelete(w) PROVE TypeOK'
  <2>1. task' \in [Task -> TaskRecord]
      BY <1>3 DEF BeginDelete
  <2>2. doc' \subseteq File
      BY <1>3 DEF BeginDelete, Live
  <2> QED BY <2>1, <2>2, <1>3 DEF BeginDelete
<1>4. ASSUME NEW w \in Task, DeleteState(w) PROVE TypeOK'
    BY <1>4 DEF DeleteState
<1>5. ASSUME NEW w \in Task, DeleteProject(w) PROVE TypeOK'
  <2>1. task' \in [Task -> TaskRecord]
      BY <1>5 DEF DeleteProject, Idle
  <2>2. project' \in BOOLEAN
      BY <1>5 DEF DeleteProject
  <2> QED BY <2>1, <2>2, <1>5 DEF DeleteProject
<1>6. ASSUME NEW w \in Task, Unlink(w) PROVE TypeOK'
    BY <1>6 DEF Unlink, Idle
<1>7. ASSUME NEW w \in Task, BeginUpload(w) PROVE TypeOK'
  <2>1. task' \in [Task -> TaskRecord]
      BY <1>7 DEF BeginUpload
  <2>2. doc' \subseteq File /\ cached' \in BOOLEAN
      BY <1>7 DEF BeginUpload, Load
  <2> QED BY <2>1, <2>2, <1>7 DEF BeginUpload, Load
<1>8. ASSUME NEW w \in Task, IngestFails(w) PROVE TypeOK'
    BY <1>8 DEF IngestFails, Live, Idle
<1>9. ASSUME NEW w \in Task, Remove(w) PROVE TypeOK'
    BY <1>9 DEF Remove
<1>10. ASSUME NEW w \in Task, RemoveRefused(w) PROVE TypeOK'
    BY <1>10 DEF RemoveRefused, Live, Idle
<1>11. ASSUME NEW w \in Task, NEW f \in File, Ingest(w, f) PROVE TypeOK'
    BY <1>11 DEF Ingest
<1>12. ASSUME NEW w \in Task, NEW f \in File, BeginRemove(w, f) PROVE TypeOK'
    BY <1>12 DEF BeginRemove, Load
<1>13. ASSUME NEW x \in Capture, Persist(x) PROVE TypeOK'
  <2>1. tx' \in [Capture -> TxRecord]
      BY <1>13 DEF Persist
  <2>2. disk' \subseteq File \cup Content
    <3>1. tx[x].content \in Content
        BY <1>13 DEF Persist, Begun
    <3> QED BY <1>13, <3>1 DEF Persist
  <2> QED BY <2>1, <2>2, <1>13 DEF Persist
<1>14. ASSUME NEW x \in Capture, InsertOperation(x) PROVE TypeOK'
    BY <1>14 DEF InsertOperation
<1>15. ASSUME NEW x \in Capture, Recheck(x) PROVE TypeOK'
    BY <1>15 DEF Recheck, Roll, Closed
<1>16. ASSUME NEW x \in Capture, Rejected(x) PROVE TypeOK'
    BY <1>16 DEF Rejected, Roll, Closed
<1>17. ASSUME NEW x \in Capture, InsertSnapshot(x) PROVE TypeOK'
    BY <1>17 DEF InsertSnapshot
<1>18. ASSUME NEW x \in Capture, CommitCapture(x) PROVE TypeOK'
  <2>1. tx' \in [Capture -> TxRecord]
      BY <1>18 DEF CommitCapture, Roll, Closed
  <2>2. tx[x].op \in Op /\ tx[x].content \in Content
      BY <1>18 DEF CommitCapture, Begun
  <2>3. snaps' \subseteq [op : Op \cup File, ref : File \cup Content]
    <3>1. [op |-> tx[x].op, ref |-> tx[x].content] \in [op : Op \cup File, ref : File \cup Content]
        BY <2>2
    <3> QED BY <1>18, <3>1 DEF CommitCapture
  <2>4. ops' \in [Op \cup File -> File \cup Content \cup {"failed", None}]
      BY <1>18 DEF CommitCapture
  <2> QED BY <2>1, <2>2, <2>3, <2>4, <1>18 DEF CommitCapture
<1>19. ASSUME NEW x \in Capture, Abort(x) PROVE TypeOK'
    BY <1>19 DEF Abort, Roll, Closed
<1>20. ASSUME NEW x \in Capture, NEW o \in Op, NEW c \in Content, Probe(x, o, c) PROVE TypeOK'
    BY <1>20 DEF Probe
<1>21. CASE Crash
    BY <1>21 DEF Crash, Idle
<1>22. CASE UNCHANGED vars
    BY <1>22 DEF vars
<1> QED BY <1>1, <1>2, <1>3, <1>4, <1>5, <1>6, <1>7, <1>8, <1>9, <1>10, <1>11, <1>12, <1>13,
           <1>14, <1>15, <1>16, <1>17, <1>18, <1>19, <1>20, <1>21, <1>22 DEF Next, Proceed,
           Advance

-----------------------------------------------------------------------------
(* Evidence                                                                *)

LEMMA EvidenceInit == Init => EvidenceInv
BY ConstantsAssumption DEF Init, EvidenceInv, GoneIsEmpty, UnlinkingIsGone, OpenIsAlone, Begun, Open,
   RetainedBytesSurvive, OneCapturePerOperation, Idle, Closed

LEMMA EvidenceStep == TypeOK /\ EvidenceInv /\ [Next]_vars => EvidenceInv'
<1> SUFFICES ASSUME TypeOK /\ EvidenceInv, [Next]_vars PROVE EvidenceInv'
    OBVIOUS
<1> USE ConstantsAssumption DEF TypeOK, TaskRecord, TxRecord, files, tables, state, told,
        EvidenceInv, GoneIsEmpty, UnlinkingIsGone, OpenIsAlone, Begun, RetainedBytesSurvive,
        OneCapturePerOperation, Open
<1>1. ASSUME NEW w \in Task, Save(w) PROVE EvidenceInv'
    BY <1>1 DEF Save, Idle
<1>2. ASSUME NEW w \in Task, SaveFails(w) PROVE EvidenceInv'
    BY <1>2 DEF SaveFails, Live, Idle
<1>3. ASSUME NEW w \in Task, BeginDelete(w) PROVE EvidenceInv'
    BY <1>3 DEF BeginDelete, Live
<1>4. ASSUME NEW w \in Task, DeleteState(w) PROVE EvidenceInv'
    BY <1>4 DEF DeleteState
<1>5. ASSUME NEW w \in Task, DeleteProject(w) PROVE EvidenceInv'
    BY <1>5 DEF DeleteProject, Retained, Idle
<1>6. ASSUME NEW w \in Task, Unlink(w) PROVE EvidenceInv'
    BY <1>6 DEF Unlink, Idle
<1>7. ASSUME NEW w \in Task, BeginUpload(w) PROVE EvidenceInv'
    BY <1>7 DEF BeginUpload, Load
<1>8. ASSUME NEW w \in Task, IngestFails(w) PROVE EvidenceInv'
    BY <1>8 DEF IngestFails, Live, Idle
<1>9. ASSUME NEW w \in Task, Remove(w) PROVE EvidenceInv'
    BY <1>9 DEF Remove, Linked
<1>10. ASSUME NEW w \in Task, RemoveRefused(w) PROVE EvidenceInv'
    BY <1>10 DEF RemoveRefused, Live, Idle
<1>11. ASSUME NEW w \in Task, NEW f \in File, Ingest(w, f) PROVE EvidenceInv'
    BY <1>11 DEF Ingest, NewFile
<1>12. ASSUME NEW w \in Task, NEW f \in File, BeginRemove(w, f) PROVE EvidenceInv'
    BY <1>12 DEF BeginRemove, Load
<1>13. ASSUME NEW x \in Capture, Persist(x) PROVE EvidenceInv'
    BY <1>13 DEF Persist
<1>14. ASSUME NEW x \in Capture, InsertOperation(x) PROVE EvidenceInv'
    BY <1>14 DEF InsertOperation, OpBusy
<1>15. ASSUME NEW x \in Capture, Recheck(x) PROVE EvidenceInv'
    BY <1>15 DEF Recheck, Roll, Closed
<1>16. ASSUME NEW x \in Capture, Rejected(x) PROVE EvidenceInv'
    BY <1>16 DEF Rejected, Roll, Closed
<1>17. ASSUME NEW x \in Capture, InsertSnapshot(x) PROVE EvidenceInv'
    BY <1>17 DEF InsertSnapshot
<1>18. ASSUME NEW x \in Capture, CommitCapture(x) PROVE EvidenceInv'
    BY <1>18 DEF CommitCapture, Roll, Closed
<1>19. ASSUME NEW x \in Capture, Abort(x) PROVE EvidenceInv'
    BY <1>19 DEF Abort, Roll, Closed
<1>20. ASSUME NEW x \in Capture, NEW o \in Op, NEW c \in Content, Probe(x, o, c) PROVE EvidenceInv'
    BY <1>20 DEF Probe
<1>21. CASE Crash
    BY <1>21 DEF Crash, Idle
<1>22. CASE UNCHANGED vars
    BY <1>22 DEF vars
<1> QED BY <1>1, <1>2, <1>3, <1>4, <1>5, <1>6, <1>7, <1>8, <1>9, <1>10, <1>11, <1>12, <1>13,
           <1>14, <1>15, <1>16, <1>17, <1>18, <1>19, <1>20, <1>21, <1>22 DEF Next, Proceed,
           Advance

-----------------------------------------------------------------------------
(* Uploads                                                                 *)

LEMMA UploadInit == Init => UploadInv
BY DEF Init, UploadInv, SharedIsCurrent, UploadsAreWhole

LEMMA UploadStep == TypeOK /\ UploadInv /\ [Next]_vars => UploadInv'
<1> SUFFICES ASSUME TypeOK /\ UploadInv, [Next]_vars PROVE UploadInv'
    OBVIOUS
<1> USE ConstantsAssumption DEF TypeOK, TaskRecord, TxRecord, files, tables, state, told,
        UploadInv, SharedIsCurrent, UploadsAreWhole, Holds, Holding
<1>1. ASSUME NEW w \in Task, Save(w) PROVE UploadInv'
    BY <1>1 DEF Save, Idle
<1>2. ASSUME NEW w \in Task, SaveFails(w) PROVE UploadInv'
    BY <1>2 DEF SaveFails, Live, Idle
<1>3. ASSUME NEW w \in Task, BeginDelete(w) PROVE UploadInv'
    BY <1>3 DEF BeginDelete, Live
<1>4. ASSUME NEW w \in Task, DeleteState(w) PROVE UploadInv'
    BY <1>4 DEF DeleteState
<1>5. ASSUME NEW w \in Task, DeleteProject(w) PROVE UploadInv'
    BY <1>5 DEF DeleteProject, Idle
<1>6. ASSUME NEW w \in Task, Unlink(w) PROVE UploadInv'
    BY <1>6 DEF Unlink, Idle
<1>7. ASSUME NEW w \in Task, BeginUpload(w) PROVE UploadInv'
    BY <1>7 DEF BeginUpload, Load
<1>8. ASSUME NEW w \in Task, IngestFails(w) PROVE UploadInv'
    BY <1>8 DEF IngestFails, Live, Idle
<1>9. ASSUME NEW w \in Task, Remove(w) PROVE UploadInv'
    BY <1>9 DEF Remove
<1>10. ASSUME NEW w \in Task, RemoveRefused(w) PROVE UploadInv'
    BY <1>10 DEF RemoveRefused, Live, Idle
<1>11. ASSUME NEW w \in Task, NEW f \in File, Ingest(w, f) PROVE UploadInv'
    BY <1>11 DEF Ingest
<1>12. ASSUME NEW w \in Task, NEW f \in File, BeginRemove(w, f) PROVE UploadInv'
    BY <1>12 DEF BeginRemove, Load
<1>13. ASSUME NEW x \in Capture, Persist(x) PROVE UploadInv'
    BY <1>13 DEF Persist
<1>14. ASSUME NEW x \in Capture, InsertOperation(x) PROVE UploadInv'
    BY <1>14 DEF InsertOperation
<1>15. ASSUME NEW x \in Capture, Recheck(x) PROVE UploadInv'
    BY <1>15 DEF Recheck, Roll, Closed
<1>16. ASSUME NEW x \in Capture, Rejected(x) PROVE UploadInv'
    BY <1>16 DEF Rejected, Roll, Closed
<1>17. ASSUME NEW x \in Capture, InsertSnapshot(x) PROVE UploadInv'
    BY <1>17 DEF InsertSnapshot
<1>18. ASSUME NEW x \in Capture, CommitCapture(x) PROVE UploadInv'
    BY <1>18 DEF CommitCapture, Roll, Closed
<1>19. ASSUME NEW x \in Capture, Abort(x) PROVE UploadInv'
    BY <1>19 DEF Abort, Roll, Closed
<1>20. ASSUME NEW x \in Capture, NEW o \in Op, NEW c \in Content, Probe(x, o, c) PROVE UploadInv'
    BY <1>20 DEF Probe
<1>21. CASE Crash
    BY <1>21 DEF Crash, Idle
<1>22. CASE UNCHANGED vars
    BY <1>22 DEF vars
<1> QED BY <1>1, <1>2, <1>3, <1>4, <1>5, <1>6, <1>7, <1>8, <1>9, <1>10, <1>11, <1>12, <1>13,
           <1>14, <1>15, <1>16, <1>17, <1>18, <1>19, <1>20, <1>21, <1>22 DEF Next, Proceed,
           Advance

-----------------------------------------------------------------------------
(* The theorems                                                            *)

LEMMA Inductive == Spec => []IInv
<1>1. Init => IInv
    BY TypeInit, EvidenceInit, UploadInit DEF IInv
<1>2. IInv /\ [Next]_vars => IInv'
    BY TypeStep, EvidenceStep, UploadStep DEF IInv, EvidenceInv
<1> QED BY <1>1, <1>2, PTL DEF Spec

\* Every variable keeps its type.
THEOREM Types == Spec => []TypeOK
BY Inductive, PTL DEF IInv

\* No retry, removal, deletion, failure or crash takes bytes a committed snapshot refers to,
\* unless a save brings the deleted project back.
THEOREM RetainedBytes == Spec => []RetainedBytesSurvive
<1>1. IInv => RetainedBytesSurvive
    BY DEF IInv, EvidenceInv
<1> QED BY <1>1, Inductive, PTL

\* An operation id stands for one capture, however many transactions carry it.
THEOREM OneCapture == Spec => []OneCapturePerOperation
<1>1. IInv => OneCapturePerOperation
    BY DEF IInv, EvidenceInv
<1> QED BY <1>1, Inductive, PTL

\* An upload that was answered stays whole until it or the project is deleted.
THEOREM WholeUploads == Spec => []UploadsAreWhole
<1>1. IInv => UploadsAreWhole
    BY DEF IInv, UploadInv
<1> QED BY <1>1, Inductive, PTL
=============================================================================
