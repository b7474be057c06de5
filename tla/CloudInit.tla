----------------------------- MODULE CloudInit -----------------------------
(***************************************************************************)
(* The three cloud-init files of a VM (CloudInitManager, in                *)
(* src/src/agentvm/storage/cloud_init.py), file by file: a step of either  *)
(* call may raise, and the process may stop in the middle of one.  What a  *)
(* file says is the configuration it was written from; genisoimage copies  *)
(* the other two into the image.                                           *)
(***************************************************************************)
EXTENDS Naturals

CONSTANTS
  Guests,      \* VM ids
  Configs,     \* what CloudInitConfig may be
  NoFile,
  Partial      \* cut short in the middle of a write

ASSUME CloudInitAssumption ==
  NoFile \notin Configs /\ Partial \notin Configs \cup {NoFile}

VARIABLES
  files,      \* per VM: user-data, meta-data, cloud-init.iso
  task,       \* the call under way; there is one, the calls do not suspend
  outcome     \* per VM, how the last call ended

cloudVars == <<files, task, outcome>>

Data == Configs \cup {NoFile, Partial}
Image == {NoFile, Partial} \cup [user : Data, meta : Data]
NoFiles == [user |-> NoFile, meta |-> NoFile, iso |-> NoFile]

NoTask == [does |-> "nothing"]
Tasks == {NoTask} \cup
  [does : {"generate"}, vm : Guests, config : Configs, next : {"user", "meta", "iso"}]
  \cup [does : {"delete"}, vm : Guests, next : {"iso", "user", "meta"}]

Unknown == [call |-> "none"]
Outcomes ==
  {Unknown, [call |-> "deleted"]} \cup [call : {"generated"}, config : Configs]

CloudInitial ==
  /\ files = [v \in Guests |-> NoFiles]
  /\ task = NoTask
  /\ outcome = [v \in Guests |-> Unknown]

(* generate_cloud_init_iso, after its mkdir.                               *)
BeginGenerate(v, c) ==
  /\ task = NoTask
  /\ task' = [does |-> "generate", vm |-> v, config |-> c, next |-> "user"]
  /\ outcome' = [outcome EXCEPT ![v] = Unknown]
  /\ UNCHANGED files

(* delete_cloud_init_iso.                                                  *)
BeginDelete(v) ==
  /\ task = NoTask
  /\ task' = [does |-> "delete", vm |-> v, next |-> "iso"]
  /\ outcome' = [outcome EXCEPT ![v] = Unknown]
  /\ UNCHANGED files

Doing(what, step) == task.does = what /\ task.next = step

WriteUserData ==
  /\ Doing("generate", "user")
  /\ files' = [files EXCEPT ![task.vm].user = task.config]
  /\ task' = [task EXCEPT !.next = "meta"]
  /\ UNCHANGED outcome

(* Mutant of WriteMetaData: a file that is there is good enough.           *)
WriteMetaData_Once ==
  /\ Doing("generate", "meta")
  /\ files' = [files EXCEPT ![task.vm].meta = IF @ = NoFile THEN task.config ELSE @]
  /\ task' = [task EXCEPT !.next = "iso"]
  /\ UNCHANGED outcome

WriteMetaData ==
  /\ Doing("generate", "meta")
  /\ files' = [files EXCEPT ![task.vm].meta = task.config]
  /\ task' = [task EXCEPT !.next = "iso"]
  /\ UNCHANGED outcome

(* genisoimage exits with 0, and generate returns the path.                *)
BuildImage ==
  /\ Doing("generate", "iso")
  /\ files' = [files EXCEPT ![task.vm].iso =
       [user |-> files[task.vm].user, meta |-> files[task.vm].meta]]
  /\ outcome' = [outcome EXCEPT ![task.vm] = [call |-> "generated", config |-> task.config]]
  /\ task' = NoTask

AfterUnlink ==
  CASE task.next = "iso" -> [task EXCEPT !.next = "user"]
    [] task.next = "user" -> [task EXCEPT !.next = "meta"]
    [] task.next = "meta" -> NoTask

(* Mutant of Unlink: no image, nothing to delete.                          *)
Unlink_ImageOnly ==
  /\ task.does = "delete"
  /\ files' = [files EXCEPT ![task.vm][task.next] = NoFile]
  /\ task' = IF files[task.vm].iso = NoFile /\ task.next = "iso" THEN NoTask ELSE AfterUnlink
  /\ outcome' = IF task' = NoTask
       THEN [outcome EXCEPT ![task.vm] = [call |-> "deleted"]] ELSE outcome

(* Each of the three, if it is there; the last one ends the call.          *)
Unlink ==
  /\ task.does = "delete"
  /\ files' = [files EXCEPT ![task.vm][task.next] = NoFile]
  /\ task' = AfterUnlink
  /\ outcome' = IF task' = NoTask
       THEN [outcome EXCEPT ![task.vm] = [call |-> "deleted"]] ELSE outcome

(* What a step that did not end may leave: the file as it was, empty or    *)
(* cut short, or, of an image, none.                                       *)
Left(step, file) ==
  {file, Partial} \cup (IF step = "iso" THEN {NoFile} ELSE {})

(* OSError from a write or an unlink, genisoimage missing or failing: the  *)
(* call raises and undoes nothing.  An unlink that raises removed nothing. *)
StepRaises ==
  /\ task # NoTask
  /\ IF task.does = "delete" THEN UNCHANGED files
     ELSE \E file \in Left(task.next, files[task.vm][task.next]) :
            files' = [files EXCEPT ![task.vm][task.next] = file]
  /\ task' = NoTask
  /\ UNCHANGED outcome

CloudInitStep ==
  \/ \E v \in Guests : BeginDelete(v)
  \/ WriteUserData \/ WriteMetaData \/ BuildImage \/ Unlink \/ StepRaises

-----------------------------------------------------------------------------
(* Every variable has its type.                                            *)
CloudTypeOK ==
  /\ files \in [Guests -> [user : Data, meta : Data, iso : Image]]
  /\ task \in Tasks
  /\ outcome \in [Guests -> Outcomes]

(* After a generate that returned, the image is made of both files of that *)
(* call, whatever earlier calls that raised, or were cut short by the end  *)
(* of the process, had left there.                                         *)
ReturnedImageIsCurrent ==
  \A v \in Guests : outcome[v].call = "generated" =>
    files[v].iso = [user |-> outcome[v].config, meta |-> outcome[v].config]

(* A delete that returned left none of the three, user-data with its proxy *)
(* key included, and no image stands without the two files it was made of: *)
(* the image goes first, so that a VM is not started from one that is half *)
(* deleted.                                                                *)
DeletedIsGone ==
  \A v \in Guests :
    /\ outcome[v].call = "deleted" => files[v] = NoFiles
    /\ files[v].iso # NoFile => files[v].user # NoFile /\ files[v].meta # NoFile
=============================================================================
