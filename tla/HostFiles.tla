----------------------------- MODULE HostFiles -----------------------------
(***************************************************************************)
(* What AgentVM makes on the host's file system before and while it runs:  *)
(* AgentVMConfig.load and its validate() (config.py), _ensure_storage_tree *)
(* (daemon.py), StorageManager.ensure_storage_tree (storage/manager.py)    *)
(* and the cloud-init files of the VMs (CloudInit).  Three loops make the  *)
(* same directories: validate() goes on after one that cannot be made, the *)
(* others raise; only the daemon's sets a mode.  The process may stop in   *)
(* the middle of any of them, and is started again with another            *)
(* configuration.  What happens to the files between two processes is the  *)
(* environment's.                                                          *)
(***************************************************************************)
EXTENDS Config, CloudInit, Functions

CONSTANTS
  Docs, Envs,    \* configuration files and environments a start may see
  Paths,         \* directories a configuration may name
  Parent,        \* path -> its parent, or Unset; two levels at most
  CloudDir       \* CloudInitManager's vm_data_dir: a default of its own

VARIABLES
  dirs,      \* path -> "absent", "file", or a directory's mode
  proc,      \* where the process is, with the length of the loop's rest
  config,    \* what load is about to return, or returned
  given,     \* what load read, until it makes directories
  errors     \* what validate() has found so far

hostVars == <<dirs, proc, config, given, errors>>
fileVars == <<hostVars, cloudVars>>

Nothing == [doc |-> Unset, env |-> Unset]
Off == [at |-> "off", rest |-> <<>>]
At(pc, rest) == [at |-> pc, rest |-> rest]

StorageDirs(c) == <<c.base_dir, c.vm_data_dir>>
RequiredDirs(c) == <<c.base_dir, c.vm_data_dir, c.console_log_dir>>

Ancestors(p) ==
  {q \in Paths : Parent[p] # Unset /\ q \in {Parent[p], Parent[Parent[p]]}}

ASSUME FilesAssumption ==
  /\ Parent \in [Paths -> Paths \cup {Unset}]
  /\ \A p \in Paths :
       p \notin Ancestors(p) /\ \A q \in Ancestors(p) : Ancestors(q) \subseteq Ancestors(p)
  /\ CloudDir \in Paths
  /\ \A doc \in Docs, env \in Envs :
       LET c == Result(doc, env)
       IN  c # Bad => /\ c # Unset
                      /\ {c.base_dir, c.vm_data_dir, c.console_log_dir} \subseteq Paths
                      /\ c.default_cpu_cores \in Int /\ c.max_cpu_cores \in Int

-----------------------------------------------------------------------------
IsDir(p) == dirs[p] \in {"default", "private"}
Blocked(p) == \E q \in Ancestors(p) \cup {p} : dirs[q] = "file"

(* mkdir(parents=True, exist_ok=True): what is missing on the way gets the *)
(* default mode, the directory itself the one asked for; one that is there *)
(* keeps its own.                                                          *)
Made(p, mode) ==
  [q \in Paths |->
     CASE q = p /\ dirs[p] = "absent" -> mode
       [] q \in Ancestors(p) /\ dirs[q] = "absent" -> "default"
       [] OTHER -> dirs[q]]

(* One that fails may have made what was missing on the way.               *)
LeftBehind(p) == {dirs} \cup (IF Blocked(p) THEN {} ELSE {Made(p, dirs[p])})

FilesInit ==
  /\ CloudInitial
  /\ dirs \in [Paths -> {"absent", "default", "private", "file"}]
  /\ \A p \in Paths : \A q \in Ancestors(p) : dirs[p] # "absent" => IsDir(q)
  /\ proc = Off /\ config = Unset /\ given = Nothing /\ errors = {}

(* load, up to validate()'s directories.  When the document or a value is  *)
(* no good it raises here, having touched nothing.                         *)
Load(doc, env) ==
  LET c == Result(doc, env)
  IN  /\ proc.at = "off" /\ c # Bad
      /\ config' = c
      /\ given' = [doc |-> doc, env |-> env]
      /\ errors' = Errors(c)
      /\ proc' = At("loading", RequiredDirs(c))
      /\ UNCHANGED dirs

LoadRaises(doc, env) ==
  /\ proc.at = "off" /\ Result(doc, env) = Bad
  /\ UNCHANGED hostVars

GoOn(pc) == proc' = At(pc, Tail(proc.rest))
Raises == proc' = Off /\ config' = Unset /\ given' = Nothing /\ errors' = {}

(* Mutant of CannotMake: the error is lost.                                *)
CannotMake_Silent ==
  /\ proc' = At("loading", Tail(proc.rest))
  /\ dirs' \in LeftBehind(Head(proc.rest))
  /\ UNCHANGED <<config, errors>>

(* _ensure_directories: the error is noted, the next one is tried.         *)
CannotMake ==
  /\ proc' = At("loading", Tail(proc.rest))
  /\ errors' = errors \cup {Head(proc.rest)}
  /\ dirs' \in LeftBehind(Head(proc.rest))
  /\ UNCHANGED config

(* Mutant of ValidateDirectory: what is on the way is taken for granted.   *)
ValidateDirectory_LeafOnly ==
  /\ proc.at = "loading" /\ proc.rest # <<>>
  /\ given' = Nothing
  /\ \/ /\ ~Blocked(Head(proc.rest))
        /\ dirs' = [dirs EXCEPT ![Head(proc.rest)] = IF @ = "absent" THEN "default" ELSE @]
        /\ GoOn("loading")
        /\ UNCHANGED <<config, errors>>
     \/ ~IsDir(Head(proc.rest)) /\ CannotMake

(* One directory.  mkdir may fail for reasons of its own (EACCES, ENOSPC). *)
ValidateDirectory ==
  /\ proc.at = "loading" /\ proc.rest # <<>>
  /\ given' = Nothing
  /\ \/ /\ ~Blocked(Head(proc.rest))
        /\ dirs' = Made(Head(proc.rest), "default")
        /\ GoOn("loading")
        /\ UNCHANGED <<config, errors>>
     \/ ~IsDir(Head(proc.rest)) /\ CannotMake

LoadReturns ==
  /\ proc.at = "loading" /\ proc.rest = <<>>
  /\ IF errors = {}
       THEN proc' = At("loaded", <<>>) /\ UNCHANGED <<config, given, errors>>
       ELSE Raises
  /\ UNCHANGED dirs

-----------------------------------------------------------------------------
(* StorageManager.ensure_storage_tree and run_daemon, with the config that *)
(* load returned.                                                          *)
BeginTree(pc) ==
  /\ proc.at = "loaded"
  /\ proc' = At(pc, StorageDirs(config))
  /\ UNCHANGED <<dirs, config, given, errors>>

(* mkdir raises, or, in the daemon, chmod.                                 *)
TreeRaises(at) ==
  /\ proc.at = at /\ proc.rest # <<>>
  /\ Raises
  /\ \/ dirs' \in LeftBehind(Head(proc.rest))
     \/ /\ at = "starting" /\ ~Blocked(Head(proc.rest))
        /\ dirs' = Made(Head(proc.rest), "private")

EnsureDirectory ==
  /\ proc.at = "managing" /\ proc.rest # <<>> /\ ~Blocked(Head(proc.rest))
  /\ dirs' = Made(Head(proc.rest), "default")
  /\ GoOn("managing")
  /\ UNCHANGED <<config, given, errors>>

(* Mutant of EnsurePrivateDirectory: mkdir's mode is relied on.            *)
EnsurePrivateDirectory_MkdirOnly ==
  /\ proc.at = "starting" /\ proc.rest # <<>> /\ ~Blocked(Head(proc.rest))
  /\ dirs' = Made(Head(proc.rest), "private")
  /\ GoOn("starting")
  /\ UNCHANGED <<config, given, errors>>

(* mkdir(mode=0o750), and chmod for a directory that was there.            *)
EnsurePrivateDirectory ==
  /\ proc.at = "starting" /\ proc.rest # <<>> /\ ~Blocked(Head(proc.rest))
  /\ dirs' = [Made(Head(proc.rest), "private") EXCEPT ![Head(proc.rest)] = "private"]
  /\ GoOn("starting")
  /\ UNCHANGED <<config, given, errors>>

TreeIsThere(at, then) ==
  /\ proc.at = at /\ proc.rest = <<>>
  /\ proc' = At(then, <<>>)
  /\ UNCHANGED <<dirs, config, given, errors>>

(* generate_cloud_init_iso makes its directory; mkdir may raise instead,   *)
(* and then nothing has changed.                                           *)
Generate(v, c) ==
  /\ proc.at = "serving" /\ ~Blocked(CloudDir)
  /\ BeginGenerate(v, c)
  /\ dirs' = Made(CloudDir, "default")
  /\ UNCHANGED <<proc, config, given, errors>>

(* The process stops anywhere.                                             *)
Stop ==
  /\ proc # Off
  /\ Raises
  /\ UNCHANGED dirs
  /\ IF task = NoTask THEN UNCHANGED cloudVars ELSE StepRaises

(* Environment: while nothing runs, a directory is made, removed, replaced *)
(* by a file or given another mode.  One with a VM's files in it stays.     *)
Rearrange(p) ==
  /\ proc = Off
  /\ \E what \in {"absent", "default", "private", "file"} :
       /\ dirs' = [dirs EXCEPT ![p] = what]
       /\ what # "absent" => \A q \in Ancestors(p) : IsDir(q)
       /\ what \in {"absent", "file"} =>
            /\ \A q \in Paths : p \in Ancestors(q) => dirs[q] = "absent"
            /\ \A v \in Guests : files[v] = NoFiles
  /\ UNCHANGED <<proc, config, given, errors>>

HostStep ==
  \/ \E doc \in Docs, env \in Envs : Load(doc, env) \/ LoadRaises(doc, env)
  \/ ValidateDirectory \/ LoadReturns
  \/ BeginTree("managing") \/ EnsureDirectory \/ TreeRaises("managing")
  \/ TreeIsThere("managing", "loaded")
  \/ BeginTree("starting") \/ EnsurePrivateDirectory \/ TreeRaises("starting")
  \/ TreeIsThere("starting", "serving")
  \/ \E p \in Paths : Rearrange(p)

FilesNext ==
  \/ HostStep /\ UNCHANGED cloudVars
  \/ Stop
  \/ \E v \in Guests, c \in Configs : Generate(v, c)
  \/ proc.at = "serving" /\ CloudInitStep /\ UNCHANGED hostVars

FilesSpec == FilesInit /\ [][FilesNext]_fileVars

-----------------------------------------------------------------------------
PCs == {"off", "loading", "loaded", "managing", "starting", "serving"}

(* Every variable has its type; errors are told only while load runs.      *)
FilesTypeOK ==
  /\ CloudTypeOK
  /\ dirs \in [Paths -> {"absent", "default", "private", "file"}]
  /\ \A p \in Paths : \A q \in Ancestors(p) : dirs[p] # "absent" => IsDir(q)
  /\ proc.at \in PCs /\ Range(proc.rest) \subseteq Paths
  /\ config = Unset <=> proc.at = "off"
  /\ proc.at # "loading" => given = Nothing /\ errors = {}

HasConfig == proc.at \in {"loaded", "managing", "starting", "serving"}

(* A configuration that load returned satisfies every rule of validate(),  *)
(* and all the directories it names were made, though one loop noted its   *)
(* errors in passing and went on (CONFIG-LLD section 5).                   *)
LoadedConfigIsUsable ==
  HasConfig =>
    /\ Errors(config) = {}
    /\ config.port \in Ports /\ config.default_cpu_cores \in 1..config.max_cpu_cores
    /\ \A i \in DOMAIN RequiredDirs(config) : IsDir(RequiredDirs(config)[i])

(* A field that the environment sets is the environment's whatever the     *)
(* file says there, were it a value that cannot be coerced, and all others *)
(* are the file's: what load made of one file it makes of every other that *)
(* differs under a variable only (CF-FR-02).                               *)
SameBut(d, e, env) ==
  /\ d.root = e.root /\ d.sections = e.sections
  /\ \A f \in Fields : env[f] = Unset => d.fields[f] = e.fields[f]
OverriddenIsNeverRead ==
  given # Nothing =>
    \A d \in Docs : SameBut(d, given.doc, given.env) => Result(d, given.env) = config

(* The daemon serves behind directories that only its user and group may   *)
(* enter: load has made them with the default mode a moment before, and    *)
(* mkdir gives one that is there no other.                                 *)
ServedTreeIsPrivate ==
  proc.at = "serving" =>
    \A i \in DOMAIN StorageDirs(config) : dirs[StorageDirs(config)[i]] = "private"
=============================================================================
