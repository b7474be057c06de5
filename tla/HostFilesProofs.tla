-------------------------- MODULE HostFilesProofs --------------------------
(***************************************************************************)
(* Proofs about HostFiles, for any documents, environments, paths, VMs and *)
(* configurations, and wherever the process stops: the daemon's            *)
(* directories, where the values of a configuration are from, and the      *)
(* cloud-init files.                                                       *)
(***************************************************************************)
EXTENDS HostFiles, TLAPS

Modes == {"absent", "default", "private", "file"}

(* The daemon has gone through the directories that are not left.          *)
TreeProgress ==
  /\ proc.at # "off" => config.base_dir \in Paths /\ config.vm_data_dir \in Paths
  /\ proc.at = "starting" =>
       \/ proc.rest = StorageDirs(config)
       \/ proc.rest = <<config.vm_data_dir>> /\ dirs[config.base_dir] = "private"
       \/ /\ proc.rest = <<>>
          /\ dirs[config.base_dir] = "private" /\ dirs[config.vm_data_dir] = "private"
  /\ proc.at = "serving" =>
       dirs[config.base_dir] = "private" /\ dirs[config.vm_data_dir] = "private"

TreeInv == dirs \in [Paths -> Modes] /\ TreeProgress

-----------------------------------------------------------------------------
(* mkdir leaves what is there as it is.                                    *)
LEMMA MadeKeeps ==
  ASSUME dirs \in [Paths -> Modes], NEW p, NEW mode \in Modes
  PROVE  /\ Made(p, mode) \in [Paths -> Modes]
         /\ \A q \in Paths : dirs[q] # "absent" => Made(p, mode)[q] = dirs[q]
  BY DEF Made, Modes

(* Nor does a mkdir that fails leave anything but directories.             *)
LEMMA LeftBehindType ==
  ASSUME dirs \in [Paths -> Modes], NEW p, NEW left \in LeftBehind(p)
  PROVE  left \in [Paths -> Modes]
<1>1. Made(p, dirs[p]) \in [Paths -> Modes]
  BY DEF Made, Modes
<1> QED
  BY <1>1 DEF LeftBehind

(* One of the daemon's directories: it is private now, and one before it   *)
(* still is.                                                               *)
LEMMA EnsurePrivateKeepsTree ==
  ASSUME TreeInv, EnsurePrivateDirectory
  PROVE  TreeInv'
<1> DEFINE d == Head(proc.rest)
<1>1. /\ proc.at = "starting" /\ proc.rest # <<>> /\ config' = config
      /\ proc' = [at |-> "starting", rest |-> Tail(proc.rest)]
      /\ dirs' = [Made(d, "private") EXCEPT ![d] = "private"]
  BY DEF EnsurePrivateDirectory, GoOn, At
<1>2. config.base_dir \in Paths /\ config.vm_data_dir \in Paths
  BY <1>1 DEF TreeInv, TreeProgress
<1>3. /\ Made(d, "private") \in [Paths -> Modes]
      /\ \A q \in Paths : dirs[q] # "absent" => Made(d, "private")[q] = dirs[q]
  BY MadeKeeps DEF TreeInv, Modes
<1>4. CASE proc.rest = StorageDirs(config)
  <2>1. d = config.base_dir /\ Tail(proc.rest) = <<config.vm_data_dir>>
    BY <1>4 DEF StorageDirs
  <2> HIDE DEF d
  <2> QED
    BY <1>1, <1>2, <1>3, <2>1 DEF TreeInv, TreeProgress, Modes
<1>5. CASE proc.rest = <<config.vm_data_dir>> /\ dirs[config.base_dir] = "private"
  <2>1. d = config.vm_data_dir /\ Tail(proc.rest) = <<>>
    BY <1>5
  <2> HIDE DEF d
  <2> QED
    BY <1>1, <1>2, <1>3, <1>5, <2>1 DEF TreeInv, TreeProgress, Modes
<1> QED
  BY <1>1, <1>4, <1>5 DEF TreeInv, TreeProgress

(* The steps that put the process at another place, or nowhere.            *)
LEMMA HostStepKeepsTree == ASSUME TreeInv, HostStep PROVE TreeInv'
<1>1. ASSUME NEW doc \in Docs, NEW env \in Envs, Load(doc, env) \/ LoadRaises(doc, env)
      PROVE  TreeInv'
  <2>1. CASE Load(doc, env)
    <3>1. /\ dirs' = dirs /\ proc'.at = "loading"
          /\ config' = Result(doc, env) /\ Result(doc, env) # Bad
      BY <2>1 DEF Load, At
    <3> QED
      BY <3>1, FilesAssumption DEF TreeInv, TreeProgress
  <2>2. CASE LoadRaises(doc, env)
    BY <2>2 DEF LoadRaises, hostVars, TreeInv, TreeProgress, StorageDirs
  <2> QED
    BY <1>1, <2>1, <2>2
<1>2. CASE ValidateDirectory \/ LoadReturns \/ EnsureDirectory
  <2>1. /\ proc'.at \in {"off", "loading", "loaded", "managing"}
        /\ proc'.at # "off" => config' = config /\ proc.at # "off"
    BY <1>2 DEF ValidateDirectory, LoadReturns, EnsureDirectory, CannotMake, GoOn, At, Raises, Off
  <2>2. dirs' \in [Paths -> Modes]
    <3>1. \/ dirs' = dirs \/ dirs' = Made(Head(proc.rest), "default")
          \/ dirs' \in LeftBehind(Head(proc.rest))
      BY <1>2 DEF ValidateDirectory, LoadReturns, EnsureDirectory, CannotMake
    <3> QED
      BY <3>1, MadeKeeps, LeftBehindType DEF TreeInv, Modes
  <2> QED
    BY <2>1, <2>2 DEF TreeInv, TreeProgress
<1>3. CASE BeginTree("managing") \/ TreeIsThere("managing", "loaded")
  <2>1. proc.at # "off" /\ proc'.at \in {"managing", "loaded"} /\ UNCHANGED <<dirs, config>>
    BY <1>3 DEF BeginTree, TreeIsThere, At
  <2> QED
    BY <2>1 DEF TreeInv, TreeProgress
<1>4. CASE BeginTree("starting")
  <2>1. /\ proc.at # "off" /\ proc'.at = "starting" /\ proc'.rest = StorageDirs(config)
        /\ UNCHANGED <<dirs, config>>
    BY <1>4 DEF BeginTree, At
  <2> QED
    BY <2>1 DEF TreeInv, TreeProgress, StorageDirs
<1>5. CASE TreeIsThere("starting", "serving")
  <2>1. /\ proc.at = "starting" /\ proc.rest = <<>> /\ proc'.at = "serving"
        /\ UNCHANGED <<dirs, config>>
    BY <1>5 DEF TreeIsThere, At
  <2>2. StorageDirs(config) # <<>> /\ <<config.vm_data_dir>> # <<>>
    BY DEF StorageDirs
  <2> QED
    BY <2>1, <2>2 DEF TreeInv, TreeProgress
<1>6. CASE TreeRaises("managing") \/ TreeRaises("starting")
  <2>1. proc'.at = "off"
    BY <1>6 DEF TreeRaises, Raises, Off
  <2>2. dirs' \in [Paths -> Modes]
    <3>1. dirs' = Made(Head(proc.rest), "private") \/ dirs' \in LeftBehind(Head(proc.rest))
      BY <1>6 DEF TreeRaises
    <3> QED
      BY <3>1, MadeKeeps, LeftBehindType DEF TreeInv, Modes
  <2> QED
    BY <2>1, <2>2 DEF TreeInv, TreeProgress
<1>7. ASSUME NEW p \in Paths, Rearrange(p) PROVE TreeInv'
  <2>1. proc'.at = "off" /\ dirs' \in [Paths -> Modes]
    BY <1>7 DEF Rearrange, Off, TreeInv, Modes
  <2> QED
    BY <2>1 DEF TreeInv, TreeProgress
<1> QED
  BY <1>1, <1>2, <1>3, <1>4, <1>5, <1>6, <1>7, EnsurePrivateKeepsTree DEF HostStep

(* A cloud-init file goes into a directory that it may have to make.       *)
LEMMA GenerateKeepsTree ==
  ASSUME TreeInv, NEW v \in Guests, NEW c \in Configs, Generate(v, c)
  PROVE  TreeInv'
<1>1. /\ proc.at = "serving" /\ dirs' = Made(CloudDir, "default")
      /\ UNCHANGED <<proc, config>>
  BY DEF Generate
<1> QED
  BY <1>1, MadeKeeps DEF TreeInv, TreeProgress, Modes

-----------------------------------------------------------------------------
(* The daemon serves behind directories that only its user and group may   *)
(* enter, whatever mode mkdir found or gave them before.                   *)
THEOREM ServedTreeIsAlwaysPrivate == FilesSpec => []ServedTreeIsPrivate
<1>1. FilesInit => TreeInv
  BY DEF FilesInit, TreeInv, TreeProgress, Off, Modes
<1>2. ASSUME TreeInv, [FilesNext]_fileVars PROVE TreeInv'
  <2>1. CASE Stop
    <3>1. proc'.at = "off" /\ dirs' = dirs
      BY <2>1 DEF Stop, Raises, Off
    <3> QED
      BY <1>2, <3>1 DEF TreeInv, TreeProgress
  <2>2. CASE UNCHANGED hostVars
    BY <1>2, <2>2 DEF hostVars, TreeInv, TreeProgress, StorageDirs
  <2> QED
    BY <1>2, <2>1, <2>2, HostStepKeepsTree, GenerateKeepsTree DEF FilesNext, fileVars
<1>3. TreeInv => ServedTreeIsPrivate
  <2>1. \A i \in DOMAIN StorageDirs(config) :
          StorageDirs(config)[i] \in {config.base_dir, config.vm_data_dir}
    BY DEF StorageDirs
  <2> QED
    BY <2>1 DEF TreeInv, TreeProgress, ServedTreeIsPrivate
<1> QED
  BY <1>1, <1>2, <1>3, PTL DEF FilesSpec

-----------------------------------------------------------------------------
(* What load is about to return is what it makes of what it read.          *)
ReadInv == given # Nothing => config = Result(given.doc, given.env)

(* Under a variable the file's value is not looked at.                     *)
LEMMA SameResult ==
  ASSUME NEW d, NEW e, NEW env, SameBut(d, e, env)
  PROVE  Result(d, env) = Result(e, env)
<1>1. \A f \in Fields : RawValue(d, env, f) = RawValue(e, env, f)
  BY DEF SameBut, RawValue, HasSection
<1>2. [f \in Fields |-> Coerce(RawValue(d, env, f), Schema[f].kind)]
    = [f \in Fields |-> Coerce(RawValue(e, env, f), Schema[f].kind)]
  BY <1>1
<1> QED
  BY <1>2 DEF Result, SameBut

(* A value in the file that a variable overrides is neither coerced nor    *)
(* reported, for any file, any variables and any reader of texts.          *)
THEOREM OverriddenIsAlwaysUnread == FilesSpec => []OverriddenIsNeverRead
<1>1. FilesInit => ReadInv
  BY DEF FilesInit, ReadInv
<1>2. ASSUME ReadInv, [FilesNext]_fileVars PROVE ReadInv'
  <2>1. CASE UNCHANGED <<config, given>> \/ given' = Nothing
    BY <1>2, <2>1 DEF ReadInv
  <2>2. ASSUME NEW doc \in Docs, NEW env \in Envs, Load(doc, env) PROVE ReadInv'
    BY <2>2 DEF Load, ReadInv
  <2>3. CASE HostStep
    <3>1. ASSUME NEW doc \in Docs, NEW env \in Envs, LoadRaises(doc, env)
          PROVE  UNCHANGED <<config, given>>
      BY <3>1 DEF LoadRaises, hostVars
    <3>2. CASE ValidateDirectory \/ LoadReturns \/ EnsureDirectory \/ EnsurePrivateDirectory
      BY <2>1, <3>2 DEF ValidateDirectory, LoadReturns, EnsureDirectory,
        EnsurePrivateDirectory, Raises
    <3>3. ASSUME NEW at, NEW then,
                 BeginTree(at) \/ TreeRaises(at) \/ TreeIsThere(at, then)
          PROVE  UNCHANGED <<config, given>> \/ given' = Nothing
      BY <3>3 DEF BeginTree, TreeRaises, TreeIsThere, Raises
    <3>4. ASSUME NEW p \in Paths, Rearrange(p) PROVE UNCHANGED <<config, given>>
      BY <3>4 DEF Rearrange
    <3> QED
      BY <2>1, <2>2, <2>3, <3>1, <3>2, <3>3, <3>4 DEF HostStep
  <2>4. ASSUME NEW v \in Guests, NEW c \in Configs, Generate(v, c)
        PROVE  UNCHANGED <<config, given>>
    BY <2>4 DEF Generate
  <2>5. CASE Stop \/ UNCHANGED hostVars
    BY <2>1, <2>5 DEF Stop, Raises, hostVars
  <2> QED
    BY <1>2, <2>1, <2>3, <2>4, <2>5 DEF FilesNext, fileVars
<1>3. ReadInv => OverriddenIsNeverRead
  BY SameResult DEF ReadInv, OverriddenIsNeverRead
<1> QED
  BY <1>1, <1>2, <1>3, PTL DEF FilesSpec

-----------------------------------------------------------------------------
(* A directory of the configuration was made, or is among the errors.      *)
Settled(p) == IsDir(p) \/ p \in errors

(* validate() has settled the directories that are not left.               *)
Noted ==
  \/ proc.rest = RequiredDirs(config)
  \/ proc.rest = <<config.vm_data_dir, config.console_log_dir>> /\ Settled(config.base_dir)
  \/ /\ proc.rest = <<config.console_log_dir>>
     /\ Settled(config.base_dir) /\ Settled(config.vm_data_dir)
  \/ /\ proc.rest = <<>>
     /\ Settled(config.base_dir) /\ Settled(config.vm_data_dir)
     /\ Settled(config.console_log_dir)

IsConfig ==
  /\ {config.base_dir, config.vm_data_dir, config.console_log_dir} \subseteq Paths
  /\ config.default_cpu_cores \in Int /\ config.max_cpu_cores \in Int

AllMade ==
  IsDir(config.base_dir) /\ IsDir(config.vm_data_dir) /\ IsDir(config.console_log_dir)

UsableInv ==
  /\ dirs \in [Paths -> Modes]
  /\ proc.at # "off" => IsConfig
  /\ proc.at = "loading" => Errors(config) \subseteq errors /\ Noted
  /\ HasConfig => Errors(config) = {} /\ AllMade

(* No step of the program takes a directory away.                          *)
DirsStay == dirs' \in [Paths -> Modes] /\ \A p \in Paths : IsDir(p) => IsDir(p)'

LEMMA MadeStays ==
  ASSUME dirs \in [Paths -> Modes], NEW p, NEW mode \in Modes,
         dirs' = Made(p, mode) \/ dirs' \in LeftBehind(p)
  PROVE  DirsStay
<1>1. CASE dirs' = Made(p, mode)
  BY <1>1, MadeKeeps DEF DirsStay, IsDir
<1>2. CASE dirs' \in LeftBehind(p)
  <2>1. dirs' \in [Paths -> Modes]
    BY <1>2, LeftBehindType
  <2>2. \A q \in Paths : IsDir(q) => dirs'[q] = dirs[q]
    BY <1>2 DEF LeftBehind, Made, IsDir
  <2> QED
    BY <2>1, <2>2 DEF DirsStay, IsDir
<1> QED
  BY <1>1, <1>2

(* One directory of validate()'s loop is settled, and those before it stay *)
(* so.                                                                     *)
LEMMA ValidateKeepsUsable ==
  ASSUME UsableInv, ValidateDirectory
  PROVE  UsableInv'
<1> DEFINE d == Head(proc.rest)
<1>1. /\ proc.at = "loading" /\ proc.rest # <<>> /\ config' = config
      /\ proc' = [at |-> "loading", rest |-> Tail(proc.rest)]
      /\ errors \subseteq errors'
      /\ \/ ~Blocked(d) /\ dirs' = Made(d, "default")
         \/ d \in errors' /\ dirs' \in LeftBehind(d)
  BY DEF ValidateDirectory, CannotMake, GoOn, At
<1>2. IsConfig /\ Errors(config) \subseteq errors /\ Noted /\ IsConfig'
  BY <1>1 DEF UsableInv, IsConfig
<1>3. DirsStay
  BY <1>1, MadeStays DEF UsableInv, Modes
<1> DEFINE Now(p) == dirs'[p] \in {"default", "private"} \/ p \in errors'
<1>4. Now(d)
  <2>1. d \in Paths
    <3>1. proc.rest = RequiredDirs(config) => d = config.base_dir
      BY DEF RequiredDirs, StorageDirs
    <3> QED
      BY <1>1, <1>2, <3>1 DEF Noted, IsConfig
  <2> HIDE DEF d
  <2>2. CASE ~Blocked(d) /\ dirs' = Made(d, "default")
    <3>1. dirs[d] # "file" /\ dirs[d] \in Modes
      BY <2>1, <2>2 DEF Blocked, UsableInv
    <3>2. dirs'[d] \in {"default", dirs[d]} /\ dirs'[d] # "absent"
      BY <2>1, <2>2 DEF Made
    <3> QED
      BY <3>1, <3>2 DEF Modes
  <2> QED
    BY <1>1, <2>2
<1>5. \A p \in Paths : Settled(p) => Now(p)
  BY <1>1, <1>3 DEF DirsStay, Settled, IsDir
<1> HIDE DEF Now
<1>6. ASSUME NEW p \in {config.base_dir, config.vm_data_dir, config.console_log_dir}, Settled(p)
      PROVE  Now(p)
  BY <1>2, <1>5, <1>6 DEF IsConfig
<1>7. \/ Tail(proc.rest) = <<config.vm_data_dir, config.console_log_dir>> /\ Now(config.base_dir)
      \/ /\ Tail(proc.rest) = <<config.console_log_dir>>
         /\ Now(config.base_dir) /\ Now(config.vm_data_dir)
      \/ /\ Tail(proc.rest) = <<>>
         /\ Now(config.base_dir) /\ Now(config.vm_data_dir) /\ Now(config.console_log_dir)
  <2>1. CASE proc.rest = RequiredDirs(config)
    <3>1. /\ d = config.base_dir
          /\ Tail(proc.rest) = <<config.vm_data_dir, config.console_log_dir>>
      BY <2>1 DEF RequiredDirs, StorageDirs
    <3> QED
      BY <1>4, <3>1
  <2>2. CASE /\ proc.rest = <<config.vm_data_dir, config.console_log_dir>>
             /\ Settled(config.base_dir)
    <3>1. d = config.vm_data_dir /\ Tail(proc.rest) = <<config.console_log_dir>>
      BY <2>2
    <3> QED
      BY <1>4, <1>6, <2>2, <3>1
  <2>3. CASE /\ proc.rest = <<config.console_log_dir>>
             /\ Settled(config.base_dir) /\ Settled(config.vm_data_dir)
    <3>1. d = config.console_log_dir /\ Tail(proc.rest) = <<>>
      BY <2>3
    <3> QED
      BY <1>4, <1>6, <2>3, <3>1
  <2> QED
    BY <1>1, <1>2, <2>1, <2>2, <2>3 DEF Noted
<1>8. Noted' /\ Errors(config)' \subseteq errors'
  BY <1>1, <1>2, <1>7 DEF Noted, Settled, IsDir, Now
<1> QED
  BY <1>1, <1>2, <1>3, <1>8 DEF UsableInv, DirsStay, HasConfig

(* Of a process that has ended nothing is asked.                           *)
LEMMA GoneIsUsable ==
  ASSUME dirs' \in [Paths -> Modes], proc'.at = "off"
  PROVE  UsableInv'
  BY DEF UsableInv, HasConfig

(* A step of a process that has its configuration, and keeps it.           *)
LEMMA KeepsUsable ==
  ASSUME UsableInv, DirsStay, HasConfig, proc'.at # "loading", config' = config
  PROVE  UsableInv'
<1>1. IsConfig /\ Errors(config) = {} /\ AllMade
  BY DEF UsableInv, HasConfig
<1>2. IsConfig' /\ Errors(config)' = {} /\ AllMade'
  BY <1>1 DEF IsConfig, AllMade, DirsStay, IsDir
<1> QED
  BY <1>2 DEF UsableInv, DirsStay

(* A configuration that load returned satisfies validate()'s rules, and    *)
(* its directories are there as long as the process runs, whichever of the *)
(* three loops made them and wherever another one stopped.                 *)
THEOREM LoadedConfigIsAlwaysUsable == FilesSpec => []LoadedConfigIsUsable
<1>1. FilesInit => UsableInv
  BY DEF FilesInit, UsableInv, HasConfig, Off, Modes
<1>2. ASSUME UsableInv, [FilesNext]_fileVars PROVE UsableInv'
  <2>1. dirs \in [Paths -> Modes]
    BY <1>2 DEF UsableInv
  <2>2. ASSUME dirs' = dirs PROVE DirsStay
    BY <2>1, <2>2 DEF DirsStay, IsDir
  <2>3. ASSUME NEW doc \in Docs, NEW env \in Envs, Load(doc, env) PROVE UsableInv'
    <3>1. /\ dirs' = dirs /\ config' = Result(doc, env) /\ Result(doc, env) # Bad
          /\ errors' = Errors(config')
          /\ proc'.at = "loading" /\ proc'.rest = RequiredDirs(config')
      BY <2>3 DEF Load, At
    <3>2. IsConfig'
      BY <3>1, FilesAssumption DEF IsConfig
    <3> QED
      BY <2>1, <3>1, <3>2 DEF UsableInv, Noted, HasConfig
  <2>4. CASE UNCHANGED hostVars
    BY <1>2, <2>4 DEF hostVars, UsableInv, HasConfig, AllMade, IsDir, IsConfig, Noted, Settled
  <2>5. CASE LoadReturns
    <3>1. CASE errors # {}
      BY <2>1, <2>5, <3>1, GoneIsUsable DEF LoadReturns, Raises, Off
    <3>2. CASE errors = {}
      <4>1. /\ proc.at = "loading" /\ proc.rest = <<>> /\ proc'.at = "loaded"
            /\ UNCHANGED <<dirs, config>>
        BY <2>5, <3>2 DEF LoadReturns, At
      <4>2. IsConfig /\ Errors(config) = {} /\ Noted
        BY <1>2, <3>2, <4>1 DEF UsableInv
      <4>3. AllMade
        BY <3>2, <4>1, <4>2 DEF Noted, Settled, AllMade, RequiredDirs, StorageDirs
      <4> QED
        BY <2>1, <4>1, <4>2, <4>3 DEF UsableInv, IsConfig, AllMade, IsDir
    <3> QED
      BY <3>1, <3>2
  <2>6. ASSUME NEW at, NEW then, at \in {"managing", "starting"}, then \in {"loaded", "serving"},
               BeginTree(at) \/ TreeIsThere(at, then)
        PROVE  UsableInv'
    <3>1. HasConfig /\ proc'.at # "loading" /\ UNCHANGED <<dirs, config>>
      BY <2>6 DEF BeginTree, TreeIsThere, At, HasConfig
    <3> QED
      BY <1>2, <2>2, <3>1, KeepsUsable
  <2>7. CASE EnsureDirectory \/ (\E v \in Guests, c \in Configs : Generate(v, c))
    <3>1. /\ HasConfig /\ proc'.at # "loading" /\ config' = config
          /\ \E p : dirs' = Made(p, "default")
      BY <2>7 DEF EnsureDirectory, GoOn, At, HasConfig, Generate
    <3>2. DirsStay
      BY <2>1, <3>1, MadeStays DEF Modes
    <3> QED
      BY <1>2, <3>1, <3>2, KeepsUsable
  <2>8. CASE EnsurePrivateDirectory
    <3>1. /\ HasConfig /\ proc'.at # "loading" /\ config' = config
          /\ dirs' = [Made(Head(proc.rest), "private") EXCEPT ![Head(proc.rest)] = "private"]
      BY <2>8 DEF EnsurePrivateDirectory, GoOn, At, HasConfig
    <3> DEFINE m == Made(Head(proc.rest), "private")
    <3>2. /\ m \in [Paths -> Modes]
          /\ \A p \in Paths : dirs[p] # "absent" => m[p] = dirs[p]
      BY <2>1, MadeKeeps DEF Modes
    <3> HIDE DEF m
    <3>3. /\ dirs' \in [Paths -> Modes]
          /\ \A p \in Paths : dirs'[p] \in {m[p], "private"}
      BY <3>1, <3>2 DEF Modes, m
    <3>4. DirsStay
      BY <3>2, <3>3 DEF DirsStay, IsDir
    <3> QED
      BY <1>2, <3>1, <3>4, KeepsUsable
  <2>9. ASSUME NEW at, TreeRaises(at) PROVE UsableInv'
    <3>1. /\ proc'.at = "off"
          /\ \/ dirs' \in LeftBehind(Head(proc.rest))
             \/ dirs' = Made(Head(proc.rest), "private")
      BY <2>9 DEF TreeRaises, Raises, Off
    <3> QED
      BY <2>1, <3>1, MadeStays, GoneIsUsable DEF DirsStay, Modes
  <2>10. CASE Stop
    BY <2>1, <2>10, GoneIsUsable DEF Stop, Raises, Off
  <2>11. ASSUME NEW p \in Paths, Rearrange(p) PROVE UsableInv'
    <3>1. proc'.at = "off" /\ dirs' \in [Paths -> Modes]
      BY <2>1, <2>11 DEF Rearrange, Off, Modes
    <3> QED
      BY <3>1, GoneIsUsable
  <2>12. CASE HostStep
    <3>1. ASSUME NEW doc \in Docs, NEW env \in Envs, LoadRaises(doc, env) PROVE UsableInv'
      BY <2>4, <3>1 DEF LoadRaises
    <3> QED
      BY <1>2, <2>3, <2>5, <2>6, <2>7, <2>8, <2>9, <2>11, <2>12, <3>1, ValidateKeepsUsable
      DEF HostStep
  <2> QED
    BY <1>2, <2>4, <2>7, <2>10, <2>12 DEF FilesNext, fileVars
<1>3. UsableInv => LoadedConfigIsUsable
  <2>1. ASSUME UsableInv, HasConfig
        PROVE  /\ config.port \in Ports
               /\ config.default_cpu_cores \in 1..config.max_cpu_cores
    <3>1. IsConfig /\ PortErrors(config) = {} /\ ResourceErrors(config) = {}
      BY <2>1 DEF UsableInv, HasConfig, Errors
    <3>2. config.port \in Ports
      <4>1. "port" \notin PortErrors(config)
        BY <3>1
      <4> QED
        BY <4>1, Zenon DEF PortErrors
    <3>3. ~(config.default_cpu_cores <= 0 \/ config.default_cpu_cores > config.max_cpu_cores)
      BY <3>1, Zenon DEF ResourceErrors
    <3>4. config.default_cpu_cores \in Int /\ config.max_cpu_cores \in Int
      BY <3>1 DEF IsConfig
    <3>5. config.default_cpu_cores \in 1..config.max_cpu_cores
      BY <3>3, <3>4
    <3> QED
      BY <3>2, <3>5
  <2>2. \A i \in DOMAIN RequiredDirs(config) :
          RequiredDirs(config)[i] \in
            {config.base_dir, config.vm_data_dir, config.console_log_dir}
    BY DEF RequiredDirs
  <2>3. ASSUME UsableInv, HasConfig PROVE Errors(config) = {} /\ AllMade
    BY <2>3 DEF UsableInv
  <2>4. ASSUME AllMade PROVE \A i \in DOMAIN RequiredDirs(config) : IsDir(RequiredDirs(config)[i])
    BY <2>2, <2>4, Zenon DEF AllMade
  <2> QED
    BY <2>1, <2>3, <2>4 DEF LoadedConfigIsUsable
<1> QED
  BY <1>1, <1>2, <1>3, PTL DEF FilesSpec

-----------------------------------------------------------------------------
(* What a call has done so far: generate has written the files before the  *)
(* one it is at, delete has removed them, and neither has an outcome.      *)
Progress ==
  /\ task # NoTask => outcome[task.vm] = Unknown
  /\ task.does = "generate" =>
       /\ task.next \in {"meta", "iso"} => files[task.vm].user = task.config
       /\ task.next = "iso" => files[task.vm].meta = task.config
  /\ task.does = "delete" =>
       /\ task.next \in {"user", "meta"} => files[task.vm].iso = NoFile
       /\ task.next = "meta" => files[task.vm].user = NoFile

CloudInv ==
  /\ CloudTypeOK
  /\ Progress
  /\ ReturnedImageIsCurrent
  /\ DeletedIsGone

CloudNext ==
  \/ \E v \in Guests, c \in Configs : BeginGenerate(v, c)
  \/ CloudInitStep

-----------------------------------------------------------------------------
(* A step of the host is one of the cloud-init files, or leaves them.      *)
LEMMA FilesNextIsCloudNext == FilesNext => CloudNext \/ UNCHANGED cloudVars
  BY DEF FilesNext, CloudNext, Stop, Generate, CloudInitStep

(* At the start there is no file and no call.                              *)
LEMMA CloudInitialInv == CloudInitial => CloudInv
  BY DEF CloudInitial, CloudInv, CloudTypeOK, Progress, ReturnedImageIsCurrent, DeletedIsGone,
         NoTask, Tasks, Unknown, Outcomes, NoFiles, Data, Image

(* A call that begins touches no file and forgets the last outcome.        *)
LEMMA BeginKeepsInv ==
  ASSUME CloudInv, NEW v \in Guests,
         BeginDelete(v) \/ \E c \in Configs : BeginGenerate(v, c)
  PROVE  CloudInv'
<1>1. /\ files' = files /\ task'.vm = v /\ task' \in Tasks
      /\ outcome' = [outcome EXCEPT ![v] = Unknown]
      /\ \/ task'.does = "delete" /\ task'.next = "iso"
         \/ task'.does = "generate" /\ task'.next = "user"
  BY DEF BeginDelete, BeginGenerate, Tasks
<1>2. CloudTypeOK'
  BY <1>1 DEF CloudInv, CloudTypeOK, Outcomes
<1>3. Progress'
  BY <1>1 DEF CloudInv, CloudTypeOK, Progress
<1>4. ReturnedImageIsCurrent' /\ DeletedIsGone'
  BY <1>1 DEF CloudInv, CloudTypeOK, ReturnedImageIsCurrent, DeletedIsGone, Unknown
<1> QED
  BY <1>2, <1>3, <1>4 DEF CloudInv

(* Each step of a call keeps its progress and what the other VMs' files    *)
(* say.                                                                    *)
LEMMA WriteUserDataKeepsInv == ASSUME CloudInv, WriteUserData PROVE CloudInv'
  BY CloudInitAssumption
  DEF CloudInv, CloudTypeOK, Progress, ReturnedImageIsCurrent, DeletedIsGone, WriteUserData,
      Doing, NoTask, Tasks, Unknown, Outcomes, NoFiles, Data, Image

(* meta-data joins user-data, of the same configuration.                   *)
LEMMA WriteMetaDataKeepsInv == ASSUME CloudInv, WriteMetaData PROVE CloudInv'
  BY CloudInitAssumption
  DEF CloudInv, CloudTypeOK, Progress, ReturnedImageIsCurrent, DeletedIsGone, WriteMetaData,
      Doing, NoTask, Tasks, Unknown, Outcomes, NoFiles, Data, Image

(* The image is made of both, and the call returns.                        *)
LEMMA BuildImageKeepsInv == ASSUME CloudInv, BuildImage PROVE CloudInv'
  BY CloudInitAssumption
  DEF CloudInv, CloudTypeOK, Progress, ReturnedImageIsCurrent, DeletedIsGone, BuildImage,
      Doing, NoTask, Tasks, Unknown, Outcomes, NoFiles, Data, Image

(* One file less, the image first; none is left when the call returns.     *)
LEMMA UnlinkKeepsInv == ASSUME CloudInv, Unlink PROVE CloudInv'
  BY CloudInitAssumption
  DEF CloudInv, CloudTypeOK, Progress, ReturnedImageIsCurrent, DeletedIsGone, Unlink,
      AfterUnlink, NoTask, Tasks, Unknown, Outcomes, NoFiles, Data, Image

(* A call that raises may leave any files of its own VM, for no outcome    *)
(* speaks of them, as long as an image among them has the other two.       *)
LEMMA OneVMsFilesMayDiffer ==
  ASSUME CloudInv, task # NoTask, task' = NoTask, outcome' = outcome,
         files' \in [Guests -> [user : Data, meta : Data, iso : Image]],
         \A v \in Guests : v # task.vm => files'[v] = files[v],
         files'[task.vm].iso # NoFile =>
           files'[task.vm].user # NoFile /\ files'[task.vm].meta # NoFile
  PROVE  CloudInv'
<1>1. task.vm \in Guests /\ outcome[task.vm] = Unknown
  BY DEF CloudInv, CloudTypeOK, Progress, Tasks
<1>2. CloudTypeOK' /\ Progress'
  BY DEF CloudInv, CloudTypeOK, Progress, Tasks, NoTask
<1>3. ReturnedImageIsCurrent'
  BY <1>1 DEF CloudInv, ReturnedImageIsCurrent, Unknown
<1>4. DeletedIsGone'
  BY <1>1 DEF CloudInv, DeletedIsGone, Unknown
<1> QED
  BY <1>2, <1>3, <1>4 DEF CloudInv

(* A step that raises: an image that was being made has both files beside  *)
(* it, one that is being deleted has gone already.                         *)
LEMMA StepRaisesKeepsInv == ASSUME CloudInv, StepRaises PROVE CloudInv'
<1>1. task' = NoTask /\ task # NoTask /\ outcome' = outcome /\ CloudTypeOK /\ task \in Tasks
  BY DEF StepRaises, CloudInv, CloudTypeOK
<1>2. CASE task.does = "delete"
  <2>1. files' = files /\ task.vm \in Guests
    BY <1>1, <1>2 DEF StepRaises, Tasks
  <2> QED
    BY <1>1, <2>1, OneVMsFilesMayDiffer DEF CloudInv, CloudTypeOK, DeletedIsGone
<1>3. CASE task.does = "generate"
  <2>1. task.vm \in Guests /\ task.next \in {"user", "meta", "iso"} /\ task.config \in Configs
    BY <1>1, <1>3 DEF Tasks
  <2>2. PICK file \in Left(task.next, files[task.vm][task.next]) :
               files' = [files EXCEPT ![task.vm][task.next] = file]
    BY <1>3 DEF StepRaises
  <2>3. \A v \in Guests : v # task.vm => files'[v] = files[v]
    BY <1>1, <2>2 DEF CloudTypeOK
  <2>4. files[task.vm].iso # NoFile =>
          files[task.vm].user # NoFile /\ files[task.vm].meta # NoFile
    BY <2>1 DEF CloudInv, DeletedIsGone
  <2>5. CASE task.next \in {"user", "meta"}
    <3>1. file \in {files[task.vm][task.next], Partial}
      BY <2>2, <2>5 DEF Left
    <3>2. file \in Data /\ (file = NoFile => files[task.vm][task.next] = NoFile)
      <4>1. files[task.vm].user \in Data /\ files[task.vm].meta \in Data
        BY <1>1, <2>1 DEF CloudTypeOK
      <4> QED
        BY <2>5, <3>1, <4>1, CloudInitAssumption DEF Data
    <3>3. files' = [files EXCEPT ![task.vm].user = file]
          \/ files' = [files EXCEPT ![task.vm].meta = file]
      BY <2>2, <2>5
    <3>4. files' \in [Guests -> [user : Data, meta : Data, iso : Image]]
      BY <1>1, <2>1, <3>2, <3>3 DEF CloudTypeOK
    <3>5. files'[task.vm].iso # NoFile =>
            files'[task.vm].user # NoFile /\ files'[task.vm].meta # NoFile
      <4>1. CASE task.next = "user"
        BY <1>1, <2>1, <2>2, <2>4, <3>2, <4>1 DEF CloudTypeOK
      <4>2. CASE task.next = "meta"
        BY <1>1, <2>1, <2>2, <2>4, <3>2, <4>2 DEF CloudTypeOK
      <4> QED
        BY <2>5, <4>1, <4>2
    <3> QED
      BY <1>1, <2>3, <3>4, <3>5, OneVMsFilesMayDiffer
  <2>6. CASE task.next = "iso"
    <3>1. file \in Image
      BY <1>1, <2>1, <2>2, <2>6 DEF Left, CloudTypeOK, Image
    <3>2. files' = [files EXCEPT ![task.vm].iso = file]
      BY <2>2, <2>6
    <3>3. files[task.vm].user # NoFile /\ files[task.vm].meta # NoFile
      <4>1. files[task.vm].user = task.config /\ files[task.vm].meta = task.config
        BY <1>3, <2>6 DEF CloudInv, Progress
      <4> QED
        BY <2>1, <4>1, CloudInitAssumption
    <3>4. files' \in [Guests -> [user : Data, meta : Data, iso : Image]]
      BY <1>1, <2>1, <3>1, <3>2 DEF CloudTypeOK
    <3>5. files'[task.vm].user # NoFile /\ files'[task.vm].meta # NoFile
      BY <1>1, <2>1, <3>2, <3>3 DEF CloudTypeOK
    <3> QED
      BY <1>1, <2>3, <3>4, <3>5, OneVMsFilesMayDiffer
  <2> QED
    BY <2>1, <2>5, <2>6
<1> QED
  BY <1>1, <1>2, <1>3 DEF Tasks, NoTask

(* Every step keeps the invariant.                                         *)
LEMMA CloudStep == ASSUME CloudInv, [FilesNext]_fileVars PROVE CloudInv'
<1>1. CASE UNCHANGED cloudVars
  BY <1>1 DEF CloudInv, CloudTypeOK, Progress, ReturnedImageIsCurrent, DeletedIsGone, cloudVars
<1>2. CASE CloudNext
  BY <1>2, BeginKeepsInv, WriteUserDataKeepsInv, WriteMetaDataKeepsInv, BuildImageKeepsInv,
     UnlinkKeepsInv, StepRaisesKeepsInv DEF CloudNext, CloudInitStep
<1> QED
  BY <1>1, <1>2, FilesNextIsCloudNext DEF fileVars

(* So the invariant holds of every reachable state.                        *)
LEMMA CloudInvHolds == FilesSpec => []CloudInv
<1>1. FilesInit => CloudInv
  BY CloudInitialInv DEF FilesInit
<1>2. CloudInv /\ [FilesNext]_fileVars => CloudInv'
  BY CloudStep
<1> QED
  BY <1>1, <1>2, PTL DEF FilesSpec

-----------------------------------------------------------------------------
(* Files, calls and outcomes keep their types: no call leaves a file that  *)
(* is neither whole, cut short nor gone.                                   *)
THEOREM CloudTypeCorrect == FilesSpec => []CloudTypeOK
  BY CloudInvHolds, PTL DEF CloudInv

(* The image that generate_cloud_init_iso returned is made of both files   *)
(* of that call, whatever earlier calls and processes left there.          *)
THEOREM ReturnedImageIsAlwaysCurrent == FilesSpec => []ReturnedImageIsCurrent
  BY CloudInvHolds, PTL DEF CloudInv

(* delete_cloud_init_iso that returned left none of the three files, and   *)
(* no image stands without the two it was made of.                         *)
THEOREM DeletedIsAlwaysGone == FilesSpec => []DeletedIsGone
  BY CloudInvHolds, PTL DEF CloudInv

-----------------------------------------------------------------------------
(* What is there is in directories.                                        *)
RootedIn(d) ==
  \A p \in Paths : \A q \in Ancestors(p) : d[p] # "absent" => d[q] \in {"default", "private"}

(* load has read its values, and is past that once it makes directories.   *)
FilesInv ==
  /\ dirs \in [Paths -> Modes] /\ RootedIn(dirs)
  /\ proc.at \in PCs /\ proc.rest \in Seq(Paths)
  /\ config = Unset <=> proc.at = "off"
  /\ proc.at # "off" =>
       {config.base_dir, config.vm_data_dir, config.console_log_dir} \subseteq Paths
  /\ proc.at # "loading" => given = Nothing /\ errors = {}
  /\ proc.at = "loading" /\ proc.rest = <<>> => given = Nothing

(* mkdir(parents=True) makes nothing outside of a directory.               *)
LEMMA MadeIsRooted ==
  ASSUME dirs \in [Paths -> Modes], RootedIn(dirs), NEW p \in Paths, ~Blocked(p),
         NEW mode \in Modes \ {"file"}
  PROVE  RootedIn(Made(p, mode)) /\ Made(p, "private")[p] # "absent"
<1>1. p \notin Ancestors(p) /\ \A q \in Ancestors(p) : Ancestors(q) \subseteq Ancestors(p)
  BY FilesAssumption
<1>2. \A q \in Ancestors(p) \cup {p} : dirs[q] \in {"absent", "default", "private"}
  BY DEF Blocked, Modes, Ancestors
<1>3. ASSUME NEW r \in Paths, NEW q \in Ancestors(r), Made(p, mode)[r] # "absent"
      PROVE  Made(p, mode)[q] \in {"default", "private"}
  <2>1. q \in Paths
    BY <1>3 DEF Ancestors
  <2>2. CASE dirs[r] # "absent"
    <3>1. dirs[q] \in {"default", "private"}
      BY <1>3, <2>2 DEF RootedIn
    <3> QED
      BY <2>1, <3>1 DEF Made
  <2>3. CASE dirs[r] = "absent"
    <3>1. r = p \/ r \in Ancestors(p)
      BY <1>3, <2>3 DEF Made
    <3>2. q \in Ancestors(p) /\ q # p
      BY <1>1, <1>3, <3>1
    <3> QED
      BY <1>2, <2>1, <3>2 DEF Made
  <2> QED
    BY <2>2, <2>3
<1>4. Made(p, "private")[p] # "absent"
  BY DEF Made
<1> QED
  BY <1>3, <1>4 DEF RootedIn

(* So it is with one that fails.                                           *)
LEMMA LeftBehindIsRooted ==
  ASSUME dirs \in [Paths -> Modes], RootedIn(dirs), NEW p \in Paths, NEW left \in LeftBehind(p)
  PROVE  RootedIn(left)
<1>1. CASE Blocked(p)
  BY <1>1 DEF LeftBehind
<1>2. CASE ~Blocked(p)
  <2>1. dirs[p] \in Modes \ {"file"}
    BY <1>2 DEF Blocked, Modes
  <2> QED
    BY <1>2, <2>1, MadeIsRooted DEF LeftBehind
<1> QED
  BY <1>1, <1>2

(* The first directory of those that are left, and the others.             *)
LEMMA RestIsPaths ==
  ASSUME FilesInv, proc.rest # <<>>
  PROVE  Head(proc.rest) \in Paths /\ Tail(proc.rest) \in Seq(Paths)
  BY DEF FilesInv

(* A mkdir, one that fails or none: the directories are as they should be. *)
DirsDone(p) ==
  \/ dirs' = dirs
  \/ ~Blocked(p) /\ \E mode \in {"default", "private"} : dirs' = Made(p, mode)
  \/ ~Blocked(p) /\ dirs' = [Made(p, "private") EXCEPT ![p] = "private"]
  \/ dirs' \in LeftBehind(p)

LEMMA DoneIsRooted ==
  ASSUME dirs \in [Paths -> Modes], RootedIn(dirs), NEW p \in Paths, DirsDone(p)
  PROVE  dirs' \in [Paths -> Modes] /\ RootedIn(dirs')
<1>1. CASE dirs' = dirs
  BY <1>1
<1>2. ASSUME ~Blocked(p), NEW mode \in {"default", "private"}, dirs' = Made(p, mode)
      PROVE  dirs' \in [Paths -> Modes] /\ RootedIn(dirs')
  <2>1. mode \in Modes \ {"file"}
    BY DEF Modes
  <2> QED
    BY <1>2, <2>1, MadeKeeps, MadeIsRooted
<1>3. CASE ~Blocked(p) /\ dirs' = [Made(p, "private") EXCEPT ![p] = "private"]
  <2> DEFINE m == Made(p, "private")
  <2>1. "private" \in Modes \ {"file"}
    BY DEF Modes
  <2>2. m \in [Paths -> Modes] /\ RootedIn(m) /\ m[p] # "absent"
    BY <1>3, <2>1, MadeKeeps, MadeIsRooted
  <2>3. dirs' = [m EXCEPT ![p] = "private"]
    BY <1>3
  <2> HIDE DEF m
  <2>4. \A q \in Paths : Ancestors(q) \subseteq Paths
    BY DEF Ancestors
  <2> QED
    BY <2>1, <2>2, <2>3, <2>4 DEF RootedIn
<1>4. CASE dirs' \in LeftBehind(p)
  BY <1>4, LeftBehindType, LeftBehindIsRooted
<1> QED
  BY <1>1, <1>2, <1>3, <1>4 DEF DirsDone

(* When nothing runs, what the environment does leaves it so as well.      *)
LEMMA RearrangeKeepsFiles ==
  ASSUME FilesInv, NEW p \in Paths, Rearrange(p)
  PROVE  FilesInv'
<1>1. UNCHANGED <<proc, config, given, errors>>
  BY DEF Rearrange
<1>2. PICK what \in Modes :
        /\ dirs' = [dirs EXCEPT ![p] = what]
        /\ what # "absent" => \A q \in Ancestors(p) : IsDir(q)
        /\ what \in {"absent", "file"} => \A q \in Paths : p \in Ancestors(q) => dirs[q] = "absent"
  BY DEF Rearrange, Modes
<1>3. dirs \in [Paths -> Modes] /\ RootedIn(dirs) /\ dirs' \in [Paths -> Modes]
  BY <1>2 DEF FilesInv
<1>4. ASSUME NEW r \in Paths, NEW q \in Ancestors(r), dirs'[r] # "absent"
      PROVE  dirs'[q] \in {"default", "private"}
  <2>1. q \in Paths /\ q # r
    BY <1>4, FilesAssumption DEF Ancestors
  <2>2. CASE r = p
    BY <1>2, <1>3, <1>4, <2>1, <2>2 DEF IsDir
  <2>3. CASE r # p
    <3>1. dirs[r] # "absent" /\ dirs[q] \in {"default", "private"}
      BY <1>2, <1>3, <1>4, <2>3 DEF RootedIn
    <3>2. CASE q = p
      BY <1>2, <1>3, <1>4, <3>1, <3>2 DEF Modes
    <3>3. CASE q # p
      BY <1>2, <1>3, <2>1, <3>1, <3>3
    <3> QED
      BY <3>2, <3>3
  <2> QED
    BY <2>2, <2>3
<1> QED
  BY <1>1, <1>3, <1>4 DEF FilesInv, RootedIn

(* A step of the process that has not ended with it.                       *)
LEMMA GoingOnKeepsFiles ==
  ASSUME FilesInv, proc.at # "off", config' = config, NEW p \in Paths, DirsDone(p),
         proc'.at \in PCs \ {"off"}, proc'.rest \in Seq(Paths),
         given' = Nothing,
         proc'.at # "loading" => errors' = {}
  PROVE  FilesInv'
<1>1. dirs' \in [Paths -> Modes] /\ RootedIn(dirs')
  BY DoneIsRooted DEF FilesInv
<1> QED
  BY <1>1 DEF FilesInv

(* One that ends it.                                                       *)
LEMMA EndingKeepsFiles ==
  ASSUME FilesInv, Raises, NEW p \in Paths, DirsDone(p)
  PROVE  FilesInv'
<1>1. dirs' \in [Paths -> Modes] /\ RootedIn(dirs')
  BY DoneIsRooted DEF FilesInv
<1>2. proc'.at = "off" /\ proc'.rest = <<>> /\ config' = Unset /\ given' = Nothing /\ errors' = {}
  BY DEF Raises, Off
<1> QED
  BY <1>1, <1>2 DEF FilesInv, PCs

(* Every step keeps directories and process what they are.                 *)
LEMMA FilesStep == ASSUME FilesInv, [FilesNext]_fileVars PROVE FilesInv'
<1>1. CASE UNCHANGED hostVars
  BY <1>1 DEF FilesInv, hostVars
<1>2. ASSUME NEW doc \in Docs, NEW env \in Envs, Load(doc, env) PROVE FilesInv'
  <2>1. /\ dirs' = dirs /\ config' = Result(doc, env) /\ Result(doc, env) # Bad
        /\ proc'.at = "loading" /\ proc'.rest = RequiredDirs(config')
    BY <1>2 DEF Load, At
  <2>2. /\ config' # Unset
        /\ {config'.base_dir, config'.vm_data_dir, config'.console_log_dir} \subseteq Paths
    BY <2>1, FilesAssumption
  <2>3. proc'.rest \in Seq(Paths) /\ proc'.rest # <<>>
    BY <2>1, <2>2 DEF RequiredDirs
  <2> QED
    BY <2>1, <2>2, <2>3 DEF FilesInv, PCs
<1>3. CASE ValidateDirectory
  <2>1. /\ proc.at = "loading" /\ proc.rest # <<>> /\ config' = config /\ given' = Nothing
        /\ proc'.at = "loading" /\ proc'.rest = Tail(proc.rest)
        /\ \/ ~Blocked(Head(proc.rest)) /\ dirs' = Made(Head(proc.rest), "default")
           \/ dirs' \in LeftBehind(Head(proc.rest))
    <3>1. /\ proc.at = "loading" /\ proc.rest # <<>> /\ given' = Nothing
          /\ \/ /\ ~Blocked(Head(proc.rest)) /\ dirs' = Made(Head(proc.rest), "default")
                /\ GoOn("loading") /\ config' = config
             \/ CannotMake
      BY <1>3, Zenon DEF ValidateDirectory
    <3>2. CASE CannotMake
      BY <3>1, <3>2 DEF CannotMake, At
    <3>3. CASE /\ ~Blocked(Head(proc.rest)) /\ dirs' = Made(Head(proc.rest), "default")
               /\ GoOn("loading") /\ config' = config
      BY <3>1, <3>3 DEF GoOn, At
    <3> QED
      BY <3>1, <3>2, <3>3
  <2>2. Head(proc.rest) \in Paths /\ proc'.rest \in Seq(Paths)
    BY <2>1, RestIsPaths
  <2>3. proc.at # "off" /\ proc'.at \in PCs \ {"off"}
    BY <2>1 DEF PCs
  <2>4. DirsDone(Head(proc.rest))
    BY <2>1 DEF DirsDone
  <2> QED
    BY <2>1, <2>2, <2>3, <2>4, GoingOnKeepsFiles
<1>4. CASE LoadReturns
  <2>1. proc.at = "loading" /\ proc.rest = <<>> /\ dirs' = dirs
    BY <1>4 DEF LoadReturns
  <2>2. CASE errors = {}
    <3>1. /\ proc'.at = "loaded" /\ proc'.rest = <<>> /\ UNCHANGED <<config, given, errors>>
      BY <1>4, <2>2 DEF LoadReturns, At
    <3> QED
      BY <2>1, <2>2, <3>1 DEF FilesInv, PCs
  <2>3. CASE errors # {}
    BY <1>4, <2>1, <2>3, EndingKeepsFiles, FilesAssumption DEF LoadReturns, DirsDone
  <2> QED
    BY <2>2, <2>3
<1>5. ASSUME NEW pc \in {"managing", "starting"}, BeginTree(pc) PROVE FilesInv'
  <2>1. /\ proc.at = "loaded" /\ UNCHANGED <<dirs, config, given, errors>>
        /\ proc'.at = pc /\ proc'.rest = StorageDirs(config)
    BY <1>5 DEF BeginTree, At
  <2>2. StorageDirs(config) \in Seq(Paths)
    BY <2>1 DEF FilesInv, StorageDirs
  <2> QED
    BY <2>1, <2>2 DEF FilesInv, PCs
<1>6. ASSUME NEW at \in {"managing", "starting"}, TreeRaises(at) PROVE FilesInv'
  <2>1. proc.rest # <<>> /\ Raises /\ DirsDone(Head(proc.rest))
    BY <1>6 DEF TreeRaises, DirsDone
  <2> QED
    BY <2>1, RestIsPaths, EndingKeepsFiles
<1>7. CASE EnsureDirectory \/ EnsurePrivateDirectory
  <2>1. /\ proc.at \in {"managing", "starting"} /\ proc.rest # <<>>
        /\ proc'.at = proc.at /\ proc'.rest = Tail(proc.rest)
        /\ UNCHANGED <<config, given, errors>>
        /\ DirsDone(Head(proc.rest))
    <3>1. CASE EnsureDirectory
      BY <3>1 DEF EnsureDirectory, GoOn, At, DirsDone
    <3>2. CASE EnsurePrivateDirectory
      BY <3>2 DEF EnsurePrivateDirectory, GoOn, At, DirsDone
    <3> QED
      BY <1>7, <3>1, <3>2
  <2>2. given = Nothing /\ errors = {}
    BY <2>1 DEF FilesInv
  <2>3. Head(proc.rest) \in Paths /\ proc'.rest \in Seq(Paths)
    BY <2>1, RestIsPaths
  <2>4. proc.at # "off" /\ proc'.at \in PCs \ {"off"}
    BY <2>1 DEF PCs
  <2> QED
    BY <2>1, <2>2, <2>3, <2>4, GoingOnKeepsFiles
<1>8. ASSUME NEW at \in {"managing", "starting"}, NEW then \in {"loaded", "serving"},
             TreeIsThere(at, then)
      PROVE  FilesInv'
  <2>1. /\ proc.at = at /\ UNCHANGED <<dirs, config, given, errors>>
        /\ proc'.at = then /\ proc'.rest = <<>>
    BY <1>8 DEF TreeIsThere, At
  <2> QED
    BY <2>1 DEF FilesInv, PCs
<1>9. ASSUME NEW v \in Guests, NEW c \in Configs, Generate(v, c) PROVE FilesInv'
  <2>1. /\ proc.at = "serving" /\ DirsDone(CloudDir) /\ CloudDir \in Paths
        /\ UNCHANGED <<proc, config, given, errors>>
    BY <1>9, FilesAssumption DEF Generate, DirsDone
  <2>2. given = Nothing /\ errors = {} /\ proc.rest \in Seq(Paths)
    BY <2>1 DEF FilesInv
  <2> QED
    BY <2>1, <2>2, GoingOnKeepsFiles DEF PCs
<1>10. CASE Stop
  BY <1>10, EndingKeepsFiles, FilesAssumption DEF Stop, DirsDone
<1>11. CASE HostStep
  <2>1. ASSUME NEW doc \in Docs, NEW env \in Envs, LoadRaises(doc, env) PROVE UNCHANGED hostVars
    BY <2>1 DEF LoadRaises
  <2> QED
    BY <1>1, <1>2, <1>3, <1>4, <1>5, <1>6, <1>7, <1>8, <1>11, <2>1, RearrangeKeepsFiles
    DEF HostStep
<1> QED
  BY <1>1, <1>9, <1>10, <1>11 DEF FilesNext, fileVars

(* What is on the host's file system is of the types of HostFiles: every   *)
(* file and directory is in a directory, the process has a configuration   *)
(* as long as it runs, and notes errors only while load makes directories. *)
THEOREM FilesTypeCorrect == FilesSpec => []FilesTypeOK
<1>1. FilesInit => FilesInv
  BY DEF FilesInit, FilesInv, RootedIn, IsDir, Off, Modes, PCs
<1>2. FilesInv /\ [FilesNext]_fileVars => FilesInv'
  BY FilesStep
<1>3. FilesInv /\ CloudInv => FilesTypeOK
  BY DEF FilesInv, CloudInv, FilesTypeOK, RootedIn, IsDir, Modes, Range
<1> QED
  BY <1>1, <1>2, <1>3, CloudInvHolds, PTL DEF FilesSpec
=============================================================================
