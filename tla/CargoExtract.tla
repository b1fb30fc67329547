---------------------------- MODULE CargoExtract ----------------------------
(***************************************************************************)
(* rust-mir-extract --cargo.  A driver makes a work directory and runs      *)
(* Cargo, which runs the extractor again, in parallel, as the wrapper of    *)
(* every rustc it needs.  A wrapper for the primary package writes the      *)
(* module of its crate, a fragment, into the work directory; when Cargo has *)
(* succeeded the driver merges the fragments it finds there, and removes    *)
(* the directory on its way out.  Drivers run side by side on one temporary *)
(* directory, together with extractors that execute a crate and make two    *)
(* such directories (execute_crate_root_main); processes get killed.        *)
(*                                                                          *)
(* Cargo, rustc, the clock and the table of processes are external and may  *)
(* do what they can do.  A process number is not used twice at one reading  *)
(* of the clock, which counts nanoseconds.                                  *)
(***************************************************************************)
EXTENDS Naturals, FiniteSets

CONSTANTS
  Drivers,     \* the extractors a user starts
  Executes,    \* those of them that execute a crate instead of driving Cargo
  Plans,       \* what may run side by side: for each extractor that is started the
               \* rustc invocations its Cargo makes
  Units,       \* rustc invocations
  CrateName,   \* CrateName[u]: the value of --crate-name
  BuildScript, \* the crate name build_script_build
  Primary,     \* the invocations with CARGO_PRIMARY_PACKAGE set
  Needs,       \* Needs[u]: the invocations whose metadata u reads
  Symbols,     \* Symbols[u]: the symbols the module of u's crate defines
  Pids,        \* process numbers
  Attempts,    \* the names RustcOutputDir::create tries
  MaxTime,     \* bound on the clock
  MaxKills,    \* bound on the processes killed
  None         \* no value

ASSUME Constants ==
  /\ Executes \subseteq Drivers
  /\ \A p \in Plans : DOMAIN p \subseteq Drivers /\ p \in [DOMAIN p -> SUBSET Units]
  /\ Primary \subseteq Units
  /\ DOMAIN CrateName = Units
  /\ Needs \in [Units -> SUBSET Units]
  /\ DOMAIN Symbols = Units
  /\ Attempts \in Nat \ {0} /\ MaxTime \in Nat /\ MaxKills \in Nat
  /\ None \notin {"running", "ok", "failed", "killed"} /\ \A us \in SUBSET Units : us # None

VARIABLES
  builds,    \* the plan at hand
  now,       \* SystemTime::now
  recent,    \* the process numbers released since the clock last advanced
  kills,     \* how many processes were killed
  driver,    \* driver[d]: where it is, its pid and nonce, the next attempt, its
             \* exit code
  holding,   \* holding[d]: the paths of the RustcOutputDirs of d
  cargo,     \* cargo[d]: the Cargo of d: none, running, ok, failed or killed
  job,       \* job[d][u]: the rustc invocation u of the Cargo of d
  dirs,      \* the directories that exist
  files,     \* the fragments that exist: path |-> its unit, whether it is whole
  inputs,    \* inputs[d]: the fragments d lists for the merge
  output     \* output[d]: the units merged into the output, or None

hostVars   == <<builds, now, recent, kills>>
diskVars   == <<dirs, files>>
driverVars == <<driver, holding, inputs, output>>
cargoVars  == <<cargo, job>>
vars == <<hostVars, driverVars, cargoVars, diskVars>>

-----------------------------------------------------------------------------
Started == DOMAIN builds

(* is_primary_cargo_rustc_invocation: the wrappers that extract.            *)
Extracts(u) == u \in Primary /\ CrateName[u] # BuildScript

Fragments(d) == {u \in builds[d] : Extracts(u)}

Live(at) == at \in {"naming", "analysing", "writing", "compiling"}
Running(at) == at \notin {"new", "exited", "killed"}

DriverPids == {driver[d].pid : d \in {e \in Started : Running(driver[e].at)}}
JobPids ==
  UNION {{job[d][u].pid : u \in {v \in builds[d] : Live(job[d][v].at)}} : d \in Started}

FreePids == Pids \ (DriverPids \cup JobPids \cup recent)

FilesIn(p) == {f \in DOMAIN files : f.dir = p}
WithoutDir(p) == [f \in DOMAIN files \ FilesIn(p) |-> files[f]]

(* The path RustcOutputDir::create tries, and the one a driver of Cargo     *)
(* passes to the wrappers.                                                  *)
WorkDir(d) == <<driver[d].pid, driver[d].nonce, driver[d].attempt>>

Init ==
  /\ builds \in Plans
  /\ now = 0 /\ recent = {} /\ kills = 0
  /\ driver = [d \in Started |->
                 [at |-> "new", pid |-> None, nonce |-> 0, attempt |-> 0, code |-> None]]
  /\ holding = [d \in Started |-> {}]
  /\ cargo = [d \in Started |-> None]
  /\ job = [d \in Started |-> [u \in builds[d] |->
              [at |-> "waiting", pid |-> None, file |-> None]]]
  /\ dirs = {} /\ files = [f \in {} |-> None]
  /\ inputs = [d \in Started |-> {}]
  /\ output = [d \in Started |-> None]

Tick ==
  /\ now < MaxTime
  /\ now' = now + 1
  /\ recent' = {}
  /\ UNCHANGED <<builds, kills, driverVars, cargoVars, diskVars>>

-----------------------------------------------------------------------------
(* The driver.                                                              *)

StartDriver(d) ==
  /\ driver[d].at = "new"
  /\ \E p \in FreePids :
       driver' = [driver EXCEPT ![d].at = "creating", ![d].pid = p, ![d].nonce = now]
  /\ UNCHANGED <<hostVars, holding, inputs, output, cargoVars, diskVars>>

\* What a driver does once it has a directory: an extractor that executes makes
\* another.
AfterCreate(d) ==
  IF d \in Executes
    THEN IF holding[d] = {} THEN [driver[d] EXCEPT !.attempt = 0, !.nonce = now]
                            ELSE [driver[d] EXCEPT !.at = "executing"]
    ELSE [driver[d] EXCEPT !.at = "spawning"]

\* Mutants: a directory that exists is taken, as create_dir_all takes it; every
\* attempt tries the same name.
CreateDirAll(d) ==
  /\ driver[d].at = "creating"
  /\ dirs' = dirs \cup {WorkDir(d)}
  /\ holding' = [holding EXCEPT ![d] = @ \cup {WorkDir(d)}]
  /\ driver' = [driver EXCEPT ![d] = AfterCreate(d)]
  /\ UNCHANGED <<hostVars, inputs, output, cargoVars, files>>
CreateDirSameName(d) ==
  /\ driver[d].at = "creating"
  /\ WorkDir(d) \notin dirs
  /\ dirs' = dirs \cup {WorkDir(d)}
  /\ holding' = [holding EXCEPT ![d] = @ \cup {WorkDir(d)}]
  /\ driver' = [driver EXCEPT ![d] = AfterCreate(d)]
  /\ UNCHANGED <<hostVars, inputs, output, cargoVars, files>>

(* One attempt of RustcOutputDir::create.  After the last one the driver    *)
(* gives up, dropping what it already holds.                                *)
CreateDir(d) ==
  /\ driver[d].at = "creating"
  /\ IF WorkDir(d) \notin dirs
       THEN /\ dirs' = dirs \cup {WorkDir(d)}
            /\ holding' = [holding EXCEPT ![d] = @ \cup {WorkDir(d)}]
            /\ driver' = [driver EXCEPT ![d] = AfterCreate(d)]
       ELSE /\ driver' = [driver EXCEPT ![d] =
                 IF @.attempt + 1 < Attempts
                   THEN [@ EXCEPT !.attempt = driver[d].attempt + 1]
                   ELSE [@ EXCEPT !.at = "cleanup", !.code = 1]]
            /\ UNCHANGED <<dirs, holding>>
  /\ UNCHANGED <<hostVars, inputs, output, cargoVars, files>>

(* An extractor that executes a crate is done with it, well or not.         *)
Execute(d) ==
  /\ driver[d].at = "executing"
  /\ \E c \in {0, 1} : driver' = [driver EXCEPT ![d].at = "cleanup", ![d].code = c]
  /\ UNCHANGED <<hostVars, holding, inputs, output, cargoVars, diskVars>>

(* run_cargo up to command.status(): there is no manifest, or no Cargo, or  *)
(* Cargo runs.                                                              *)
RunCargo(d) ==
  /\ driver[d].at = "spawning"
  /\ \/ /\ driver' = [driver EXCEPT ![d].at = "cleanup", ![d].code = 1]
        /\ UNCHANGED cargo
     \/ /\ driver' = [driver EXCEPT ![d].at = "waiting"]
        /\ cargo' = [cargo EXCEPT ![d] = "running"]
  /\ UNCHANGED <<hostVars, holding, inputs, output, job, diskVars>>

\* Mutants: the status of Cargo is not looked at; after a failure the process
\* exits there and then, without dropping anything.
ListFragmentsAnyway(d) ==
  /\ driver[d].at = "waiting"
  /\ cargo[d] \notin {None, "running"}
  /\ inputs' = [inputs EXCEPT ![d] = FilesIn(WorkDir(d))]
  /\ driver' = [driver EXCEPT ![d] =
       IF inputs'[d] = {} THEN [@ EXCEPT !.at = "cleanup", !.code = 1]
                          ELSE [@ EXCEPT !.at = "merging"]]
  /\ UNCHANGED <<hostVars, holding, output, cargoVars, diskVars>>
ListFragmentsOrExit(d) ==
  /\ driver[d].at = "waiting"
  /\ cargo[d] \notin {None, "running"}
  /\ inputs' = [inputs EXCEPT ![d] = IF cargo[d] = "ok" THEN FilesIn(WorkDir(d)) ELSE {}]
  /\ driver' = [driver EXCEPT ![d] =
       IF inputs'[d] = {} THEN [@ EXCEPT !.at = "exited", !.code = 1]
                          ELSE [@ EXCEPT !.at = "merging"]]
  /\ UNCHANGED <<hostVars, holding, output, cargoVars, diskVars>>

(* Cargo has ended: the driver lists the fragments if it succeeded.         *)
ListFragments(d) ==
  /\ driver[d].at = "waiting"
  /\ cargo[d] \notin {None, "running"}
  /\ inputs' = [inputs EXCEPT ![d] = IF cargo[d] = "ok" THEN FilesIn(WorkDir(d)) ELSE {}]
  /\ driver' = [driver EXCEPT ![d] =
       IF inputs'[d] = {} THEN [@ EXCEPT !.at = "cleanup", !.code = 1]
                          ELSE [@ EXCEPT !.at = "merging"]]
  /\ UNCHANGED <<hostVars, holding, output, cargoVars, diskVars>>

\* Every input parses, and the module of all their operations verifies.
Mergeable(fs) ==
  /\ \A f \in fs : f \in DOMAIN files /\ files[f].whole
  /\ \A f, g \in fs :
       f # g => Symbols[files[f].unit] \cap Symbols[files[g].unit] = {}

\* Mutant: what merge_text_modules_to_file returns is not looked at.
MergeUnchecked(d) ==
  /\ driver[d].at = "merging"
  /\ driver' = [driver EXCEPT ![d].at = "cleanup", ![d].code = 0]
  /\ \/ /\ Mergeable(inputs[d])
        /\ output' = [output EXCEPT ![d] = {files[f].unit : f \in inputs[d]}]
     \/ UNCHANGED output
  /\ UNCHANGED <<hostVars, holding, inputs, cargoVars, diskVars>>

(* merge_text_modules_to_file: all of the inputs or an error; the output    *)
(* may be impossible to write.                                              *)
Merge(d) ==
  /\ driver[d].at = "merging"
  /\ \/ /\ Mergeable(inputs[d])
        /\ output' = [output EXCEPT ![d] = {files[f].unit : f \in inputs[d]}]
        /\ driver' = [driver EXCEPT ![d].at = "cleanup", ![d].code = 0]
     \/ /\ driver' = [driver EXCEPT ![d].at = "cleanup", ![d].code = 1]
        /\ UNCHANGED output
  /\ UNCHANGED <<hostVars, holding, inputs, cargoVars, diskVars>>

(* The directories are dropped, then the process ends.                      *)
CleanUp(d) ==
  /\ driver[d].at = "cleanup"
  /\ IF holding[d] # {}
       THEN \E p \in holding[d] :
              /\ dirs' = dirs \ {p}
              /\ files' = WithoutDir(p)
              /\ holding' = [holding EXCEPT ![d] = @ \ {p}]
              /\ UNCHANGED <<driver, recent>>
       ELSE /\ driver' = [driver EXCEPT ![d].at = "exited"]
            /\ recent' = recent \cup {driver[d].pid}
            /\ UNCHANGED <<holding, diskVars>>
  /\ UNCHANGED <<builds, now, kills, inputs, output, cargoVars>>

(* A killed driver drops nothing; its Cargo goes on.                        *)
KillDriver(d) ==
  /\ kills < MaxKills /\ Running(driver[d].at)
  /\ kills' = kills + 1
  /\ driver' = [driver EXCEPT ![d].at = "killed"]
  /\ recent' = recent \cup {driver[d].pid}
  /\ holding' = [holding EXCEPT ![d] = {}]
  /\ UNCHANGED <<builds, now, inputs, output, cargoVars, diskVars>>

-----------------------------------------------------------------------------
(* Cargo, and the wrapper in each of its rustc invocations.                 *)

SetJob(d, u, r) == job' = [job EXCEPT ![d][u] = r]

EndJob(d, u, at) ==
  /\ SetJob(d, u, [at |-> at, pid |-> None, file |-> None])
  /\ recent' = recent \cup {job[d][u].pid}
  /\ UNCHANGED <<builds, now, kills>>

HasFailed(d) == \E u \in builds[d] : job[d][u].at = "failed"

(* Cargo starts an invocation when it has the metadata of what it needs and *)
(* nothing has failed; the process may fail to start.  A wrapper that does  *)
(* not extract just runs rustc.                                             *)
StartJob(d, u) ==
  /\ cargo[d] = "running" /\ ~HasFailed(d)
  /\ job[d][u].at = "waiting"
  /\ \A v \in Needs[u] \cap builds[d] : job[d][v].at \in {"compiling", "ok"}
  /\ \/ \E p \in FreePids :
          SetJob(d, u, [at |-> IF Extracts(u) THEN "naming" ELSE "compiling",
                        pid |-> p, file |-> None])
     \/ SetJob(d, u, [job[d][u] EXCEPT !.at = "failed"])
  /\ UNCHANGED <<hostVars, driverVars, cargo, diskVars>>

\* Mutant: the name of a fragment is that of its crate and the time.
FragmentPathNoPid(d, u) ==
  [dir |-> WorkDir(d), crate |-> CrateName[u], pid |-> None, time |-> now]

(* cargo_fragment_path                                                      *)
FragmentPath(d, u) ==
  [dir |-> WorkDir(d), crate |-> CrateName[u], pid |-> job[d][u].pid, time |-> now]

(* run_rustc_wrapper up to the compiler: create_dir_all brings back a       *)
(* directory that its driver has removed.                                   *)
NameFragment(d, u) ==
  /\ job[d][u].at = "naming"
  /\ dirs' = dirs \cup {WorkDir(d)}
  /\ SetJob(d, u, [job[d][u] EXCEPT !.at = "analysing", !.file = FragmentPath(d, u)])
  /\ UNCHANGED <<hostVars, driverVars, cargo, files>>

(* The crate is analysed, collected and emitted, and the file is opened.    *)
OpenFragment(d, u) ==
  /\ job[d][u].at = "analysing"
  /\ job[d][u].file.dir \in dirs
  /\ files' = [f \in DOMAIN files \cup {job[d][u].file} |->
                 IF f = job[d][u].file THEN [unit |-> u, whole |-> FALSE] ELSE files[f]]
  /\ SetJob(d, u, [job[d][u] EXCEPT !.at = "writing"])
  /\ UNCHANGED <<hostVars, driverVars, cargo, dirs>>

(* The module is printed; if its file is still there it is whole.           *)
CloseFragment(d, u) ==
  /\ job[d][u].at = "writing"
  /\ files' = [f \in DOMAIN files |->
                 IF f = job[d][u].file THEN [unit |-> u, whole |-> TRUE] ELSE files[f]]
  /\ SetJob(d, u, [job[d][u] EXCEPT !.at = "compiling"])
  /\ UNCHANGED <<hostVars, driverVars, cargo, dirs>>

(* An error of the crate, of the emitter, of the disk or of code generation *)
(* ends the wrapper with status 1; what it wrote stays.                     *)
FailJob(d, u) ==
  /\ Live(job[d][u].at)
  /\ EndJob(d, u, "failed")
  /\ UNCHANGED <<driverVars, cargo, diskVars>>

FinishJob(d, u) ==
  /\ job[d][u].at = "compiling"
  /\ EndJob(d, u, "ok")
  /\ UNCHANGED <<driverVars, cargo, diskVars>>

(* Cargo waits for the invocations it has started, also after a failure.    *)
CargoExit(d) ==
  /\ cargo[d] = "running"
  /\ \A u \in builds[d] : ~Live(job[d][u].at)
  /\ \/ /\ \A u \in builds[d] : job[d][u].at = "ok"
        /\ cargo' = [cargo EXCEPT ![d] = "ok"]
     \/ HasFailed(d) /\ cargo' = [cargo EXCEPT ![d] = "failed"]
  /\ UNCHANGED <<hostVars, driverVars, job, diskVars>>

(* A killed Cargo leaves its rustc invocations running.                     *)
KillCargo(d) ==
  /\ kills < MaxKills /\ cargo[d] = "running"
  /\ kills' = kills + 1
  /\ cargo' = [cargo EXCEPT ![d] = "killed"]
  /\ UNCHANGED <<builds, now, recent, driverVars, job, diskVars>>

-----------------------------------------------------------------------------
DriverStep(d) ==
  CreateDir(d) \/ Execute(d) \/ RunCargo(d) \/ ListFragments(d) \/ Merge(d) \/ CleanUp(d)

JobStep(d, u) ==
  \/ StartJob(d, u) \/ NameFragment(d, u) \/ OpenFragment(d, u) \/ CloseFragment(d, u)
  \/ FailJob(d, u) \/ FinishJob(d, u)

Next ==
  \/ Tick
  \/ \E d \in Started :
       \/ StartDriver(d) \/ DriverStep(d) \/ KillDriver(d)
       \/ CargoExit(d) \/ KillCargo(d)
       \/ \E u \in builds[d] : JobStep(d, u)

(* Processes run, Cargo starts what it can and waits, rustc ends.           *)
Fairness ==
  \A d \in Drivers :
    /\ WF_vars(d \in Started /\ DriverStep(d))
    /\ WF_vars(d \in Started /\ CargoExit(d))
    /\ \A u \in Units : WF_vars(d \in Started /\ u \in builds[d] /\ JobStep(d, u))

Spec == Init /\ [][Next]_vars /\ Fairness

-----------------------------------------------------------------------------
(* Properties.                                                              *)

DriverStages == {"new", "creating", "executing", "spawning", "waiting", "merging",
                 "cleanup", "exited", "killed"}

TypeOK ==
  /\ now \in 0..MaxTime /\ recent \subseteq Pids /\ kills \in 0..MaxKills
  /\ \A d \in Started :
       /\ driver[d].at \in DriverStages
       /\ driver[d].code \in {None, 0, 1}
       /\ driver[d].attempt < Attempts
       /\ Cardinality(holding[d]) <= IF d \in Executes THEN 2 ELSE 1
       /\ output[d] = None \/ output[d] \subseteq Units
  /\ \A f \in DOMAIN files : f.dir \in dirs

(* The output has the module of every crate of this invocation that is to   *)
(* be extracted, and of no other; it is only written when every rustc of    *)
(* the invocation has succeeded.  A failed or killed Cargo, a fragment half *)
(* written and an invocation running next to this one leave no trace in it. *)
MergesThisBuild ==
  \A d \in Started : output[d] # None =>
    /\ output[d] = Fragments(d)
    /\ \A u \in builds[d] : job[d][u].at = "ok"
    /\ \A u, v \in output[d] : u # v => Symbols[u] \cap Symbols[v] = {}

(* The exit code of a driver of Cargo says whether there is an output.      *)
CodeTells ==
  \A d \in Started \ Executes :
    driver[d].at = "exited" => (driver[d].code = 0 <=> output[d] # None)

(* No two extractors hold one directory, and what one holds stays until it  *)
(* drops it (RustcOutputDir::create never takes a directory that exists).   *)
DirsHeld ==
  \A d \in Started :
    /\ holding[d] \subseteq dirs
    /\ \A e \in Started \ {d} : holding[d] \cap holding[e] = {}
    /\ driver[d].at = "executing" => Cardinality(holding[d]) = 2

(* A fragment once whole never changes; it goes away only with the drop of  *)
(* the directory by its driver.                                             *)
FragmentsKept ==
  [][\A f \in DOMAIN files :
       files[f].whole =>
         \/ f \in DOMAIN files' /\ files'[f] = files[f]
         \/ \E d \in Started : f.dir \in holding[d] \ holding'[d]]_vars

(* When everything has ended, and nothing was killed, no directory is left. *)
NothingLeft ==
  kills = 0 /\ (\A d \in Started : driver[d].at \in {"new", "exited"}) => dirs = {}

-----------------------------------------------------------------------------
(* The inductive invariant behind the safety properties.                    *)

DriverRecs ==
  [at : DriverStages, pid : Pids \cup {None}, nonce : 0..now, attempt : 0..(Attempts - 1),
   code : {None, 0, 1}]
JobRecs(file) ==
  [at : {"waiting", "naming", "analysing", "writing", "compiling", "ok", "failed"},
   pid : Pids \cup {None}, file : {file}]

States ==
  /\ builds \in Plans
  /\ now \in 0..MaxTime /\ recent \subseteq Pids /\ kills \in 0..MaxKills
  /\ driver \in [Started -> DriverRecs]
  /\ holding \in [Started -> SUBSET dirs]
  /\ cargo \in [Started -> {None, "running", "ok", "failed", "killed"}]
  /\ DOMAIN job = Started /\ DOMAIN inputs = Started /\ DOMAIN output = Started
  /\ \A d \in Started :
       /\ Running(driver[d].at) => driver[d].pid \in Pids
       /\ DOMAIN job[d] = builds[d]
       /\ \A u \in builds[d] :
            /\ job[d][u] \in JobRecs(job[d][u].file)
            /\ Live(job[d][u].at) => job[d][u].pid \in Pids

HasCargo(d) == cargo[d] \in {"running", "ok", "failed", "killed"}

(* What a driver holds, has started and has written where it is.            *)
StageOf(d) ==
  /\ driver[d].at \in {"new", "exited", "killed"} => holding[d] = {}
  /\ driver[d].at = "creating" =>
       Cardinality(holding[d]) <= IF d \in Executes THEN 1 ELSE 0
  /\ driver[d].at = "executing" => Cardinality(holding[d]) = 2
  /\ driver[d].at \in {"spawning", "waiting", "merging"} => holding[d] = {WorkDir(d)}
  /\ IsFiniteSet(holding[d])
  /\ Cardinality(holding[d]) <= IF d \in Executes THEN 2 ELSE 1
  /\ driver[d].at \in {"new", "creating", "executing", "spawning"} => cargo[d] = None
  /\ driver[d].at \in {"waiting", "merging"} => HasCargo(d)
  /\ driver[d].at = "merging" => cargo[d] = "ok"
  /\ driver[d].at \notin {"cleanup", "exited", "killed"} => output[d] = None
  /\ driver[d].at \in {"cleanup", "exited"} /\ d \notin Executes =>
       (driver[d].code = 0 <=> output[d] # None)
Stages == \A d \in Started : StageOf(d)

(* Only a Cargo has invocations, and only a kill parts one from its driver. *)
ParentageOf(d) ==
  /\ driver[d].at = "killed" \/ cargo[d] = "killed" => kills > 0
  /\ cargo[d] = "running" => driver[d].at \in {"waiting", "killed"}
  /\ cargo[d] = "ok" => \A u \in builds[d] : job[d][u].at = "ok"
  /\ \A u \in builds[d] :
       /\ Live(job[d][u].at) => cargo[d] \in {"running", "killed"}
       /\ job[d][u].at # "waiting" => HasCargo(d)
Parentage == \A d \in Started : ParentageOf(d)

(* Directories belong to who created them.                                  *)
Owned ==
  /\ \A d, e \in Started : d # e => holding[d] \cap holding[e] = {}
  /\ \A f \in DOMAIN files : f.dir \in dirs
  /\ kills = 0 => \A p \in dirs : \E d \in Started : p \in holding[d]

(* A process number and a reading of the clock tell drivers apart.          *)
NoncesApart ==
  \A d \in {e \in Started : driver[e].at # "new"} :
    /\ Running(driver[d].at) \/ driver[d].nonce < now \/ driver[d].pid \in recent
    /\ \A e \in Started \ {d} :
         driver[e].at # "new" /\ driver[e].pid = driver[d].pid =>
           /\ driver[e].nonce # driver[d].nonce
           /\ Running(driver[d].at) => driver[e].nonce < driver[d].nonce

JobsApart ==
  \A d, e \in Started : \A u \in builds[d], v \in builds[e] :
    Live(job[d][u].at) /\ Live(job[e][v].at) /\ job[d][u].pid = job[e][v].pid =>
      d = e /\ u = v

(* The same for fragments: the name a wrapper comes to use is new, and what *)
(* it opened is its own.                                                    *)
NameOf(d, u) ==
  LET j == job[d][u]
  IN  /\ j.at \in {"naming", "analysing", "writing"} => Extracts(u)
      /\ j.at = "naming" => \A f \in DOMAIN files : f.pid = j.pid => f.time < now
      /\ j.at \in {"analysing", "writing"} =>
           /\ j.file = [dir |-> WorkDir(d), crate |-> CrateName[u], pid |-> j.pid,
                        time |-> j.file.time]
           /\ j.file.time \in 0..now
      /\ j.at = "analysing" => j.file \notin DOMAIN files
      /\ j.at = "writing" /\ j.file \in DOMAIN files =>
           files[j.file] = [unit |-> u, whole |-> FALSE]
NamesFresh ==
  /\ \A f \in DOMAIN files :
       f.time \in 0..now /\ (f.time < now \/ f.pid \in recent \cup JobPids)
  /\ \A d \in Started : \A u \in builds[d] : NameOf(d, u)

(* Whose fragments there are, and which a driver will find.                 *)
FragmentsFound ==
  /\ \A f \in DOMAIN files :
       /\ files[f] = [unit |-> files[f].unit, whole |-> files[f].whole]
       /\ \E d \in Started :
            HasCargo(d) /\ f.dir = WorkDir(d) /\ files[f].unit \in Fragments(d)
  /\ \A d \in Started :
       /\ driver[d].at \in {"waiting", "merging"} =>
            \A u \in Fragments(d) :
              /\ job[d][u].at = "writing" => job[d][u].file \in DOMAIN files
              /\ job[d][u].at \in {"compiling", "ok"} =>
                   \E f \in FilesIn(WorkDir(d)) : files[f] = [unit |-> u, whole |-> TRUE]
       /\ driver[d].at = "merging" => inputs[d] = FilesIn(WorkDir(d))

ExtractInv ==
  /\ States /\ Stages /\ Parentage /\ Owned /\ NoncesApart /\ JobsApart
  /\ NamesFresh /\ FragmentsFound /\ MergesThisBuild

-----------------------------------------------------------------------------
(* A driver that was started ends, whatever fails or is killed around it.   *)
DriversEnd ==
  \A d \in Drivers :
    d \in Started /\ driver[d].at = "creating"
      ~> d \in Started /\ driver[d].at \in {"exited", "killed"}

=============================================================================
