------------------------ MODULE CargoExtract_proofs ------------------------
(***************************************************************************)
(* Theorems about extraction under Cargo, for any drivers, plans, process   *)
(* numbers and clocks: the output has the crates of its own invocation, no  *)
(* directory has two owners, a fragment that is whole stays, nothing is     *)
(* left behind.  They rest on ExtractInv, whose parts are kept apart below: *)
(* for each part a lemma says when a step cannot disturb it, and for each   *)
(* action a lemma goes through the parts.                                   *)
(***************************************************************************)
EXTENDS CargoExtract, FiniteSetTheorems, TLAPS

-----------------------------------------------------------------------------
(* When a step leaves a part of the invariant alone.                        *)

(* What is started is a driver with invocations; the clock counts.          *)
LEMMA Ranges ==
  ASSUME States
  PROVE  /\ Started \subseteq Drivers /\ \A d \in Started : builds[d] \subseteq Units
         /\ now \in Nat /\ MaxTime \in Nat /\ now <= MaxTime
         /\ kills \in Nat /\ MaxKills \in Nat /\ kills <= MaxKills
         /\ \A d \in Started :
              /\ driver[d] \in DriverRecs
              /\ driver[d].nonce \in Nat /\ driver[d].nonce <= now
BY Constants DEF States, Started, DriverRecs

(* The record of one driver changes.                                        *)
LEMMA DriverTyped ==
  ASSUME States, NEW d \in Started, NEW r, r \in DriverRecs,
         Running(r.at) => r.pid \in Pids,
         driver' = [driver EXCEPT ![d] = r], UNCHANGED <<builds, now>>
  PROVE  /\ driver' \in [Started -> DriverRecs]'
         /\ driver'[d] = r
         /\ \A e \in Started : e # d => driver'[e] = driver[e]
         /\ \A e \in Started : Running(driver'[e].at) => driver'[e].pid \in Pids
BY DEF States, Started, DriverRecs

(* One invocation changes.                                                  *)
LEMMA JobTyped ==
  ASSUME States, NEW d \in Started, NEW u \in builds[d], NEW r, SetJob(d, u, r),
         r \in JobRecs(r.file), Live(r.at) => r.pid \in Pids
  PROVE  /\ DOMAIN job' = Started
         /\ \A e \in Started : DOMAIN job'[e] = builds[e]
         /\ job'[d][u] = r
         /\ \A e \in Started : \A v \in builds[e] :
              /\ ~(e = d /\ v = u) => job'[e][v] = job[e][v]
              /\ job'[e][v] \in JobRecs(job'[e][v].file)
              /\ Live(job'[e][v].at) => job'[e][v].pid \in Pids
<1>0. \A e \in Started : \A v \in builds[e] :
        job[e][v] \in JobRecs(job[e][v].file) /\ (Live(job[e][v].at) => job[e][v].pid \in Pids)
  BY DEF States
<1>1. /\ DOMAIN job' = Started
      /\ \A e \in Started : DOMAIN job'[e] = builds[e]
      /\ job'[d][u] = r
      /\ \A e \in Started : \A v \in builds[e] :
           ~(e = d /\ v = u) => job'[e][v] = job[e][v]
  BY DEF States, SetJob
<1>2. ASSUME NEW e \in Started, NEW v \in builds[e]
      PROVE  /\ job'[e][v] \in JobRecs(job'[e][v].file)
             /\ Live(job'[e][v].at) => job'[e][v].pid \in Pids
  <2>1. CASE e = d /\ v = u
    BY <1>1, <2>1
  <2>2. CASE ~(e = d /\ v = u)
    <3>1. job'[e][v] = job[e][v]
      BY <1>1, <2>2
    <3> QED BY <1>0, <3>1
  <2> QED BY <2>1, <2>2
<1> QED BY <1>1, <1>2

LEMMA StageKept ==
  ASSUME NEW e \in Started, StageOf(e),
         driver'[e] = driver[e], holding'[e] = holding[e], cargo'[e] = cargo[e],
         output'[e] = output[e]
  PROVE  StageOf(e)'
BY DEF StageOf, WorkDir, HasCargo

LEMMA ParentageKept ==
  ASSUME NEW e \in Started, ParentageOf(e), driver'[e].at = driver[e].at,
         cargo'[e] = cargo[e], job'[e] = job[e], builds' = builds, kills > 0 => kills' > 0
  PROVE  ParentageOf(e)'
BY DEF ParentageOf, HasCargo

LEMMA OwnedKept ==
  ASSUME Owned, UNCHANGED <<builds, holding, dirs>>, DOMAIN files' = DOMAIN files,
         kills' = 0 => kills = 0
  PROVE  Owned'
BY DEF Owned, Started

LEMMA NoncesKept ==
  ASSUME NoncesApart, UNCHANGED <<builds, now>>, recent \subseteq recent',
         \A e \in Started :
           /\ driver'[e].at = "new" <=> driver[e].at = "new"
           /\ driver'[e].pid = driver[e].pid /\ driver'[e].nonce = driver[e].nonce
           /\ Running(driver'[e].at) => Running(driver[e].at)
           /\ Running(driver[e].at) => Running(driver'[e].at) \/ driver[e].pid \in recent'
  PROVE  NoncesApart'
BY DEF NoncesApart, Started

LEMMA JobsKept ==
  ASSUME JobsApart, builds' = builds,
         \A e \in Started : \A v \in builds[e] :
           Live(job'[e][v].at) => Live(job[e][v].at) /\ job'[e][v].pid = job[e][v].pid
  PROVE  JobsApart'
BY DEF JobsApart, Started

(* The process numbers of a job and of the others.                          *)
LEMMA JobPidsAre ==
  \A p : p \in JobPids <=>
    \E d \in Started : \E u \in builds[d] : Live(job[d][u].at) /\ job[d][u].pid = p
BY DEF JobPids

LEMMA NamesKept ==
  ASSUME NamesFresh, Parentage, UNCHANGED <<builds, now>>,
         DOMAIN files' \subseteq DOMAIN files,
         \A f \in DOMAIN files' : files'[f] = files[f],
         recent \cup JobPids \subseteq recent' \cup JobPids',
         \A e \in Started : HasCargo(e) => WorkDir(e)' = WorkDir(e),
         \A e \in Started : \A v \in builds[e] :
           \/ job'[e][v].at \notin {"naming", "analysing", "writing"}
           \/ job'[e][v] = job[e][v]
           \/ NameOf(e, v)'
  PROVE  NamesFresh'
<1>1. \A f \in DOMAIN files' :
        f.time \in 0..now' /\ (f.time < now' \/ f.pid \in recent' \cup JobPids')
  BY DEF NamesFresh
<1>2. ASSUME NEW e \in Started, NEW v \in builds[e]
      PROVE  NameOf(e, v)'
  <2>1. CASE job'[e][v].at \notin {"naming", "analysing", "writing"}
    BY <2>1 DEF NameOf
  <2>2. CASE /\ job'[e][v].at \in {"naming", "analysing", "writing"}
             /\ job'[e][v] = job[e][v]
    <3> DEFINE j == job[e][v]
               w == WorkDir(e)'
    <3>1. HasCargo(e)
      BY <2>2 DEF Parentage, ParentageOf
    <3>2. now' = now /\ job'[e][v] = j /\ w = WorkDir(e)
      BY <2>2, <3>1
    <3>3. NameOf(e, v)
      BY DEF NamesFresh
    <3>4. /\ j.at \in {"naming", "analysing", "writing"} => Extracts(v)
          /\ j.at = "naming" => \A f \in DOMAIN files' : f.pid = j.pid => f.time < now
          /\ j.at \in {"analysing", "writing"} =>
               /\ j.file = [dir |-> w, crate |-> CrateName[v], pid |-> j.pid,
                            time |-> j.file.time]
               /\ j.file.time \in 0..now
          /\ j.at = "analysing" => j.file \notin DOMAIN files'
          /\ j.at = "writing" /\ j.file \in DOMAIN files' =>
               files'[j.file] = [unit |-> v, whole |-> FALSE]
      BY <3>2, <3>3 DEF NameOf
    <3>5. Extracts(v)' = Extracts(v)
      BY DEF Extracts
    <3> HIDE DEF j, w
    <3> QED BY <3>2, <3>4, <3>5 DEF w, NameOf
  <2> QED BY <2>1, <2>2
<1>3. Started' = Started /\ builds' = builds
  BY DEF Started
<1> QED BY <1>1, <1>2, <1>3 DEF NamesFresh

LEMMA FoundKept ==
  ASSUME FragmentsFound, UNCHANGED <<builds, files>>,
         \A e \in Started :
           /\ HasCargo(e) => HasCargo(e)' /\ WorkDir(e)' = WorkDir(e)
           /\ driver'[e].at \in {"waiting", "merging"} =>
                /\ WorkDir(e)' = WorkDir(e)
                /\ \/ driver[e].at \in {"waiting", "merging"}
                   \/ \A v \in builds[e] : job'[e][v].at = "waiting"
           /\ driver'[e].at = "merging" =>
                \/ driver[e].at = "merging" /\ inputs'[e] = inputs[e]
                \/ inputs'[e] = FilesIn(WorkDir(e))
           /\ \A v \in builds[e] :
                /\ job'[e][v].at = "writing" => job'[e][v] = job[e][v]
                /\ Extracts(v) /\ job'[e][v].at \in {"compiling", "ok"}
                     => job[e][v].at \in {"compiling", "ok"}
  PROVE  FragmentsFound'
<1>1. ASSUME NEW f \in DOMAIN files'
      PROVE  /\ files'[f] = [unit |-> files'[f].unit, whole |-> files'[f].whole]
             /\ \E e \in Started' :
                  HasCargo(e)' /\ f.dir = WorkDir(e)' /\ files'[f].unit \in Fragments(e)'
  BY DEF FragmentsFound, Fragments, Extracts, Started
<1>2. ASSUME NEW e \in Started, driver'[e].at \in {"waiting", "merging"},
             NEW v \in Fragments(e)
      PROVE  /\ job'[e][v].at = "writing" => job'[e][v].file \in DOMAIN files
             /\ job'[e][v].at \in {"compiling", "ok"} =>
                  \E f \in FilesIn(WorkDir(e)') : files[f] = [unit |-> v, whole |-> TRUE]
  <2>1. v \in builds[e] /\ Extracts(v)
    BY DEF Fragments
  <2>2. CASE driver[e].at \in {"waiting", "merging"}
    BY <1>2, <2>1, <2>2 DEF FragmentsFound
  <2>3. CASE \A x \in builds[e] : job'[e][x].at = "waiting"
    BY <2>1, <2>3
  <2> QED BY <1>2, <2>2, <2>3
<1>3. ASSUME NEW e \in Started, driver'[e].at = "merging"
      PROVE  inputs'[e] = FilesIn(WorkDir(e)')
  <2>1. WorkDir(e)' = WorkDir(e)
    BY <1>3
  <2>2. CASE driver[e].at = "merging" /\ inputs'[e] = inputs[e]
    BY <2>1, <2>2 DEF FragmentsFound
  <2>3. CASE inputs'[e] = FilesIn(WorkDir(e))
    BY <2>1, <2>3
  <2> QED BY <1>3, <2>2, <2>3
<1>4. Started' = Started /\ (\A e : Fragments(e)' = Fragments(e)) /\ files' = files
      /\ \A p : FilesIn(p)' = FilesIn(p)
  BY DEF Started, Fragments, Extracts, FilesIn
<1> QED BY <1>1, <1>2, <1>3, <1>4 DEF FragmentsFound, FilesIn

LEMMA MergesKept ==
  ASSUME MergesThisBuild, builds' = builds,
         \A e \in Started : output'[e] = output[e]
           /\ \A v \in builds[e] : job[e][v].at = "ok" => job'[e][v].at = "ok"
  PROVE  MergesThisBuild'
BY DEF MergesThisBuild, Started, Fragments, Extracts

-----------------------------------------------------------------------------
(* The initial states, and every step.                                      *)

LEMMA InitExtractInv == Init => ExtractInv
<1> SUFFICES ASSUME Init PROVE ExtractInv
  OBVIOUS
<1>1. States
  <2>1. builds \in Plans /\ now \in 0..MaxTime /\ recent \subseteq Pids /\ kills \in 0..MaxKills
    BY Constants DEF Init
  <2>2. driver \in [Started -> DriverRecs]
    BY Constants DEF Init, DriverRecs, DriverStages
  <2>3. /\ holding \in [Started -> SUBSET dirs]
        /\ cargo \in [Started -> {None, "running", "ok", "failed", "killed"}]
        /\ DOMAIN job = Started /\ DOMAIN inputs = Started /\ DOMAIN output = Started
    BY DEF Init
  <2>4. ASSUME NEW d \in Started
        PROVE  /\ ~Running(driver[d].at) /\ DOMAIN job[d] = builds[d]
               /\ \A u \in builds[d] :
                    job[d][u] \in JobRecs(job[d][u].file) /\ ~Live(job[d][u].at)
    BY DEF Init, Running, Live, JobRecs
  <2> QED BY <2>1, <2>2, <2>3, <2>4 DEF States
<1>2. Stages
  BY FS_EmptySet DEF Init, Stages, StageOf
<1>3. Parentage
  BY Constants DEF Init, Parentage, ParentageOf, Live
<1>4. Owned /\ NoncesApart /\ JobsApart
  BY DEF Init, Owned, NoncesApart, JobsApart, Live
<1>5. NamesFresh /\ FragmentsFound /\ MergesThisBuild
  BY DEF Init, NamesFresh, NameOf, FragmentsFound, MergesThisBuild
<1> QED BY <1>1, <1>2, <1>3, <1>4, <1>5 DEF ExtractInv

(* A driver goes on, with its names as they are.                            *)
LEMMA DriverMoves ==
  ASSUME States, NEW d \in Started, NEW a \in DriverStages, NEW c \in {None, 0, 1},
         Running(a) => Running(driver[d].at), UNCHANGED <<builds, now>>,
         driver' = [driver EXCEPT ![d] = [driver[d] EXCEPT !.at = a, !.code = c]]
  PROVE  /\ driver' \in [Started -> DriverRecs]'
         /\ driver'[d].at = a /\ driver'[d].code = c
         /\ \A e \in Started :
              /\ driver'[e].pid = driver[e].pid /\ driver'[e].nonce = driver[e].nonce
              /\ WorkDir(e)' = WorkDir(e)
              /\ e # d => driver'[e] = driver[e]
              /\ Running(driver'[e].at) => driver'[e].pid \in Pids
<1> DEFINE r == [driver[d] EXCEPT !.at = a, !.code = c]
<1>1. driver[d] \in DriverRecs
  BY DEF States
<1>2. /\ r \in DriverRecs /\ r.at = a /\ r.code = c
      /\ r.pid = driver[d].pid /\ r.nonce = driver[d].nonce /\ r.attempt = driver[d].attempt
  BY <1>1 DEF DriverRecs
<1>3. Running(driver[d].at) => driver[d].pid \in Pids
  BY DEF States
<1> HIDE DEF r
<1>4. driver' = [driver EXCEPT ![d] = r]
  BY DEF r
<1>5. /\ driver' \in [Started -> DriverRecs]'
      /\ driver'[d] = r
      /\ \A e \in Started : e # d => driver'[e] = driver[e]
      /\ \A e \in Started : Running(driver'[e].at) => driver'[e].pid \in Pids
  BY <1>2, <1>3, <1>4, DriverTyped
<1>6. \A e \in Started :
        /\ driver'[e].pid = driver[e].pid /\ driver'[e].nonce = driver[e].nonce
        /\ driver'[e].attempt = driver[e].attempt
  BY <1>2, <1>5
<1> QED BY <1>2, <1>5, <1>6 DEF WorkDir

(* Only the clock changes.                                                  *)
LEMMA TickStep ==
  ASSUME ExtractInv, Tick
  PROVE  ExtractInv'
<1>1. /\ now < MaxTime /\ now' = now + 1 /\ recent' = {}
      /\ UNCHANGED <<builds, kills, driver, holding, inputs, output, cargo, job, dirs, files>>
  BY DEF Tick, driverVars, cargoVars, diskVars
<1>2. /\ States /\ Stages /\ Parentage /\ Owned /\ NoncesApart /\ JobsApart
      /\ NamesFresh /\ FragmentsFound /\ MergesThisBuild
  BY DEF ExtractInv
<1>3. now \in Nat /\ now + 1 \in Nat /\ MaxTime \in Nat /\ now < now + 1
      /\ \A d \in Started : driver[d] \in DriverRecs /\ driver[d].nonce \in Nat
                            /\ driver[d].nonce <= now
  BY <1>2, Ranges
<1>4. States'
  <2>1. driver' \in [Started -> DriverRecs]'
    <3>1. \A d \in Started : driver[d] \in DriverRecs'
      BY <1>1, <1>3 DEF DriverRecs
    <3>2. driver \in [Started -> DriverRecs]
      BY <1>2 DEF States
    <3> QED BY <1>1, <3>1, <3>2 DEF Started
  <2>2. now' \in 0..MaxTime
    BY <1>1, <1>3
  <2> QED BY <1>1, <1>2, <2>1, <2>2 DEF States, Started, JobRecs
<1>5. Stages' /\ Parentage' /\ Owned'
  BY <1>1, <1>2 DEF Stages, StageOf, Parentage, ParentageOf, Owned, Started, HasCargo, WorkDir
<1>6. NoncesApart'
  <2>1. \A d \in Started : driver[d].nonce < now'
    BY <1>1, <1>3
  <2> QED BY <1>1, <1>2, <2>1 DEF NoncesApart, Started
<1>7. JobsApart' /\ FragmentsFound' /\ MergesThisBuild'
  BY <1>1, <1>2, JobsKept, FoundKept, MergesKept DEF HasCargo, WorkDir
<1>8. NamesFresh'
  <2>1. \A t : t \in 0..now => t \in 0..now' /\ t < now'
    BY <1>1, <1>3
  <2>2. \A t : t \in 0..now /\ t < now => t < now'
    BY <1>1, <1>3
  <2>3. \A f \in DOMAIN files : f.time \in 0..now' /\ f.time < now'
    BY <1>2, <2>1 DEF NamesFresh
  <2>4. ASSUME NEW e \in Started, NEW v \in builds[e]
        PROVE  NameOf(e, v)'
    <3>1. NameOf(e, v)
      BY <1>2 DEF NamesFresh
    <3> QED BY <1>1, <2>1, <2>3, <3>1 DEF NameOf, Extracts, WorkDir
  <2> QED BY <1>1, <2>3, <2>4 DEF NamesFresh, Started
<1> QED BY <1>4, <1>5, <1>6, <1>7, <1>8 DEF ExtractInv

(* A new driver gets a process number and a nonce no other has together.    *)
LEMMA StartDriverStep ==
  ASSUME ExtractInv, NEW d \in Started, StartDriver(d)
  PROVE  ExtractInv'
<1>1. PICK p \in FreePids :
        driver' = [driver EXCEPT ![d].at = "creating", ![d].pid = p, ![d].nonce = now]
  BY DEF StartDriver
<1>2. /\ driver[d].at = "new"
      /\ UNCHANGED <<builds, now, recent, kills, holding, inputs, output, cargo, job, dirs, files>>
  BY DEF StartDriver, hostVars, cargoVars, diskVars
<1>3. /\ States /\ Stages /\ Parentage /\ Owned /\ NoncesApart /\ JobsApart
      /\ NamesFresh /\ FragmentsFound /\ MergesThisBuild
  BY DEF ExtractInv
<1> DEFINE r == [driver[d] EXCEPT !.at = "creating", !.pid = p, !.nonce = now]
<1>4. now \in Nat /\ driver[d] \in DriverRecs
  BY <1>3, Ranges
<1>5. p \in Pids /\ p \notin recent /\ \A e \in Started : Running(driver[e].at) => driver[e].pid # p
  BY DEF FreePids, DriverPids
<1>6. r \in DriverRecs /\ r.at = "creating" /\ r.pid = p /\ r.nonce = now
  <2>1. now \in 0..now /\ "creating" \in DriverStages /\ p \in Pids \cup {None}
    BY <1>4, <1>5 DEF DriverStages
  <2> QED BY <1>4, <2>1 DEF DriverRecs
<1>7. driver' = [driver EXCEPT ![d] = r]
  BY <1>1, <1>3, <1>4 DEF States, DriverRecs
<1> HIDE DEF r
<1>8. /\ driver' \in [Started -> DriverRecs]'
      /\ driver'[d] = r
      /\ \A e \in Started : e # d => driver'[e] = driver[e]
      /\ \A e \in Started : Running(driver'[e].at) => driver'[e].pid \in Pids
  BY <1>2, <1>3, <1>5, <1>6, <1>7, DriverTyped
<1>9. cargo[d] = None /\ ~HasCargo(d) /\ holding[d] = {} /\ output[d] = None
  BY <1>2, <1>3, Constants DEF Stages, StageOf, HasCargo
<1>10. States'
  BY <1>2, <1>3, <1>8 DEF States, Started, JobRecs
<1>11. Stages'
  <2>1. StageOf(d)'
    BY <1>2, <1>3, <1>6, <1>8, <1>9, FS_EmptySet DEF Stages, StageOf
  <2>2. \A e \in Started : e # d => StageOf(e)'
    BY <1>2, <1>3, <1>8, StageKept DEF Stages
  <2> QED BY <1>2, <2>1, <2>2 DEF Stages, Started
<1>12. Parentage'
  <2>1. ParentageOf(d)'
    BY <1>2, <1>3, <1>6, <1>8, <1>9 DEF Parentage, ParentageOf, HasCargo
  <2>2. \A e \in Started : e # d => ParentageOf(e)'
    BY <1>2, <1>3, <1>8, ParentageKept DEF Parentage
  <2> QED BY <1>2, <2>1, <2>2 DEF Parentage, Started
<1>13. Owned' /\ JobsApart'
  BY <1>2, <1>3, OwnedKept, JobsKept
<1>14. NoncesApart'
  <2>1. \A e \in Started : e # d /\ driver[e].at # "new" /\ driver[e].pid = p =>
          ~Running(driver[e].at) /\ driver[e].nonce < now
    BY <1>3, <1>5 DEF NoncesApart
  <2>2. ASSUME NEW x \in Started, driver'[x].at # "new"
        PROVE  /\ Running(driver'[x].at) \/ driver'[x].nonce < now \/ driver'[x].pid \in recent
               /\ \A e \in Started \ {x} :
                    driver'[e].at # "new" /\ driver'[e].pid = driver'[x].pid =>
                      /\ driver'[e].nonce # driver'[x].nonce
                      /\ Running(driver'[x].at) => driver'[e].nonce < driver'[x].nonce
    <3>1. CASE x = d
      <4>1. Running(driver'[x].at)
        BY <1>6, <1>8, <3>1 DEF Running
      <4>2. \A e \in Started \ {x} :
              driver'[e].at # "new" /\ driver'[e].pid = driver'[x].pid =>
                driver'[e].nonce < driver'[x].nonce
        BY <1>6, <1>8, <2>1, <3>1
      <4>3. \A e \in Started : driver'[e].nonce \in Nat
        BY <1>3, <1>4, <1>6, <1>8, Ranges
      <4>4. \A e \in Started : driver'[e].nonce < driver'[x].nonce => driver'[e].nonce # driver'[x].nonce
        BY <4>3
      <4> QED BY <4>1, <4>2, <4>4
    <3>2. CASE x # d
      <4>1. driver'[x] = driver[x] /\ driver[x].at # "new"
        BY <1>8, <2>2, <3>2
      <4>2. ASSUME driver[x].pid = p
            PROVE  ~Running(driver[x].at) /\ driver[x].nonce # now
        <5>1. driver[x].nonce \in Nat /\ driver[x].nonce < now /\ ~Running(driver[x].at)
          BY <1>3, <2>1, <3>2, <4>1, <4>2, Ranges
        <5> QED BY <1>4, <5>1
      <4> QED BY <1>3, <1>6, <1>8, <4>1, <4>2 DEF NoncesApart
    <3> QED BY <3>1, <3>2
  <2> QED BY <1>2, <2>2 DEF NoncesApart, Started
<1>15. \A e \in Started : HasCargo(e) => WorkDir(e)' = WorkDir(e)
  BY <1>8, <1>9 DEF WorkDir
<1>16. NamesFresh'
  BY <1>2, <1>3, <1>15, NamesKept DEF JobPids, Started
<1>17. FragmentsFound'
  <2>1. \A e \in Started : driver'[e].at \in {"waiting", "merging"} => driver'[e] = driver[e]
    BY <1>6, <1>8
  <2> QED BY <1>2, <1>3, <1>15, <2>1, FoundKept DEF HasCargo, WorkDir
<1>18. MergesThisBuild'
  BY <1>2, <1>3, MergesKept
<1> QED BY <1>10, <1>11, <1>12, <1>13, <1>14, <1>16, <1>17, <1>18 DEF ExtractInv

(* What does not depend on where a driver is when it goes on.               *)
LEMMA DriverFrame ==
  ASSUME ExtractInv, NEW d \in Started, NEW a \in DriverStages \ {"new"}, NEW c \in {None, 0, 1},
         driver[d].at # "new", Running(driver[d].at),
         driver' = [driver EXCEPT ![d] = [driver[d] EXCEPT !.at = a, !.code = c]],
         UNCHANGED <<builds, now, job, files>>,
         recent \subseteq recent', Running(a) \/ driver[d].pid \in recent'
  PROVE  /\ driver' \in [Started -> DriverRecs]'
         /\ driver'[d].at = a /\ driver'[d].code = c
         /\ \A e \in Started :
              /\ driver'[e].pid = driver[e].pid /\ driver'[e].nonce = driver[e].nonce
              /\ WorkDir(e)' = WorkDir(e)
              /\ e # d => driver'[e] = driver[e]
              /\ Running(driver'[e].at) => driver'[e].pid \in Pids
         /\ NoncesApart' /\ JobsApart' /\ NamesFresh'
<1>1. /\ driver' \in [Started -> DriverRecs]'
      /\ driver'[d].at = a /\ driver'[d].code = c
      /\ \A e \in Started :
           /\ driver'[e].pid = driver[e].pid /\ driver'[e].nonce = driver[e].nonce
           /\ WorkDir(e)' = WorkDir(e)
           /\ e # d => driver'[e] = driver[e]
           /\ Running(driver'[e].at) => driver'[e].pid \in Pids
  BY DriverMoves DEF ExtractInv
<1>2. NoncesApart'
  <2>1. \A e \in Started :
           /\ driver'[e].at = "new" <=> driver[e].at = "new"
           /\ Running(driver'[e].at) => Running(driver[e].at)
           /\ Running(driver[e].at) => Running(driver'[e].at) \/ driver[e].pid \in recent'
    BY <1>1
  <2> QED BY <1>1, <2>1, NoncesKept DEF ExtractInv
<1>3. JobsApart'
  BY JobsKept DEF ExtractInv
<1>4. NamesFresh'
  <2>1. recent \cup JobPids \subseteq recent' \cup JobPids'
    BY DEF JobPids, Started
  <2> QED BY <1>1, <2>1, NamesKept DEF ExtractInv
<1> QED BY <1>1, <1>2, <1>3, <1>4

(* An extractor that executes a crate is done with it.                      *)
LEMMA ExecuteStep ==
  ASSUME ExtractInv, NEW d \in Started, Execute(d)
  PROVE  ExtractInv'
<1>1. PICK c \in {0, 1} : driver' = [driver EXCEPT ![d].at = "cleanup", ![d].code = c]
  BY DEF Execute
<1>2. /\ driver[d].at = "executing"
      /\ UNCHANGED <<builds, now, recent, kills, holding, inputs, output, cargo, job, dirs, files>>
  BY DEF Execute, hostVars, cargoVars, diskVars
<1>3. /\ States /\ Stages /\ Parentage /\ Owned /\ FragmentsFound /\ MergesThisBuild
  BY DEF ExtractInv
<1>4. driver' = [driver EXCEPT ![d] = [driver[d] EXCEPT !.at = "cleanup", !.code = c]]
  BY <1>1, <1>3 DEF States, DriverRecs
<1>5. Running(driver[d].at) /\ Running("cleanup") /\ "cleanup" \in DriverStages \ {"new"}
  BY <1>2 DEF Running, DriverStages
<1>6. /\ driver' \in [Started -> DriverRecs]'
      /\ driver'[d].at = "cleanup"
      /\ \A e \in Started :
           /\ WorkDir(e)' = WorkDir(e)
           /\ e # d => driver'[e] = driver[e]
           /\ Running(driver'[e].at) => driver'[e].pid \in Pids
      /\ NoncesApart' /\ JobsApart' /\ NamesFresh'
  BY <1>2, <1>4, <1>5, DriverFrame
<1>7. States'
  BY <1>2, <1>3, <1>6 DEF States, Started, JobRecs
<1>8. d \in Executes /\ cargo[d] = None /\ ~HasCargo(d)
  BY <1>2, <1>3, Constants DEF Stages, StageOf, HasCargo
<1>9. Stages'
  <2>1. StageOf(d)'
    BY <1>2, <1>3, <1>6, <1>8 DEF Stages, StageOf
  <2>2. \A e \in Started : e # d => StageOf(e)'
    BY <1>2, <1>3, <1>6, StageKept DEF Stages
  <2> QED BY <1>2, <2>1, <2>2 DEF Stages, Started
<1>10. Parentage'
  <2>1. ParentageOf(d)'
    BY <1>2, <1>3, <1>6, <1>8 DEF Parentage, ParentageOf, HasCargo
  <2>2. \A e \in Started : e # d => ParentageOf(e)'
    BY <1>2, <1>3, <1>6, ParentageKept DEF Parentage
  <2> QED BY <1>2, <2>1, <2>2 DEF Parentage, Started
<1>11. Owned'
  BY <1>2, <1>3, OwnedKept
<1>12. FragmentsFound'
  <2>1. \A e \in Started : driver'[e].at \in {"waiting", "merging"} => driver'[e] = driver[e]
    BY <1>6
  <2> QED BY <1>2, <1>3, <1>6, <2>1, FoundKept DEF HasCargo
<1>13. MergesThisBuild'
  BY <1>2, <1>3, MergesKept
<1> QED BY <1>6, <1>7, <1>9, <1>10, <1>11, <1>12, <1>13 DEF ExtractInv

(* run_cargo starts Cargo, or gives up.                                     *)
LEMMA RunCargoStep ==
  ASSUME ExtractInv, NEW d \in Started, RunCargo(d)
  PROVE  ExtractInv'
<1>1. /\ driver[d].at = "spawning"
      /\ UNCHANGED <<builds, now, recent, kills, holding, inputs, output, job, dirs, files>>
  BY DEF RunCargo, hostVars, diskVars
<1>2. /\ States /\ Stages /\ Parentage /\ Owned /\ FragmentsFound /\ MergesThisBuild
  BY DEF ExtractInv
<1>3. Running(driver[d].at) /\ \A a \in {"cleanup", "waiting"} :
        Running(a) /\ a \in DriverStages \ {"new"}
  BY <1>1 DEF Running, DriverStages
<1>4. cargo[d] = None /\ ~HasCargo(d) /\ holding[d] = {WorkDir(d)} /\ output[d] = None
      /\ driver[d].code \in {None, 0, 1}
  BY <1>1, <1>2, Constants DEF Stages, StageOf, HasCargo, States, DriverRecs
<1>5. PICK a \in {"cleanup", "waiting"}, c \in {None, 0, 1} :
        /\ driver' = [driver EXCEPT ![d] = [driver[d] EXCEPT !.at = a, !.code = c]]
        /\ a = "cleanup" => cargo' = cargo /\ c = 1
        /\ a = "waiting" => cargo' = [cargo EXCEPT ![d] = "running"]
  <2>1. CASE driver' = [driver EXCEPT ![d].at = "cleanup", ![d].code = 1] /\ UNCHANGED cargo
    <3>1. driver' = [driver EXCEPT ![d] = [driver[d] EXCEPT !.at = "cleanup", !.code = 1]]
      BY <1>2, <2>1 DEF States, DriverRecs
    <3> QED BY <2>1, <3>1
  <2>2. CASE driver' = [driver EXCEPT ![d].at = "waiting"] /\ cargo' = [cargo EXCEPT ![d] = "running"]
    <3>1. driver' = [driver EXCEPT ![d] =
                       [driver[d] EXCEPT !.at = "waiting", !.code = driver[d].code]]
      BY <1>2, <2>2 DEF States, DriverRecs
    <3> QED BY <1>4, <2>2, <3>1
  <2> QED BY <2>1, <2>2 DEF RunCargo
<1>6. /\ driver' \in [Started -> DriverRecs]'
      /\ driver'[d].at = a /\ driver'[d].code = c
      /\ \A e \in Started :
           /\ WorkDir(e)' = WorkDir(e)
           /\ e # d => driver'[e] = driver[e]
           /\ Running(driver'[e].at) => driver'[e].pid \in Pids
      /\ NoncesApart' /\ JobsApart' /\ NamesFresh'
  BY <1>1, <1>3, <1>5, DriverFrame
<1>7. /\ cargo' \in [Started -> {None, "running", "ok", "failed", "killed"}]
      /\ cargo'[d] = IF a = "cleanup" THEN None ELSE "running"
      /\ \A e \in Started : e # d => cargo'[e] = cargo[e]
  BY <1>2, <1>4, <1>5 DEF States
<1>8. States'
  BY <1>1, <1>2, <1>6, <1>7 DEF States, Started, JobRecs
<1>9. Stages'
  <2>1. StageOf(d)'
    <3>1. CASE a = "cleanup"
      <4>1. driver'[d].at = "cleanup" /\ driver'[d].code = 1 /\ cargo'[d] = None
        BY <1>5, <1>6, <1>7, <3>1
      <4> QED BY <1>1, <1>2, <1>4, <4>1 DEF Stages, StageOf
    <3>2. CASE a = "waiting"
      BY <1>1, <1>2, <1>4, <1>6, <1>7, <3>2 DEF Stages, StageOf, HasCargo
    <3> QED BY <3>1, <3>2
  <2>2. \A e \in Started : e # d => StageOf(e)'
    BY <1>1, <1>2, <1>6, <1>7, StageKept DEF Stages
  <2> QED BY <1>1, <2>1, <2>2 DEF Stages, Started
<1>10. \A u \in builds[d] : job[d][u].at = "waiting"
  BY <1>2, <1>4 DEF Parentage, ParentageOf
<1>11. Parentage'
  <2>1. ParentageOf(d)'
    BY <1>1, <1>4, <1>6, <1>7, <1>10, Constants DEF ParentageOf, HasCargo, Live
  <2>2. \A e \in Started : e # d => ParentageOf(e)'
    BY <1>1, <1>2, <1>6, <1>7, ParentageKept DEF Parentage
  <2> QED BY <1>1, <2>1, <2>2 DEF Parentage, Started
<1>12. Owned'
  BY <1>1, <1>2, OwnedKept
<1>13. FragmentsFound'
  <2>1. \A e \in Started : driver'[e].at \in {"waiting", "merging"} =>
          \/ driver[e].at \in {"waiting", "merging"} /\ driver'[e] = driver[e]
          \/ driver'[e].at = "waiting" /\ \A v \in builds[e] : job'[e][v].at = "waiting"
    BY <1>1, <1>6, <1>10
  <2>2. \A e \in Started : HasCargo(e) => HasCargo(e)'
    BY <1>4, <1>7 DEF HasCargo
  <2>3. \A e \in Started : driver'[e].at = "merging" => driver[e].at = "merging"
    BY <1>1, <1>6
  <2> QED BY <1>1, <1>2, <1>6, <2>1, <2>2, <2>3, FoundKept
<1>14. MergesThisBuild'
  BY <1>1, <1>2, MergesKept
<1> QED BY <1>6, <1>8, <1>9, <1>11, <1>12, <1>13, <1>14 DEF ExtractInv

(* When Cargo has succeeded the driver takes what is in its directory.      *)
LEMMA ListFragmentsStep ==
  ASSUME ExtractInv, NEW d \in Started, ListFragments(d)
  PROVE  ExtractInv'
<1>1. /\ driver[d].at = "waiting" /\ cargo[d] \notin {None, "running"}
      /\ inputs' = [inputs EXCEPT ![d] = IF cargo[d] = "ok" THEN FilesIn(WorkDir(d)) ELSE {}]
      /\ driver' = [driver EXCEPT ![d] =
           IF inputs'[d] = {} THEN [@ EXCEPT !.at = "cleanup", !.code = 1]
                              ELSE [@ EXCEPT !.at = "merging"]]
      /\ UNCHANGED <<builds, now, recent, kills, holding, output, cargo, job, dirs, files>>
  BY DEF ListFragments, hostVars, cargoVars, diskVars
<1>2. /\ States /\ Stages /\ Parentage /\ Owned /\ FragmentsFound /\ MergesThisBuild
  BY DEF ExtractInv
<1>3. Running(driver[d].at) /\ \A a \in {"cleanup", "merging"} :
        Running(a) /\ a \in DriverStages \ {"new"}
  BY <1>1 DEF Running, DriverStages
<1>4. HasCargo(d) /\ holding[d] = {WorkDir(d)} /\ output[d] = None
      /\ driver[d].code \in {None, 0, 1}
  BY <1>1, <1>2 DEF Stages, StageOf, States, DriverRecs
<1>5. /\ DOMAIN inputs' = Started
      /\ inputs'[d] = IF cargo[d] = "ok" THEN FilesIn(WorkDir(d)) ELSE {}
      /\ \A e \in Started : e # d => inputs'[e] = inputs[e]
  BY <1>1, <1>2 DEF States
<1>6. PICK a \in {"cleanup", "merging"}, c \in {None, 0, 1} :
        /\ driver' = [driver EXCEPT ![d] = [driver[d] EXCEPT !.at = a, !.code = c]]
        /\ a = "cleanup" => c = 1
        /\ a = "merging" => inputs'[d] # {}
  <2>1. CASE inputs'[d] = {}
    <3>1. driver' = [driver EXCEPT ![d] = [driver[d] EXCEPT !.at = "cleanup", !.code = 1]]
      BY <1>1, <2>1
    <3> QED BY <3>1
  <2>2. CASE inputs'[d] # {}
    <3>1. driver' = [driver EXCEPT ![d] = [driver[d] EXCEPT !.at = "merging"]]
      BY <1>1, <2>2
    <3>2. driver' = [driver EXCEPT ![d] =
                       [driver[d] EXCEPT !.at = "merging", !.code = driver[d].code]]
      BY <1>2, <3>1 DEF States, DriverRecs
    <3> QED BY <1>4, <2>2, <3>2
  <2> QED BY <2>1, <2>2
<1>7. /\ driver' \in [Started -> DriverRecs]'
      /\ driver'[d].at = a /\ driver'[d].code = c
      /\ \A e \in Started :
           /\ WorkDir(e)' = WorkDir(e)
           /\ e # d => driver'[e] = driver[e]
           /\ Running(driver'[e].at) => driver'[e].pid \in Pids
      /\ NoncesApart' /\ JobsApart' /\ NamesFresh'
  BY <1>1, <1>3, <1>6, DriverFrame
<1>8. States'
  BY <1>1, <1>2, <1>5, <1>7 DEF States, Started, JobRecs
<1>9. a = "merging" => cargo[d] = "ok" /\ inputs'[d] = FilesIn(WorkDir(d))
  BY <1>5, <1>6
<1>10. Stages'
  <2>1. StageOf(d)'
    <3>1. CASE a = "cleanup"
      BY <1>1, <1>2, <1>4, <1>6, <1>7, <3>1 DEF Stages, StageOf
    <3>2. CASE a = "merging"
      BY <1>1, <1>2, <1>4, <1>7, <1>9, <3>2 DEF Stages, StageOf, HasCargo
    <3> QED BY <3>1, <3>2
  <2>2. \A e \in Started : e # d => StageOf(e)'
    BY <1>1, <1>2, <1>7, StageKept DEF Stages
  <2> QED BY <1>1, <2>1, <2>2 DEF Stages, Started
<1>11. Parentage'
  <2>1. ParentageOf(d)'
    BY <1>1, <1>2, <1>7 DEF Parentage, ParentageOf, HasCargo
  <2>2. \A e \in Started : e # d => ParentageOf(e)'
    BY <1>1, <1>2, <1>7, ParentageKept DEF Parentage
  <2> QED BY <1>1, <2>1, <2>2 DEF Parentage, Started
<1>12. Owned'
  BY <1>1, <1>2, OwnedKept
<1>13. FragmentsFound'
  <2>1. \A e \in Started :
          /\ driver'[e].at \in {"waiting", "merging"} => driver[e].at \in {"waiting", "merging"}
          /\ driver'[e].at = "merging" =>
               \/ driver[e].at = "merging" /\ inputs'[e] = inputs[e]
               \/ inputs'[e] = FilesIn(WorkDir(e))
    BY <1>1, <1>5, <1>7, <1>9
  <2>2. \A e \in Started : HasCargo(e) => HasCargo(e)'
    BY <1>1 DEF HasCargo
  <2> QED BY <1>1, <1>2, <1>7, <2>1, <2>2, FoundKept
<1>14. MergesThisBuild'
  BY <1>1, <1>2, MergesKept
<1> QED BY <1>7, <1>8, <1>10, <1>11, <1>12, <1>13, <1>14 DEF ExtractInv

(* No two drivers pass one directory to their wrappers.                     *)
LEMMA WorkDirsApart ==
  ASSUME ExtractInv, NEW d \in Started, NEW e \in Started,
         HasCargo(d), HasCargo(e), WorkDir(d) = WorkDir(e)
  PROVE  d = e
<1>1. driver[d].at # "new" /\ driver[e].at # "new"
  BY Constants DEF ExtractInv, Stages, StageOf, HasCargo
<1>2. driver[d].pid = driver[e].pid /\ driver[d].nonce = driver[e].nonce
  BY DEF WorkDir
<1> QED BY <1>1, <1>2 DEF ExtractInv, NoncesApart

(* What is in the directory of a driver whose Cargo has succeeded.          *)
LEMMA FoundIsBuilt ==
  ASSUME ExtractInv, NEW d \in Started, driver[d].at = "merging"
  PROVE  /\ inputs[d] = FilesIn(WorkDir(d))
         /\ {files[f].unit : f \in inputs[d]} = Fragments(d)
         /\ \A u \in builds[d] : job[d][u].at = "ok"
<1>1. HasCargo(d) /\ cargo[d] = "ok"
  BY DEF ExtractInv, Stages, StageOf
<1>2. \A u \in builds[d] : job[d][u].at = "ok"
  BY <1>1 DEF ExtractInv, Parentage, ParentageOf
<1>3. inputs[d] = FilesIn(WorkDir(d))
  BY DEF ExtractInv, FragmentsFound
<1>4. ASSUME NEW f \in FilesIn(WorkDir(d))
      PROVE  files[f].unit \in Fragments(d)
  <2>1. f \in DOMAIN files /\ f.dir = WorkDir(d)
    BY DEF FilesIn
  <2>2. PICK e \in Started : HasCargo(e) /\ f.dir = WorkDir(e) /\ files[f].unit \in Fragments(e)
    BY <2>1 DEF ExtractInv, FragmentsFound
  <2>3. e = d
    BY <1>1, <2>1, <2>2, WorkDirsApart
  <2> QED BY <2>2, <2>3
<1>5. ASSUME NEW u \in Fragments(d)
      PROVE  \E f \in FilesIn(WorkDir(d)) : files[f].unit = u
  <2>1. u \in builds[d] /\ job[d][u].at = "ok"
    BY <1>2 DEF Fragments
  <2>2. PICK f \in FilesIn(WorkDir(d)) : files[f] = [unit |-> u, whole |-> TRUE]
    BY <2>1 DEF ExtractInv, FragmentsFound
  <2> QED BY <2>2
<1> QED BY <1>2, <1>3, <1>4, <1>5

(* merge_text_modules_to_file writes all of the fragments or nothing.       *)
LEMMA MergeStep ==
  ASSUME ExtractInv, NEW d \in Started, Merge(d)
  PROVE  ExtractInv'
<1>1. /\ driver[d].at = "merging"
      /\ UNCHANGED <<builds, now, recent, kills, holding, inputs, cargo, job, dirs, files>>
  BY DEF Merge, hostVars, cargoVars, diskVars
<1>2. /\ States /\ Stages /\ Parentage /\ Owned /\ FragmentsFound /\ MergesThisBuild
  BY DEF ExtractInv
<1>3. Running(driver[d].at) /\ Running("cleanup") /\ "cleanup" \in DriverStages \ {"new"}
  BY <1>1 DEF Running, DriverStages
<1>4. cargo[d] = "ok" /\ holding[d] = {WorkDir(d)} /\ output[d] = None
  BY <1>1, <1>2 DEF Stages, StageOf
<1>5. PICK c \in {0, 1} :
        /\ driver' = [driver EXCEPT ![d].at = "cleanup", ![d].code = c]
        /\ c = 1 => output' = output
        /\ c = 0 => /\ Mergeable(inputs[d])
                    /\ output' = [output EXCEPT ![d] = {files[f].unit : f \in inputs[d]}]
  BY DEF Merge
<1>6. driver' = [driver EXCEPT ![d] = [driver[d] EXCEPT !.at = "cleanup", !.code = c]]
  BY <1>2, <1>5 DEF States, DriverRecs
<1>7. /\ driver' \in [Started -> DriverRecs]'
      /\ driver'[d].at = "cleanup" /\ driver'[d].code = c
      /\ \A e \in Started :
           /\ WorkDir(e)' = WorkDir(e)
           /\ e # d => driver'[e] = driver[e]
           /\ Running(driver'[e].at) => driver'[e].pid \in Pids
      /\ NoncesApart' /\ JobsApart' /\ NamesFresh'
  BY <1>1, <1>3, <1>6, DriverFrame
<1>8. /\ inputs[d] = FilesIn(WorkDir(d))
      /\ {files[f].unit : f \in inputs[d]} = Fragments(d)
      /\ \A u \in builds[d] : job[d][u].at = "ok"
  BY <1>1, FoundIsBuilt
<1>9. /\ DOMAIN output' = Started
      /\ \A e \in Started : e # d => output'[e] = output[e]
      /\ output'[d] = IF c = 0 THEN Fragments(d) ELSE None
  BY <1>2, <1>4, <1>5, <1>8 DEF States
<1>10. Fragments(d) # None
  <2>1. Fragments(d) \in SUBSET Units
    BY <1>2, Ranges DEF Fragments
  <2> QED BY <2>1, Constants
<1>11. States'
  BY <1>1, <1>2, <1>7, <1>9 DEF States, Started, JobRecs
<1>12. Stages'
  <2>1. driver'[d].code = 0 <=> output'[d] # None
    BY <1>5, <1>7, <1>9, <1>10
  <2>2. StageOf(d)'
    BY <1>1, <1>2, <1>4, <1>7, <2>1 DEF Stages, StageOf
  <2>3. \A e \in Started : e # d => StageOf(e)'
    BY <1>1, <1>2, <1>7, <1>9, StageKept DEF Stages
  <2> QED BY <1>1, <2>2, <2>3 DEF Stages, Started
<1>13. Parentage'
  <2>1. ParentageOf(d)'
    BY <1>1, <1>2, <1>4, <1>7 DEF Parentage, ParentageOf, HasCargo
  <2>2. \A e \in Started : e # d => ParentageOf(e)'
    BY <1>1, <1>2, <1>7, ParentageKept DEF Parentage
  <2> QED BY <1>1, <2>1, <2>2 DEF Parentage, Started
<1>14. Owned'
  BY <1>1, <1>2, OwnedKept
<1>15. FragmentsFound'
  <2>1. \A e \in Started : driver'[e].at \in {"waiting", "merging"} => driver'[e] = driver[e]
    BY <1>7
  <2>2. \A e \in Started : HasCargo(e) => HasCargo(e)'
    BY <1>1 DEF HasCargo
  <2> QED BY <1>1, <1>2, <1>7, <2>1, <2>2, FoundKept
<1>16. MergesThisBuild'
  <2>1. CASE c = 1
    BY <1>1, <1>2, <1>5, <2>1, MergesKept
  <2>2. CASE c = 0
    <3>1. ASSUME NEW u \in Fragments(d), NEW v \in Fragments(d), u # v
          PROVE  Symbols[u] \cap Symbols[v] = {}
      <4>1. PICK f \in inputs[d] : files[f].unit = u
        BY <1>8
      <4>2. PICK g \in inputs[d] : files[g].unit = v
        BY <1>8
      <4> QED BY <1>5, <2>2, <3>1, <4>1, <4>2 DEF Mergeable
    <3>2. \A e \in Started : Fragments(e)' = Fragments(e)
      BY <1>1 DEF Fragments, Extracts
    <3>3. ASSUME NEW e \in Started, output'[e] # None
          PROVE  /\ output'[e] = Fragments(e)
                 /\ \A u \in builds[e] : job[e][u].at = "ok"
                 /\ \A u, v \in output'[e] : u # v => Symbols[u] \cap Symbols[v] = {}
      <4>1. CASE e = d
        BY <1>8, <1>9, <2>2, <3>1, <4>1
      <4>2. CASE e # d
        BY <1>2, <1>9, <3>3, <4>2 DEF MergesThisBuild
      <4> QED BY <4>1, <4>2
    <3> QED BY <1>1, <3>2, <3>3 DEF MergesThisBuild, Started
  <2> QED BY <2>1, <2>2
<1> QED BY <1>7, <1>11, <1>12, <1>13, <1>14, <1>15, <1>16 DEF ExtractInv

(* A killed driver drops nothing.                                           *)
LEMMA KillDriverStep ==
  ASSUME ExtractInv, NEW d \in Started, KillDriver(d)
  PROVE  ExtractInv'
<1>1. /\ kills < MaxKills /\ Running(driver[d].at) /\ kills' = kills + 1
      /\ driver' = [driver EXCEPT ![d].at = "killed"]
      /\ recent' = recent \cup {driver[d].pid}
      /\ holding' = [holding EXCEPT ![d] = {}]
      /\ UNCHANGED <<builds, now, inputs, output, cargo, job, dirs, files>>
  BY DEF KillDriver, cargoVars, diskVars
<1>2. /\ States /\ Stages /\ Parentage /\ Owned /\ FragmentsFound /\ MergesThisBuild
  BY DEF ExtractInv
<1>3. /\ driver[d].at # "new" /\ "killed" \in DriverStages \ {"new"} /\ ~Running("killed")
      /\ driver[d].pid \in Pids
  BY <1>1, <1>2 DEF Running, DriverStages, States
<1>4. driver[d].code \in {None, 0, 1}
  BY <1>2 DEF States, DriverRecs
<1>5. driver' = [driver EXCEPT ![d] = [driver[d] EXCEPT !.at = "killed", !.code = driver[d].code]]
  BY <1>1, <1>2 DEF States, DriverRecs
<1>6. /\ driver' \in [Started -> DriverRecs]'
      /\ driver'[d].at = "killed"
      /\ \A e \in Started :
           /\ WorkDir(e)' = WorkDir(e)
           /\ e # d => driver'[e] = driver[e]
           /\ Running(driver'[e].at) => driver'[e].pid \in Pids
      /\ NoncesApart' /\ JobsApart' /\ NamesFresh'
  BY <1>1, <1>3, <1>4, <1>5, DriverFrame
<1>7. /\ holding' \in [Started -> SUBSET dirs] /\ holding'[d] = {}
      /\ \A e \in Started : e # d => holding'[e] = holding[e]
  BY <1>1, <1>2 DEF States
<1>8. kills' \in 0..MaxKills /\ kills' > 0 /\ kills' # 0
  BY <1>1, <1>2, Ranges
<1>9. States'
  BY <1>1, <1>2, <1>3, <1>6, <1>7, <1>8 DEF States, Started, JobRecs
<1>10. Stages'
  <2>1. StageOf(d)'
    <3>1. IsFiniteSet({}) /\ Cardinality({}) = 0
      BY FS_EmptySet
    <3> QED BY <1>6, <1>7, <3>1 DEF StageOf
  <2>2. \A e \in Started : e # d => StageOf(e)'
    BY <1>1, <1>2, <1>6, <1>7, StageKept DEF Stages
  <2> QED BY <1>1, <2>1, <2>2 DEF Stages, Started
<1>11. Parentage'
  <2>1. ParentageOf(d)'
    BY <1>1, <1>2, <1>6, <1>8 DEF Parentage, ParentageOf, HasCargo
  <2>2. \A e \in Started : e # d => ParentageOf(e)'
    BY <1>1, <1>2, <1>6, <1>8, ParentageKept DEF Parentage
  <2> QED BY <1>1, <2>1, <2>2 DEF Parentage, Started
<1>12. Owned'
  BY <1>1, <1>2, <1>7, <1>8 DEF Owned, Started
<1>13. FragmentsFound'
  <2>1. \A e \in Started : driver'[e].at \in {"waiting", "merging"} => driver'[e] = driver[e]
    BY <1>6
  <2>2. \A e \in Started : HasCargo(e) => HasCargo(e)'
    BY <1>1 DEF HasCargo
  <2> QED BY <1>1, <1>2, <1>6, <2>1, <2>2, FoundKept
<1>14. MergesThisBuild'
  BY <1>1, <1>2, MergesKept
<1> QED BY <1>6, <1>9, <1>10, <1>11, <1>12, <1>13, <1>14 DEF ExtractInv

(* A directory goes with what is in it; then the process ends.              *)
LEMMA DropDirStep ==
  ASSUME ExtractInv, NEW d \in Started, NEW p \in holding[d], driver[d].at = "cleanup",
         dirs' = dirs \ {p}, files' = WithoutDir(p), holding' = [holding EXCEPT ![d] = @ \ {p}],
         UNCHANGED <<builds, now, recent, kills, driver, inputs, output, cargo, job>>
  PROVE  ExtractInv'
<1>1. /\ States /\ Stages /\ Parentage /\ Owned /\ NoncesApart /\ JobsApart
      /\ NamesFresh /\ FragmentsFound /\ MergesThisBuild
  BY DEF ExtractInv
<1>2. /\ DOMAIN holding' = Started /\ holding'[d] = holding[d] \ {p}
      /\ \A e \in Started : e # d => holding'[e] = holding[e]
      /\ \A e \in Started : holding[e] \subseteq dirs
  BY <1>1 DEF States
<1>3. \A e \in Started : e # d => p \notin holding[e]
  BY <1>1 DEF Owned
<1>4. /\ DOMAIN files' = {f \in DOMAIN files : f.dir # p}
      /\ \A f \in DOMAIN files' : files'[f] = files[f]
  BY DEF WithoutDir, FilesIn
<1>5. States'
  <2>1. \A e \in Started : holding'[e] \subseteq dirs'
    BY <1>2, <1>3
  <2>2. holding' \in [Started -> SUBSET dirs']
    <3>1. holding' = [e \in Started |-> holding'[e]]
      BY <1>1 DEF States
    <3> QED BY <2>1, <3>1
  <2> QED BY <1>1, <2>2 DEF States, Started, JobRecs, DriverRecs
<1>6. Stages'
  <2>1. StageOf(d)'
    <3>1. IsFiniteSet(holding[d])
      BY <1>1 DEF Stages, StageOf
    <3>2. holding[d] \ {p} \in SUBSET holding[d]
      OBVIOUS
    <3>3. /\ IsFiniteSet(holding'[d]) /\ Cardinality(holding'[d]) <= Cardinality(holding[d])
          /\ Cardinality(holding'[d]) \in Nat /\ Cardinality(holding[d]) \in Nat
      BY <1>2, <3>1, <3>2, FS_Subset, FS_CardinalityType
    <3>4. Cardinality(holding'[d]) <= IF d \in Executes THEN 2 ELSE 1
      BY <1>1, <3>3 DEF Stages, StageOf
    <3> QED BY <1>1, <3>3, <3>4 DEF Stages, StageOf
  <2>2. \A e \in Started : e # d => StageOf(e)'
    BY <1>1, <1>2, StageKept DEF Stages
  <2> QED BY <2>1, <2>2 DEF Stages, Started
<1>7. Parentage'
  BY <1>1, ParentageKept DEF Parentage, Started
<1>8. Owned'
  <2>1. \A e, x \in Started : e # x => holding'[e] \cap holding'[x] = {}
    <3>1. \A e, x \in Started : e # x => holding[e] \cap holding[x] = {}
      BY <1>1 DEF Owned
    <3>2. \A e \in Started : holding'[e] \subseteq holding[e]
      BY <1>2
    <3> QED BY <3>1, <3>2
  <2>2. \A f \in DOMAIN files' : f.dir \in dirs'
    BY <1>1, <1>4 DEF Owned
  <2>3. kills' = 0 => \A q \in dirs' : \E e \in Started : q \in holding'[e]
    BY <1>1, <1>2 DEF Owned
  <2> QED BY <2>1, <2>2, <2>3 DEF Owned, Started
<1>9. NoncesApart' /\ JobsApart' /\ MergesThisBuild'
  BY <1>1, NoncesKept, JobsKept, MergesKept
<1>10. \A e : WorkDir(e)' = WorkDir(e) /\ HasCargo(e)' = HasCargo(e)
  BY DEF WorkDir, HasCargo
<1>11. NamesFresh'
  <2>1. recent \cup JobPids \subseteq recent' \cup JobPids'
    BY DEF JobPids, Started
  <2> QED BY <1>1, <1>4, <1>10, <2>1, NamesKept
<1>12. FragmentsFound'
  <2>1. Started' = Started /\ \A e : Fragments(e)' = Fragments(e)
    BY DEF Started, Fragments, Extracts
  <2>2. ASSUME NEW f \in DOMAIN files'
        PROVE  /\ files'[f] = [unit |-> files'[f].unit, whole |-> files'[f].whole]
               /\ \E e \in Started :
                    HasCargo(e) /\ f.dir = WorkDir(e) /\ files'[f].unit \in Fragments(e)
    BY <1>1, <1>4 DEF FragmentsFound
  <2>3. ASSUME NEW e \in Started, driver[e].at \in {"waiting", "merging"}
        PROVE  /\ FilesIn(WorkDir(e)) \subseteq DOMAIN files'
               /\ {f \in DOMAIN files' : f.dir = WorkDir(e)} = FilesIn(WorkDir(e))
    <3>1. WorkDir(e) \in holding[e] /\ e # d
      BY <1>1, <2>3 DEF Stages, StageOf
    <3>2. WorkDir(e) # p
      BY <1>3, <3>1
    <3> QED BY <1>4, <3>2 DEF FilesIn
  <2>4. ASSUME NEW e \in Started, driver[e].at \in {"waiting", "merging"}, NEW v \in Fragments(e)
        PROVE  /\ job[e][v].at = "writing" => job[e][v].file \in DOMAIN files'
               /\ job[e][v].at \in {"compiling", "ok"} =>
                    \E f \in FilesIn(WorkDir(e)) : f \in DOMAIN files' /\ f.dir = WorkDir(e)
                                                   /\ files'[f] = [unit |-> v, whole |-> TRUE]
    <3>1. v \in builds[e]
      BY DEF Fragments
    <3>2. ASSUME job[e][v].at = "writing"
          PROVE  job[e][v].file \in DOMAIN files'
      <4>1. job[e][v].file \in DOMAIN files
        BY <1>1, <2>4, <3>2 DEF FragmentsFound
      <4>2. job[e][v].file = [dir |-> WorkDir(e), crate |-> CrateName[v],
                              pid |-> job[e][v].pid, time |-> job[e][v].file.time]
        BY <1>1, <3>1, <3>2 DEF NamesFresh, NameOf
      <4>3. job[e][v].file.dir = WorkDir(e)
        BY <4>2
      <4> QED BY <2>3, <2>4, <4>1, <4>3 DEF FilesIn
    <3>3. ASSUME job[e][v].at \in {"compiling", "ok"}
          PROVE  \E f \in FilesIn(WorkDir(e)) : f \in DOMAIN files' /\ f.dir = WorkDir(e)
                                                /\ files'[f] = [unit |-> v, whole |-> TRUE]
      <4>1. PICK f \in FilesIn(WorkDir(e)) : files[f] = [unit |-> v, whole |-> TRUE]
        BY <1>1, <2>4, <3>3 DEF FragmentsFound
      <4> QED BY <1>4, <2>3, <2>4, <4>1 DEF FilesIn
    <3> QED BY <3>2, <3>3
  <2>5. \A e \in Started : driver[e].at = "merging" => inputs[e] = FilesIn(WorkDir(e))
    BY <1>1 DEF FragmentsFound
  <2>7. ASSUME NEW e \in Started
        PROVE  /\ driver'[e].at \in {"waiting", "merging"} =>
                    \A u \in Fragments(e) :
                      /\ job'[e][u].at = "writing" => job'[e][u].file \in DOMAIN files'
                      /\ job'[e][u].at \in {"compiling", "ok"} =>
                           \E f \in {g \in DOMAIN files' : g.dir = WorkDir(e)} :
                             files'[f] = [unit |-> u, whole |-> TRUE]
               /\ driver'[e].at = "merging" =>
                    inputs'[e] = {f \in DOMAIN files' : f.dir = WorkDir(e)}
    BY <2>3, <2>4, <2>5
  <2> QED BY <1>10, <2>1, <2>2, <2>7 DEF FragmentsFound, FilesIn
<1> QED BY <1>5, <1>6, <1>7, <1>8, <1>9, <1>11, <1>12 DEF ExtractInv

LEMMA CleanUpStep ==
  ASSUME ExtractInv, NEW d \in Started, CleanUp(d)
  PROVE  ExtractInv'
<1>1. /\ driver[d].at = "cleanup"
      /\ UNCHANGED <<builds, now, kills, inputs, output, cargo, job>>
  BY DEF CleanUp, cargoVars
<1>2. CASE holding[d] # {}
  <2>1. PICK p \in holding[d] :
          /\ dirs' = dirs \ {p} /\ files' = WithoutDir(p)
          /\ holding' = [holding EXCEPT ![d] = @ \ {p}]
          /\ UNCHANGED <<driver, recent>>
    BY <1>2 DEF CleanUp
  <2> QED BY <1>1, <2>1, DropDirStep
<1>3. CASE holding[d] = {}
  <2>1. /\ driver' = [driver EXCEPT ![d].at = "exited"]
        /\ recent' = recent \cup {driver[d].pid}
        /\ UNCHANGED <<holding, dirs, files>>
    BY <1>3 DEF CleanUp, diskVars
  <2>2. /\ States /\ Stages /\ Parentage /\ Owned /\ FragmentsFound /\ MergesThisBuild
    BY DEF ExtractInv
  <2>3. /\ Running(driver[d].at) /\ driver[d].at # "new"
        /\ "exited" \in DriverStages \ {"new"} /\ ~Running("exited")
    BY <1>1 DEF Running, DriverStages
  <2>4. driver[d].code \in {None, 0, 1} /\ driver[d].pid \in Pids
    BY <2>2, <2>3 DEF States, DriverRecs
  <2>5. driver' = [driver EXCEPT ![d] =
                     [driver[d] EXCEPT !.at = "exited", !.code = driver[d].code]]
    BY <2>1, <2>2 DEF States, DriverRecs
  <2>6. /\ driver' \in [Started -> DriverRecs]'
        /\ driver'[d].at = "exited" /\ driver'[d].code = driver[d].code
        /\ \A e \in Started :
             /\ WorkDir(e)' = WorkDir(e)
             /\ e # d => driver'[e] = driver[e]
             /\ Running(driver'[e].at) => driver'[e].pid \in Pids
        /\ NoncesApart' /\ JobsApart' /\ NamesFresh'
    <3>1. recent \subseteq recent' /\ driver[d].pid \in recent'
      BY <2>1
    <3> QED BY <1>1, <2>1, <2>3, <2>4, <2>5, <3>1, DriverFrame
  <2>7. States'
    BY <1>1, <2>1, <2>2, <2>4, <2>6 DEF States, Started, JobRecs
  <2>8. Stages'
    <3>1. StageOf(d)'
      BY <1>1, <1>3, <2>1, <2>2, <2>6 DEF Stages, StageOf
    <3>2. \A e \in Started : e # d => StageOf(e)'
      BY <1>1, <2>1, <2>2, <2>6, StageKept DEF Stages
    <3> QED BY <1>1, <3>1, <3>2 DEF Stages, Started
  <2>9. Parentage'
    <3>1. ParentageOf(d)'
      BY <1>1, <2>1, <2>2, <2>6 DEF Parentage, ParentageOf, HasCargo
    <3>2. \A e \in Started : e # d => ParentageOf(e)'
      BY <1>1, <2>1, <2>2, <2>6, ParentageKept DEF Parentage
    <3> QED BY <1>1, <3>1, <3>2 DEF Parentage, Started
  <2>10. Owned'
    BY <1>1, <2>1, <2>2, OwnedKept
  <2>11. FragmentsFound'
    <3>1. \A e \in Started : driver'[e].at \in {"waiting", "merging"} => driver'[e] = driver[e]
      BY <2>6
    <3>2. \A e \in Started : HasCargo(e) => HasCargo(e)'
      BY <1>1 DEF HasCargo
    <3> QED BY <1>1, <2>1, <2>2, <2>6, <3>1, <3>2, FoundKept
  <2>12. MergesThisBuild'
    BY <1>1, <2>2, MergesKept
  <2> QED BY <2>6, <2>7, <2>8, <2>9, <2>10, <2>11, <2>12 DEF ExtractInv
<1> QED BY <1>2, <1>3

(* A driver that is still creating changes its names.                       *)
LEMMA CreatingFrame ==
  ASSUME ExtractInv, NEW d \in Started, driver[d].at = "creating",
         NEW k \in 0..(Attempts - 1), NEW t \in {driver[d].nonce, now},
         driver' = [driver EXCEPT ![d] = [driver[d] EXCEPT !.attempt = k, !.nonce = t]],
         UNCHANGED <<builds, now, recent, cargo, job, files>>
  PROVE  /\ driver' \in [Started -> DriverRecs]'
         /\ \A e \in Started :
              /\ driver'[e].at = driver[e].at /\ driver'[e].code = driver[e].code
              /\ e # d => driver'[e] = driver[e]
              /\ Running(driver'[e].at) => driver'[e].pid \in Pids
              /\ HasCargo(e) => WorkDir(e)' = WorkDir(e)
         /\ NoncesApart' /\ JobsApart' /\ NamesFresh'
<1> DEFINE r == [driver[d] EXCEPT !.attempt = k, !.nonce = t]
<1>1. /\ States /\ Stages /\ Parentage /\ NoncesApart /\ JobsApart /\ NamesFresh
  BY DEF ExtractInv
<1>2. now \in Nat /\ driver[d] \in DriverRecs /\ \A e \in Started : driver[e].nonce \in Nat
      /\ driver[d].nonce <= now
  BY <1>1, Ranges
<1>3. t \in 0..now /\ t \in Nat /\ driver[d].nonce <= t
  BY <1>2
<1>4. /\ r \in DriverRecs /\ r.at = "creating" /\ r.pid = driver[d].pid /\ r.nonce = t
      /\ r.code = driver[d].code
  BY <1>2, <1>3 DEF DriverRecs
<1>5. driver[d].pid \in Pids /\ Running(driver[d].at)
  BY <1>1 DEF Running, States
<1> HIDE DEF r
<1>6. driver' = [driver EXCEPT ![d] = r]
  BY DEF r
<1>7. /\ driver' \in [Started -> DriverRecs]'
      /\ driver'[d] = r
      /\ \A e \in Started : e # d => driver'[e] = driver[e]
      /\ \A e \in Started : Running(driver'[e].at) => driver'[e].pid \in Pids
  BY <1>1, <1>4, <1>5, <1>6, DriverTyped
<1>8. \A e \in Started :
        /\ driver'[e].at = driver[e].at /\ driver'[e].pid = driver[e].pid
        /\ driver'[e].code = driver[e].code
  BY <1>4, <1>7
<1>9. \A e \in Started : HasCargo(e) => WorkDir(e)' = WorkDir(e)
  <2>1. ~HasCargo(d)
    BY <1>1, Constants DEF Stages, StageOf, HasCargo
  <2> QED BY <1>7, <2>1 DEF WorkDir
<1>10. NoncesApart'
  <2>1. \A e \in Started : e # d /\ driver[e].at # "new" /\ driver[e].pid = driver[d].pid =>
          driver[e].nonce < driver[d].nonce /\ ~Running(driver[e].at)
    <3> SUFFICES ASSUME NEW e \in Started, e # d, driver[e].at # "new",
                        driver[e].pid = driver[d].pid
                 PROVE  driver[e].nonce < driver[d].nonce /\ ~Running(driver[e].at)
      OBVIOUS
    <3>1. driver[e].nonce < driver[d].nonce
      BY <1>1, <1>5 DEF NoncesApart
    <3>2. Running(driver[e].at) => driver[d].nonce < driver[e].nonce
      BY <1>1 DEF NoncesApart
    <3> QED BY <1>2, <3>1, <3>2
  <2>2. \A e \in Started : e # d /\ driver[e].at # "new" /\ driver[e].pid = driver[d].pid =>
          driver[e].nonce < t /\ driver[e].nonce # t /\ ~Running(driver[e].at)
    BY <1>2, <1>3, <2>1
  <2>3. driver'[d].nonce = t
    BY <1>4, <1>7
  <2>4. ASSUME NEW x \in Started, driver'[x].at # "new"
        PROVE  /\ Running(driver'[x].at) \/ driver'[x].nonce < now \/ driver'[x].pid \in recent
               /\ \A e \in Started \ {x} :
                    driver'[e].at # "new" /\ driver'[e].pid = driver'[x].pid =>
                      /\ driver'[e].nonce # driver'[x].nonce
                      /\ Running(driver'[x].at) => driver'[e].nonce < driver'[x].nonce
    <3>1. CASE x = d
      BY <1>5, <1>7, <1>8, <2>2, <2>3, <3>1
    <3>2. CASE x # d
      BY <1>1, <1>7, <1>8, <2>2, <2>3, <2>4, <3>2 DEF NoncesApart
    <3> QED BY <3>1, <3>2
  <2> QED BY <2>4 DEF NoncesApart, Started
<1>11. JobsApart'
  BY <1>1, JobsKept
<1>12. NamesFresh'
  <2>1. recent \cup JobPids \subseteq recent' \cup JobPids'
    BY DEF JobPids, Started
  <2> QED BY <1>1, <1>9, <2>1, NamesKept
<1> QED BY <1>7, <1>8, <1>9, <1>10, <1>11, <1>12

(* What an attempt that makes a directory does to the directories.          *)
LEMMA MadeDir ==
  ASSUME ExtractInv, NEW d \in Started, driver[d].at = "creating", WorkDir(d) \notin dirs,
         dirs' = dirs \cup {WorkDir(d)},
         holding' = [holding EXCEPT ![d] = @ \cup {WorkDir(d)}],
         UNCHANGED <<builds, kills, files>>
  PROVE  /\ holding' \in [Started -> SUBSET dirs']
         /\ holding'[d] = holding[d] \cup {WorkDir(d)}
         /\ \A e \in Started : e # d => holding'[e] = holding[e]
         /\ IsFiniteSet(holding'[d])
         /\ Cardinality(holding'[d]) = IF holding[d] = {} THEN 1 ELSE 2
         /\ d \notin Executes => holding[d] = {}
         /\ Owned'
<1> DEFINE w == WorkDir(d)
<1>1. States /\ Stages /\ Owned
  BY DEF ExtractInv
<1> HIDE DEF w
<1>2. /\ dirs' = dirs \cup {w} /\ w \notin dirs
      /\ holding' = [holding EXCEPT ![d] = @ \cup {w}]
  BY DEF w
<1>3. /\ holding' \in [Started -> SUBSET dirs']
      /\ holding'[d] = holding[d] \cup {w}
      /\ \A e \in Started : e # d => holding'[e] = holding[e]
      /\ \A e \in Started : w \notin holding[e]
  BY <1>1, <1>2 DEF States
<1>4. IsFiniteSet(holding[d]) /\ Cardinality(holding[d]) \in Nat
      /\ (Cardinality(holding[d]) = 0 <=> holding[d] = {})
      /\ Cardinality(holding[d]) <= IF d \in Executes THEN 1 ELSE 0
  BY <1>1, FS_CardinalityType, FS_EmptySet DEF Stages, StageOf
<1>5. IsFiniteSet(holding'[d]) /\ Cardinality(holding'[d]) = Cardinality(holding[d]) + 1
  BY <1>3, <1>4, FS_AddElement
<1>6. Cardinality(holding'[d]) = IF holding[d] = {} THEN 1 ELSE 2
  BY <1>4, <1>5
<1>7. d \notin Executes => holding[d] = {}
  BY <1>4
<1>8. Owned'
  <2>1. \A e, x \in Started : e # x => holding'[e] \cap holding'[x] = {}
    BY <1>1, <1>3 DEF Owned
  <2>2. \A f \in DOMAIN files' : f.dir \in dirs'
    BY <1>1, <1>2 DEF Owned
  <2>3. kills' = 0 => \A p \in dirs' : \E e \in Started : p \in holding'[e]
    <3>1. \A e \in Started : holding[e] \subseteq holding'[e]
      BY <1>3
    <3> QED BY <1>1, <1>2, <1>3, <3>1 DEF Owned
  <2> QED BY <2>1, <2>2, <2>3 DEF Owned, Started
<1> QED BY <1>3, <1>5, <1>6, <1>7, <1>8 DEF w

(* RustcOutputDir::create: a directory that is not there yet is made, and   *)
(* the driver goes on or makes its second one.                              *)
LEMMA MadeDirStep ==
  ASSUME ExtractInv, NEW d \in Started, CreateDir(d), WorkDir(d) \notin dirs
  PROVE  ExtractInv'
<1>1. /\ driver[d].at = "creating"
      /\ dirs' = dirs \cup {WorkDir(d)}
      /\ holding' = [holding EXCEPT ![d] = @ \cup {WorkDir(d)}]
      /\ driver' = [driver EXCEPT ![d] = AfterCreate(d)]
      /\ UNCHANGED <<builds, now, recent, kills, inputs, output, cargo, job, files>>
  BY DEF CreateDir, hostVars, cargoVars
<1>2. /\ States /\ Stages /\ Parentage /\ FragmentsFound /\ MergesThisBuild
  BY DEF ExtractInv
<1>3. /\ holding' \in [Started -> SUBSET dirs']
      /\ holding'[d] = holding[d] \cup {WorkDir(d)}
      /\ \A e \in Started : e # d => holding'[e] = holding[e]
      /\ IsFiniteSet(holding'[d])
      /\ Cardinality(holding'[d]) = IF holding[d] = {} THEN 1 ELSE 2
      /\ d \notin Executes => holding[d] = {}
      /\ Owned'
  BY <1>1, MadeDir
<1>4. cargo[d] = None /\ ~HasCargo(d) /\ output[d] = None /\ driver[d] \in DriverRecs
  BY <1>1, <1>2, Constants DEF Stages, StageOf, HasCargo, States
<1> DEFINE went == /\ driver' \in [Started -> DriverRecs]'
                   /\ \A e \in Started :
                        /\ e # d => driver'[e] = driver[e]
                        /\ Running(driver'[e].at) => driver'[e].pid \in Pids
                        /\ HasCargo(e) => WorkDir(e)' = WorkDir(e)
                   /\ NoncesApart' /\ JobsApart' /\ NamesFresh'
<1>5. /\ went
      /\ IF d \in Executes /\ holding[d] = {} THEN driver'[d].at = "creating"
         ELSE /\ driver'[d].at = IF d \in Executes THEN "executing" ELSE "spawning"
              /\ WorkDir(d)' = WorkDir(d)
  <2>1. CASE d \in Executes /\ holding[d] = {}
    <3>1. driver' = [driver EXCEPT ![d] = [driver[d] EXCEPT !.attempt = 0, !.nonce = now]]
      BY <1>1, <2>1 DEF AfterCreate
    <3>2. 0 \in 0..(Attempts - 1)
      BY Constants
    <3>3. went /\ driver'[d].at = driver[d].at
      BY <1>1, <3>1, <3>2, CreatingFrame
    <3> QED BY <1>1, <2>1, <3>3
  <2>2. CASE ~(d \in Executes /\ holding[d] = {})
    <3> DEFINE a == IF d \in Executes THEN "executing" ELSE "spawning"
    <3>1. driver' = [driver EXCEPT ![d] = [driver[d] EXCEPT !.at = a]]
      BY <1>1, <2>2 DEF AfterCreate
    <3>2. a \in DriverStages \ {"new"} /\ Running(a) /\ Running(driver[d].at)
      BY <1>1 DEF DriverStages, Running
    <3> HIDE DEF a
    <3>3. driver' = [driver EXCEPT ![d] = [driver[d] EXCEPT !.at = a, !.code = driver[d].code]]
          /\ driver[d].code \in {None, 0, 1}
      BY <1>4, <3>1 DEF DriverRecs
    <3>4. /\ driver' \in [Started -> DriverRecs]'
          /\ driver'[d].at = a
          /\ \A e \in Started :
               /\ WorkDir(e)' = WorkDir(e)
               /\ e # d => driver'[e] = driver[e]
               /\ Running(driver'[e].at) => driver'[e].pid \in Pids
          /\ NoncesApart' /\ JobsApart' /\ NamesFresh'
      BY <1>1, <3>2, <3>3, DriverFrame
    <3> QED BY <2>2, <3>4 DEF a
  <2> QED BY <2>1, <2>2
<1>6. States'
  BY <1>1, <1>2, <1>3, <1>5 DEF States, Started, JobRecs
<1>7. Stages'
  <2>1. StageOf(d)'
    <3>1. driver'[d].at \in {"creating", "executing", "spawning"}
      BY <1>5
    <3>2. driver'[d].at = "creating" => Cardinality(holding'[d]) <= IF d \in Executes THEN 1 ELSE 0
      BY <1>3, <1>5
    <3>3. driver'[d].at = "executing" => Cardinality(holding'[d]) = 2
      BY <1>3, <1>5
    <3>4. driver'[d].at = "spawning" => holding'[d] = {WorkDir(d)'}
      BY <1>3, <1>5
    <3>5. Cardinality(holding'[d]) <= IF d \in Executes THEN 2 ELSE 1
      BY <1>3
    <3> QED BY <1>1, <1>3, <1>4, <3>1, <3>2, <3>3, <3>4, <3>5 DEF StageOf
  <2>2. \A e \in Started : e # d => StageOf(e)'
    BY <1>1, <1>2, <1>3, <1>5, StageKept DEF Stages
  <2> QED BY <1>1, <2>1, <2>2 DEF Stages, Started
<1>8. driver'[d].at \in {"creating", "executing", "spawning"}
  BY <1>5
<1>9. Parentage'
  <2>1. ParentageOf(d)'
    BY <1>1, <1>2, <1>4, <1>8 DEF Parentage, ParentageOf, HasCargo
  <2>2. \A e \in Started : e # d => ParentageOf(e)'
    BY <1>1, <1>2, <1>5, ParentageKept DEF Parentage
  <2> QED BY <1>1, <2>1, <2>2 DEF Parentage, Started
<1>10. FragmentsFound'
  <2>1. \A e \in Started : driver'[e].at \in {"waiting", "merging"} => driver'[e] = driver[e]
    BY <1>5, <1>8
  <2>2. \A e \in Started : HasCargo(e) => HasCargo(e)' /\ WorkDir(e)' = WorkDir(e)
    BY <1>1, <1>5 DEF HasCargo
  <2>3. \A e \in Started : driver'[e].at \in {"waiting", "merging"} => WorkDir(e)' = WorkDir(e)
    BY <2>1 DEF WorkDir
  <2> QED BY <1>1, <1>2, <2>1, <2>2, <2>3, FoundKept
<1>11. MergesThisBuild'
  BY <1>1, <1>2, MergesKept
<1> QED BY <1>3, <1>5, <1>6, <1>7, <1>9, <1>10, <1>11 DEF ExtractInv

(* A directory that exists is never taken: the next name is tried, or the   *)
(* driver gives up.                                                         *)
LEMMA TakenDirStep ==
  ASSUME ExtractInv, NEW d \in Started, CreateDir(d), WorkDir(d) \in dirs
  PROVE  ExtractInv'
<1>0. /\ driver[d].at = "creating"
      /\ driver' = [driver EXCEPT ![d] =
           IF driver[d].attempt + 1 < Attempts
             THEN [driver[d] EXCEPT !.attempt = driver[d].attempt + 1]
             ELSE [driver[d] EXCEPT !.at = "cleanup", !.code = 1]]
  BY DEF CreateDir
<1>1. /\ driver[d].at = "creating"
      /\ driver' = [driver EXCEPT ![d] =
           IF @.attempt + 1 < Attempts
             THEN [@ EXCEPT !.attempt = driver[d].attempt + 1]
             ELSE [@ EXCEPT !.at = "cleanup", !.code = 1]]
      /\ UNCHANGED <<builds, now, recent, kills, holding, dirs, inputs, output, cargo, job, files>>
  BY DEF CreateDir, hostVars, cargoVars
<1>2. /\ States /\ Stages /\ Parentage /\ Owned /\ FragmentsFound /\ MergesThisBuild
  BY DEF ExtractInv
<1>3. cargo[d] = None /\ ~HasCargo(d) /\ output[d] = None /\ driver[d] \in DriverRecs
  BY <1>1, <1>2, Constants DEF Stages, StageOf, HasCargo, States
<1> DEFINE went == /\ driver' \in [Started -> DriverRecs]'
                   /\ \A e \in Started :
                        /\ e # d => driver'[e] = driver[e]
                        /\ Running(driver'[e].at) => driver'[e].pid \in Pids
                        /\ HasCargo(e) => WorkDir(e)' = WorkDir(e)
                   /\ NoncesApart' /\ JobsApart' /\ NamesFresh'
<1>4. went /\ (driver'[d].at = "creating" \/ (driver'[d].at = "cleanup" /\ driver'[d].code = 1))
  <2>1. CASE driver[d].attempt + 1 < Attempts
    <3> DEFINE k == driver[d].attempt + 1
    <3>1. driver' = [driver EXCEPT ![d] = [driver[d] EXCEPT !.attempt = k]]
      BY <1>0, <2>1
    <3>2. k \in 0..(Attempts - 1)
      <4>1. driver[d].attempt \in 0..(Attempts - 1) /\ Attempts \in Nat
        BY <1>3, Constants DEF DriverRecs
      <4> QED BY <2>1, <4>1
    <3> HIDE DEF k
    <3>3. driver' = [driver EXCEPT ![d] =
                       [driver[d] EXCEPT !.attempt = k, !.nonce = driver[d].nonce]]
      BY <1>3, <3>1 DEF DriverRecs
    <3>4. went /\ driver'[d].at = driver[d].at
      BY <1>1, <3>2, <3>3, CreatingFrame
    <3> HIDE DEF went
    <3> QED BY <1>0, <3>4
  <2>2. CASE ~(driver[d].attempt + 1 < Attempts)
    <3>1. driver' = [driver EXCEPT ![d] = [driver[d] EXCEPT !.at = "cleanup", !.code = 1]]
      BY <1>1, <2>2
    <3>2. "cleanup" \in DriverStages \ {"new"} /\ Running("cleanup") /\ Running(driver[d].at)
      BY <1>1 DEF DriverStages, Running
    <3>3. /\ driver' \in [Started -> DriverRecs]'
          /\ driver'[d].at = "cleanup" /\ driver'[d].code = 1
          /\ \A e \in Started :
               /\ WorkDir(e)' = WorkDir(e)
               /\ e # d => driver'[e] = driver[e]
               /\ Running(driver'[e].at) => driver'[e].pid \in Pids
          /\ NoncesApart' /\ JobsApart' /\ NamesFresh'
      BY <1>1, <3>1, <3>2, DriverFrame
    <3> QED BY <3>3
  <2> QED BY <2>1, <2>2
<1>5. States'
  BY <1>1, <1>2, <1>4 DEF States, Started, JobRecs
<1>6. Stages'
  <2>1. StageOf(d)'
    BY <1>1, <1>2, <1>3, <1>4 DEF Stages, StageOf
  <2>2. \A e \in Started : e # d => StageOf(e)'
    BY <1>1, <1>2, <1>4, StageKept DEF Stages
  <2> QED BY <1>1, <2>1, <2>2 DEF Stages, Started
<1>7. Parentage'
  <2>1. ParentageOf(d)'
    BY <1>1, <1>2, <1>3, <1>4 DEF Parentage, ParentageOf, HasCargo
  <2>2. \A e \in Started : e # d => ParentageOf(e)'
    BY <1>1, <1>2, <1>4, ParentageKept DEF Parentage
  <2> QED BY <1>1, <2>1, <2>2 DEF Parentage, Started
<1>8. Owned'
  BY <1>1, <1>2, OwnedKept
<1>9. FragmentsFound'
  <2>1. \A e \in Started : driver'[e].at \in {"waiting", "merging"} => driver'[e] = driver[e]
    BY <1>4
  <2>2. \A e \in Started : HasCargo(e) => HasCargo(e)' /\ WorkDir(e)' = WorkDir(e)
    BY <1>1, <1>4 DEF HasCargo
  <2>3. \A e \in Started : driver'[e].at \in {"waiting", "merging"} => WorkDir(e)' = WorkDir(e)
    BY <2>1 DEF WorkDir
  <2> QED BY <1>1, <1>2, <2>1, <2>2, <2>3, FoundKept
<1>10. MergesThisBuild'
  BY <1>1, <1>2, MergesKept
<1> QED BY <1>4, <1>5, <1>6, <1>7, <1>8, <1>9, <1>10 DEF ExtractInv

(* What does not depend on where an invocation is when it goes on.          *)
LEMMA JobFrame ==
  ASSUME ExtractInv, NEW d \in Started, NEW u \in builds[d], NEW r, SetJob(d, u, r),
         r \in JobRecs(r.file), Live(r.at) => r.pid \in Pids,
         cargo[d] \in {"running", "killed"}, job[d][u].at # "ok",
         UNCHANGED <<builds, now, kills, driver, holding, inputs, output, cargo>>,
         dirs \subseteq dirs', recent \subseteq recent', recent' \subseteq Pids
  PROVE  /\ job'[d][u] = r
         /\ \A e \in Started : \A v \in builds[e] :
              ~(e = d /\ v = u) => job'[e][v] = job[e][v]
         /\ \A e : WorkDir(e)' = WorkDir(e) /\ HasCargo(e)' = HasCargo(e)
         /\ HasCargo(d)
         /\ States' /\ Stages' /\ Parentage' /\ NoncesApart' /\ MergesThisBuild'
<1>1. /\ States /\ Stages /\ Parentage /\ NoncesApart /\ MergesThisBuild
  BY DEF ExtractInv
<1>2. /\ DOMAIN job' = Started
      /\ \A e \in Started : DOMAIN job'[e] = builds[e]
      /\ job'[d][u] = r
      /\ \A e \in Started : \A v \in builds[e] :
           /\ ~(e = d /\ v = u) => job'[e][v] = job[e][v]
           /\ job'[e][v] \in JobRecs(job'[e][v].file)
           /\ Live(job'[e][v].at) => job'[e][v].pid \in Pids
  BY <1>1, JobTyped
<1>3. \A e : WorkDir(e)' = WorkDir(e) /\ HasCargo(e)' = HasCargo(e)
  BY DEF WorkDir, HasCargo
<1>4. HasCargo(d)
  BY DEF HasCargo
<1>5. States'
  <2>1. holding' \in [Started -> SUBSET dirs']
    BY <1>1 DEF States
  <2>2. driver' \in [Started -> DriverRecs]'
    BY <1>1 DEF States, Started, DriverRecs
  <2>3. \A e \in Started : \A v \in builds[e] :
          /\ job'[e][v] \in JobRecs(job'[e][v].file)
          /\ Live(job'[e][v].at) => job'[e][v].pid \in Pids
    BY <1>2
  <2>4. \A e \in Started : Running(driver'[e].at) => driver'[e].pid \in Pids
    BY <1>1 DEF States
  <2>5. builds \in Plans /\ now \in 0..MaxTime /\ kills \in 0..MaxKills
        /\ cargo \in [Started -> {None, "running", "ok", "failed", "killed"}]
        /\ DOMAIN inputs = Started /\ DOMAIN output = Started
    BY <1>1 DEF States
  <2> QED BY <1>2, <2>1, <2>2, <2>3, <2>4, <2>5 DEF States, Started, JobRecs
<1>6. Stages'
  BY <1>1, StageKept DEF Stages, Started
<1>7. Parentage'
  <2>1. ASSUME NEW e \in Started PROVE ParentageOf(e)'
    <3>1. /\ driver[e].at = "killed" \/ cargo[e] = "killed" => kills > 0
          /\ cargo[e] = "running" => driver[e].at \in {"waiting", "killed"}
          /\ cargo[e] = "ok" => \A v \in builds[e] : job[e][v].at = "ok"
          /\ \A v \in builds[e] :
               /\ Live(job[e][v].at) => cargo[e] \in {"running", "killed"}
               /\ job[e][v].at # "waiting" => HasCargo(e)
      BY <1>1 DEF Parentage, ParentageOf
    <3>2. cargo[e] = "ok" => e # d
      OBVIOUS
    <3>3. cargo[e] = "ok" => \A v \in builds[e] : job'[e][v].at = "ok"
      BY <1>2, <3>1, <3>2
    <3>4. ASSUME NEW v \in builds[e]
          PROVE  /\ Live(job'[e][v].at) => cargo[e] \in {"running", "killed"}
                 /\ job'[e][v].at # "waiting" => HasCargo(e)
      <4>1. CASE e = d
        BY <1>4, <4>1
      <4>2. CASE e # d
        BY <1>2, <3>1, <4>2
      <4> QED BY <4>1, <4>2
    <3> QED BY <1>3, <3>1, <3>3, <3>4 DEF ParentageOf
  <2> QED BY <2>1 DEF Parentage, Started
<1>8. NoncesApart'
  BY <1>1, NoncesKept
<1>9. MergesThisBuild'
  <2>1. \A e \in Started : \A v \in builds[e] : job[e][v].at = "ok" => job'[e][v].at = "ok"
    BY <1>2
  <2> QED BY <1>1, <2>1, MergesKept
<1> QED BY <1>2, <1>3, <1>4, <1>5, <1>6, <1>7, <1>8, <1>9

(* The process numbers of the invocations, when one of them goes on.        *)
LEMMA JobPidsGrow ==
  ASSUME NEW d \in Started, NEW u \in builds[d], builds' = builds,
         \A e \in Started : \A v \in builds[e] :
           ~(e = d /\ v = u) => job'[e][v] = job[e][v],
         Live(job[d][u].at) => (Live(job'[d][u].at) /\ job'[d][u].pid = job[d][u].pid)
  PROVE  JobPids \subseteq JobPids'
<1> SUFFICES ASSUME NEW p \in JobPids PROVE p \in JobPids'
  OBVIOUS
<1>1. PICK e \in Started : \E v \in builds[e] : Live(job[e][v].at) /\ job[e][v].pid = p
  BY JobPidsAre
<1>2. PICK v \in builds[e] : Live(job[e][v].at) /\ job[e][v].pid = p
  BY <1>1
<1>3. Live(job'[e][v].at) /\ job'[e][v].pid = p
  BY <1>2
<1> QED BY <1>3 DEF JobPids, Started

(* Cargo starts an invocation, with a process number no other has.          *)
LEMMA StartJobStep ==
  ASSUME ExtractInv, NEW d \in Started, NEW u \in builds[d], StartJob(d, u)
  PROVE  ExtractInv'
<1>1. /\ cargo[d] = "running" /\ job[d][u].at = "waiting"
      /\ UNCHANGED <<builds, now, recent, kills, driver, holding, inputs, output, cargo, dirs, files>>
  BY DEF StartJob, hostVars, driverVars, diskVars
<1>2. /\ States /\ Parentage /\ Owned /\ JobsApart /\ NamesFresh /\ FragmentsFound
  BY DEF ExtractInv
<1>3. job[d][u] \in JobRecs(job[d][u].file) /\ ~Live(job[d][u].at)
  BY <1>1, <1>2 DEF States, Live
<1>4. PICK r : /\ SetJob(d, u, r)
               /\ \/ r.at = "failed"
                  \/ /\ r.at = IF Extracts(u) THEN "naming" ELSE "compiling"
                     /\ r.pid \in FreePids
               /\ r \in JobRecs(r.file)
  <2>1. ASSUME NEW p \in FreePids,
               SetJob(d, u, [at |-> IF Extracts(u) THEN "naming" ELSE "compiling",
                             pid |-> p, file |-> None])
        PROVE  \E r : /\ SetJob(d, u, r)
                      /\ \/ r.at = "failed"
                         \/ /\ r.at = IF Extracts(u) THEN "naming" ELSE "compiling"
                            /\ r.pid \in FreePids
                      /\ r \in JobRecs(r.file)
    <3> DEFINE r == [at |-> IF Extracts(u) THEN "naming" ELSE "compiling", pid |-> p,
                     file |-> None]
    <3>1. p \in Pids \cup {None}
      BY DEF FreePids
    <3>2. r.at = (IF Extracts(u) THEN "naming" ELSE "compiling") /\ r.pid = p
          /\ r \in JobRecs(r.file)
      BY <3>1 DEF JobRecs
    <3>3. SetJob(d, u, r)
      BY <2>1
    <3> HIDE DEF r
    <3> QED BY <3>2, <3>3
  <2>2. ASSUME SetJob(d, u, [job[d][u] EXCEPT !.at = "failed"])
        PROVE  \E r : /\ SetJob(d, u, r)
                      /\ \/ r.at = "failed"
                         \/ /\ r.at = IF Extracts(u) THEN "naming" ELSE "compiling"
                            /\ r.pid \in FreePids
                      /\ r \in JobRecs(r.file)
    <3> DEFINE r == [job[d][u] EXCEPT !.at = "failed"]
    <3>1. r.at = "failed" /\ r \in JobRecs(r.file)
      BY <1>3 DEF JobRecs
    <3>2. SetJob(d, u, r)
      BY <2>2
    <3> HIDE DEF r
    <3> QED BY <3>1, <3>2
  <2> QED BY <2>1, <2>2 DEF StartJob
<1>5. Live(r.at) => /\ r.pid \in Pids /\ r.pid \notin recent /\ r.pid \notin JobPids
  BY <1>4 DEF FreePids, Live
<1>6. /\ job'[d][u] = r
      /\ \A e \in Started : \A v \in builds[e] :
           ~(e = d /\ v = u) => job'[e][v] = job[e][v]
      /\ \A e : WorkDir(e)' = WorkDir(e) /\ HasCargo(e)' = HasCargo(e)
      /\ States' /\ Stages' /\ Parentage' /\ NoncesApart' /\ MergesThisBuild'
  <2>1. recent \subseteq Pids
    BY <1>2 DEF States
  <2> QED BY <1>1, <1>4, <1>5, <2>1, JobFrame
<1>7. Owned'
  BY <1>1, <1>2, OwnedKept
<1>8. JobsApart'
  <2>1. ASSUME NEW e \in Started, NEW x \in Started, NEW v \in builds[e], NEW w \in builds[x],
               Live(job'[e][v].at), Live(job'[x][w].at), job'[e][v].pid = job'[x][w].pid
        PROVE  e = x /\ v = w
    <3>1. CASE e = d /\ v = u
      <4>1. CASE ~(x = d /\ w = u)
        <5>1. job[x][w].pid \in JobPids
          BY <1>6, <2>1, <4>1, JobPidsAre
        <5> QED BY <1>5, <1>6, <2>1, <3>1, <4>1, <5>1
      <4> QED BY <3>1, <4>1
    <3>2. CASE ~(e = d /\ v = u)
      <4>1. CASE x = d /\ w = u
        <5>1. job[e][v].pid \in JobPids
          BY <1>6, <2>1, <3>2, JobPidsAre
        <5> QED BY <1>5, <1>6, <2>1, <3>2, <4>1, <5>1
      <4>2. CASE ~(x = d /\ w = u)
        BY <1>2, <1>6, <2>1, <3>2, <4>2 DEF JobsApart
      <4> QED BY <4>1, <4>2
    <3> QED BY <3>1, <3>2
  <2> QED BY <1>1, <2>1 DEF JobsApart, Started
<1>9. NamesFresh'
  <2>1. recent \cup JobPids \subseteq recent' \cup JobPids'
    BY <1>1, <1>3, <1>6, JobPidsGrow
  <2>2. r.at \in {"naming", "analysing", "writing"} => NameOf(d, u)'
    <3> SUFFICES ASSUME r.at \in {"naming", "analysing", "writing"}
                 PROVE  NameOf(d, u)'
      OBVIOUS
    <3>1. r.at = "naming" /\ Extracts(u) /\ Live(r.at)
      BY <1>4 DEF Live
    <3>2. \A f \in DOMAIN files : f.pid = r.pid => f.time < now
      BY <1>2, <1>5, <3>1 DEF NamesFresh
    <3> QED BY <1>1, <1>6, <3>1, <3>2 DEF NameOf, Extracts
  <2> QED BY <1>1, <1>2, <1>6, <2>1, <2>2, NamesKept
<1>10. FragmentsFound'
  <2>1. \A e \in Started : \A v \in builds[e] :
          /\ job'[e][v].at = "writing" => job'[e][v] = job[e][v]
          /\ Extracts(v) /\ job'[e][v].at \in {"compiling", "ok"}
               => job[e][v].at \in {"compiling", "ok"}
    BY <1>4, <1>6
  <2> QED BY <1>1, <1>2, <1>6, <2>1, FoundKept
<1> QED BY <1>6, <1>7, <1>8, <1>9, <1>10 DEF ExtractInv

(* A wrapper names its fragment; the directory is back if it was gone.      *)
LEMMA NameFragmentStep ==
  ASSUME ExtractInv, NEW d \in Started, NEW u \in builds[d], NameFragment(d, u)
  PROVE  ExtractInv'
<1> DEFINE path == FragmentPath(d, u)
           r == [job[d][u] EXCEPT !.at = "analysing", !.file = path]
<1>1. /\ job[d][u].at = "naming" /\ dirs' = dirs \cup {WorkDir(d)} /\ SetJob(d, u, r)
      /\ UNCHANGED <<builds, now, recent, kills, driver, holding, inputs, output, cargo, files>>
  BY DEF NameFragment, hostVars, driverVars
<1>2. /\ States /\ Stages /\ Parentage /\ Owned /\ JobsApart /\ NamesFresh /\ FragmentsFound
  BY DEF ExtractInv
<1>3. job[d][u] \in JobRecs(job[d][u].file) /\ Live(job[d][u].at) /\ job[d][u].pid \in Pids
      /\ recent \subseteq Pids
  BY <1>1, <1>2 DEF States, Live
<1>4. r.at = "analysing" /\ r.pid = job[d][u].pid /\ r.file = path /\ r \in JobRecs(r.file)
      /\ Live(r.at)
  BY <1>3 DEF JobRecs, Live
<1>5. cargo[d] \in {"running", "killed"}
  BY <1>2, <1>3 DEF Parentage, ParentageOf
<1> HIDE DEF path, r
<1>6. /\ job'[d][u] = r
      /\ \A e \in Started : \A v \in builds[e] :
           ~(e = d /\ v = u) => job'[e][v] = job[e][v]
      /\ \A e : WorkDir(e)' = WorkDir(e) /\ HasCargo(e)' = HasCargo(e)
      /\ HasCargo(d)
      /\ States' /\ Stages' /\ Parentage' /\ NoncesApart' /\ MergesThisBuild'
  BY <1>1, <1>3, <1>4, <1>5, JobFrame
<1>7. Owned'
  <2>1. kills = 0 => WorkDir(d) \in holding[d]
    <3>1. kills = 0 => cargo[d] = "running" /\ driver[d].at = "waiting"
      <4>1. kills \in Nat
        BY <1>2, Ranges
      <4>2. cargo[d] = "killed" \/ driver[d].at = "killed" => kills > 0
        BY <1>2 DEF Parentage, ParentageOf
      <4>3. cargo[d] = "running" => driver[d].at \in {"waiting", "killed"}
        BY <1>2 DEF Parentage, ParentageOf
      <4> QED BY <1>5, <4>1, <4>2, <4>3
    <3> QED BY <1>2, <3>1 DEF Stages, StageOf
  <2> QED BY <1>1, <1>2, <2>1 DEF Owned, Started
<1>8. JobsApart'
  <2>1. \A e \in Started : \A v \in builds[e] :
          Live(job'[e][v].at) => Live(job[e][v].at) /\ job'[e][v].pid = job[e][v].pid
    BY <1>3, <1>4, <1>6
  <2> QED BY <1>1, <1>2, <2>1, JobsKept
<1>9. NamesFresh'
  <2>1. recent \cup JobPids \subseteq recent' \cup JobPids'
    BY <1>1, <1>4, <1>6, JobPidsGrow
  <2>2. path = [dir |-> WorkDir(d), crate |-> CrateName[u], pid |-> job[d][u].pid, time |-> now]
    BY DEF path, FragmentPath
  <2>3. path.pid = job[d][u].pid /\ path.time = now
        /\ path = [dir |-> WorkDir(d), crate |-> CrateName[u], pid |-> path.pid,
                   time |-> path.time]
    BY <2>2
  <2>4. now \in Nat /\ now \in 0..now /\ ~(now < now)
    BY <1>2, Ranges
  <2>5. Extracts(u) /\ \A f \in DOMAIN files : f.pid = job[d][u].pid => f.time < now
    BY <1>1, <1>2 DEF NamesFresh, NameOf
  <2>6. path \notin DOMAIN files
    BY <2>3, <2>4, <2>5
  <2>7. NameOf(d, u)'
    BY <1>1, <1>4, <1>6, <2>3, <2>4, <2>5, <2>6 DEF NameOf, Extracts
  <2> QED BY <1>1, <1>2, <1>6, <2>1, <2>7, NamesKept
<1>10. FragmentsFound'
  <2>1. \A e \in Started : \A v \in builds[e] :
          /\ job'[e][v].at = "writing" => job'[e][v] = job[e][v]
          /\ Extracts(v) /\ job'[e][v].at \in {"compiling", "ok"}
               => job[e][v].at \in {"compiling", "ok"}
    BY <1>4, <1>6
  <2> QED BY <1>1, <1>2, <1>6, <2>1, FoundKept
<1> QED BY <1>6, <1>7, <1>8, <1>9, <1>10 DEF ExtractInv

(* The files of two live wrappers differ.                                   *)
LEMMA FilesApart ==
  ASSUME ExtractInv, NEW d \in Started, NEW e \in Started, NEW u \in builds[d], NEW v \in builds[e],
         job[d][u].at \in {"analysing", "writing"}, job[e][v].at \in {"analysing", "writing"},
         ~(e = d /\ v = u)
  PROVE  /\ job[d][u].file # job[e][v].file
         /\ job[d][u].file.pid = job[d][u].pid /\ job[d][u].file.dir = WorkDir(d)
<1>1. /\ job[d][u].file = [dir |-> WorkDir(d), crate |-> CrateName[u], pid |-> job[d][u].pid,
                           time |-> job[d][u].file.time]
      /\ job[e][v].file = [dir |-> WorkDir(e), crate |-> CrateName[v], pid |-> job[e][v].pid,
                           time |-> job[e][v].file.time]
  BY DEF ExtractInv, NamesFresh, NameOf
<1>2. job[d][u].file.pid = job[d][u].pid /\ job[d][u].file.dir = WorkDir(d)
      /\ job[e][v].file.pid = job[e][v].pid
  BY <1>1
<1>3. job[d][u].pid # job[e][v].pid
  BY DEF ExtractInv, JobsApart, Live
<1> QED BY <1>2, <1>3

(* A fragment is opened under a name nothing else has.                      *)
LEMMA OpenFragmentStep ==
  ASSUME ExtractInv, NEW d \in Started, NEW u \in builds[d], OpenFragment(d, u)
  PROVE  ExtractInv'
<1> DEFINE path == job[d][u].file
           r == [job[d][u] EXCEPT !.at = "writing"]
<1>1. /\ job[d][u].at = "analysing" /\ path.dir \in dirs /\ SetJob(d, u, r)
      /\ files' = [f \in DOMAIN files \cup {path} |->
                     IF f = path THEN [unit |-> u, whole |-> FALSE] ELSE files[f]]
      /\ UNCHANGED <<builds, now, recent, kills, driver, holding, inputs, output, cargo, dirs>>
  BY DEF OpenFragment, hostVars, driverVars
<1>2. /\ States /\ Stages /\ Parentage /\ Owned /\ JobsApart /\ NamesFresh /\ FragmentsFound
  BY DEF ExtractInv
<1>3. job[d][u] \in JobRecs(job[d][u].file) /\ Live(job[d][u].at) /\ job[d][u].pid \in Pids
      /\ recent \subseteq Pids
  BY <1>1, <1>2 DEF States, Live
<1>4. r.at = "writing" /\ r.pid = job[d][u].pid /\ r.file = path /\ r \in JobRecs(r.file)
      /\ Live(r.at)
  BY <1>3 DEF JobRecs, Live
<1>5. cargo[d] \in {"running", "killed"}
  BY <1>2, <1>3 DEF Parentage, ParentageOf
<1>6. /\ path = [dir |-> WorkDir(d), crate |-> CrateName[u], pid |-> job[d][u].pid,
                 time |-> path.time]
      /\ path.time \in 0..now /\ path \notin DOMAIN files /\ Extracts(u)
  BY <1>1, <1>2 DEF NamesFresh, NameOf
<1>7. path.dir = WorkDir(d) /\ path.pid = job[d][u].pid
  BY <1>6
<1>8. \A e \in Started : \A v \in builds[e] :
        ~(e = d /\ v = u) /\ job[e][v].at \in {"analysing", "writing"} => job[e][v].file # path
  BY <1>1, FilesApart
<1> HIDE DEF path, r
<1>9. /\ DOMAIN files' = DOMAIN files \cup {path} /\ files'[path] = [unit |-> u, whole |-> FALSE]
      /\ \A f \in DOMAIN files : files'[f] = files[f]
  BY <1>1, <1>6
<1>10. /\ job'[d][u] = r
       /\ \A e \in Started : \A v \in builds[e] :
            ~(e = d /\ v = u) => job'[e][v] = job[e][v]
       /\ \A e : WorkDir(e)' = WorkDir(e) /\ HasCargo(e)' = HasCargo(e)
       /\ HasCargo(d)
       /\ States' /\ Stages' /\ Parentage' /\ NoncesApart' /\ MergesThisBuild'
  BY <1>1, <1>3, <1>4, <1>5, JobFrame
<1>11. Owned'
  BY <1>1, <1>2, <1>9 DEF Owned, Started
<1>12. JobsApart'
  <2>1. \A e \in Started : \A v \in builds[e] :
          Live(job'[e][v].at) => Live(job[e][v].at) /\ job'[e][v].pid = job[e][v].pid
    BY <1>3, <1>4, <1>10
  <2> QED BY <1>1, <1>2, <2>1, JobsKept
<1>13. NamesFresh'
  <2>1. JobPids \subseteq JobPids' /\ path.pid \in JobPids'
    <3>1. JobPids \subseteq JobPids'
      BY <1>1, <1>4, <1>10, JobPidsGrow
    <3>2. job[d][u].pid \in JobPids
      BY <1>3, JobPidsAre
    <3> QED BY <1>7, <3>1, <3>2
  <2>2. \A f \in DOMAIN files' : f.time \in 0..now' /\ (f.time < now' \/ f.pid \in recent' \cup JobPids')
    BY <1>1, <1>2, <1>6, <1>9, <2>1 DEF NamesFresh
  <2>3. ASSUME NEW e \in Started, NEW v \in builds[e]
        PROVE  NameOf(e, v)'
    <3>1. CASE e = d /\ v = u
      BY <1>1, <1>4, <1>6, <1>7, <1>9, <1>10, <3>1 DEF NameOf, Extracts
    <3>2. CASE ~(e = d /\ v = u)
      <4> DEFINE j == job[e][v]
      <4>1. NameOf(e, v) /\ job'[e][v] = j /\ WorkDir(e)' = WorkDir(e) /\ Extracts(v)' = Extracts(v)
        BY <1>1, <1>2, <1>10, <3>2 DEF NamesFresh, Extracts
      <4>2. j.at = "naming" => path.pid # j.pid
        BY <1>2, <1>3, <1>7, <3>2 DEF JobsApart, Live
      <4>3. j.at = "naming" => \A f \in DOMAIN files' : f.pid = j.pid => f.time < now
        BY <1>9, <4>1, <4>2 DEF NameOf
      <4>4. j.at = "analysing" => j.file \notin DOMAIN files'
        BY <1>8, <1>9, <3>2, <4>1 DEF NameOf
      <4>5. j.at = "writing" /\ j.file \in DOMAIN files' =>
              files'[j.file] = [unit |-> v, whole |-> FALSE]
        BY <1>8, <1>9, <3>2, <4>1 DEF NameOf
      <4>6. /\ j.at \in {"naming", "analysing", "writing"} => Extracts(v)
            /\ j.at \in {"analysing", "writing"} =>
                 /\ j.file = [dir |-> WorkDir(e), crate |-> CrateName[v], pid |-> j.pid,
                              time |-> j.file.time]
                 /\ j.file.time \in 0..now
        BY <4>1 DEF NameOf
      <4> HIDE DEF j
      <4> QED BY <1>1, <4>1, <4>3, <4>4, <4>5, <4>6 DEF NameOf
    <3> QED BY <3>1, <3>2
  <2> QED BY <1>1, <2>2, <2>3 DEF NamesFresh, Started
<1>14. FragmentsFound'
  <2>1. Started' = Started /\ \A e : Fragments(e)' = Fragments(e)
    BY <1>1 DEF Started, Fragments, Extracts
  <2>2. u \in Fragments(d)
    BY <1>6 DEF Fragments
  <2>3. ASSUME NEW f \in DOMAIN files'
        PROVE  /\ files'[f] = [unit |-> files'[f].unit, whole |-> files'[f].whole]
               /\ \E e \in Started :
                    HasCargo(e) /\ f.dir = WorkDir(e) /\ files'[f].unit \in Fragments(e)
    <3>1. CASE f = path
      BY <1>7, <1>9, <1>10, <2>2, <3>1
    <3>2. CASE f # path
      BY <1>2, <1>9, <3>2 DEF FragmentsFound
    <3> QED BY <3>1, <3>2
  <2>4. ASSUME NEW e \in Started, driver[e].at \in {"waiting", "merging"}, NEW v \in Fragments(e)
        PROVE  /\ job'[e][v].at = "writing" => job'[e][v].file \in DOMAIN files'
               /\ job'[e][v].at \in {"compiling", "ok"} =>
                    \E f \in {g \in DOMAIN files' : g.dir = WorkDir(e)} :
                      files'[f] = [unit |-> v, whole |-> TRUE]
    <3>1. v \in builds[e]
      BY DEF Fragments
    <3>2. CASE e = d /\ v = u
      BY <1>4, <1>9, <1>10, <3>2
    <3>3. CASE ~(e = d /\ v = u)
      <4>1. job'[e][v] = job[e][v]
        BY <1>10, <3>1, <3>3
      <4>2. /\ job[e][v].at = "writing" => job[e][v].file \in DOMAIN files
            /\ job[e][v].at \in {"compiling", "ok"} =>
                 \E f \in FilesIn(WorkDir(e)) : files[f] = [unit |-> v, whole |-> TRUE]
        BY <1>2, <2>4 DEF FragmentsFound
      <4>3. \A f \in FilesIn(WorkDir(e)) : f \in DOMAIN files' /\ f.dir = WorkDir(e)
                                           /\ files'[f] = files[f]
        BY <1>9 DEF FilesIn
      <4> QED BY <1>9, <4>1, <4>2, <4>3
    <3> QED BY <3>2, <3>3
  <2>5. ASSUME NEW e \in Started, driver[e].at = "merging"
        PROVE  inputs[e] = {f \in DOMAIN files' : f.dir = WorkDir(e)}
    <3>1. inputs[e] = FilesIn(WorkDir(e)) /\ HasCargo(e) /\ e # d
      <4>1. \A v \in builds[e] : job[e][v].at = "ok"
        BY <2>5, FoundIsBuilt
      <4> QED BY <1>1, <1>2, <2>5, <4>1, FoundIsBuilt DEF Stages, StageOf
    <3>2. path.dir # WorkDir(e)
      BY <1>7, <1>10, <3>1, WorkDirsApart
    <3> QED BY <1>9, <3>1, <3>2 DEF FilesIn
  <2>6. driver' = driver /\ inputs' = inputs
    BY <1>1
  <2> QED BY <1>10, <2>1, <2>3, <2>4, <2>5, <2>6 DEF FragmentsFound, FilesIn
<1> QED BY <1>10, <1>11, <1>12, <1>13, <1>14 DEF ExtractInv

(* RustcOutputDir::create, one attempt.                                     *)
LEMMA CreateDirStep ==
  ASSUME ExtractInv, NEW d \in Started, CreateDir(d)
  PROVE  ExtractInv'
<1>1. CASE WorkDir(d) \notin dirs
  BY <1>1, MadeDirStep
<1>2. CASE WorkDir(d) \in dirs
  BY <1>2, TakenDirStep
<1> QED BY <1>1, <1>2

(* A fragment is whole: only its own wrapper writes it.                     *)
LEMMA CloseFragmentStep ==
  ASSUME ExtractInv, NEW d \in Started, NEW u \in builds[d], CloseFragment(d, u)
  PROVE  ExtractInv'
<1> DEFINE path == job[d][u].file
           r == [job[d][u] EXCEPT !.at = "compiling"]
<1>1. /\ job[d][u].at = "writing" /\ SetJob(d, u, r)
      /\ files' = [f \in DOMAIN files |->
                     IF f = path THEN [unit |-> u, whole |-> TRUE] ELSE files[f]]
      /\ UNCHANGED <<builds, now, recent, kills, driver, holding, inputs, output, cargo, dirs>>
  BY DEF CloseFragment, hostVars, driverVars
<1>2. /\ States /\ Stages /\ Parentage /\ Owned /\ JobsApart /\ NamesFresh /\ FragmentsFound
  BY DEF ExtractInv
<1>3. job[d][u] \in JobRecs(job[d][u].file) /\ Live(job[d][u].at) /\ job[d][u].pid \in Pids
      /\ recent \subseteq Pids
  BY <1>1, <1>2 DEF States, Live
<1>4. r.at = "compiling" /\ r.pid = job[d][u].pid /\ r.file = path /\ r \in JobRecs(r.file)
      /\ Live(r.at)
  BY <1>3 DEF JobRecs, Live
<1>5. cargo[d] \in {"running", "killed"}
  BY <1>2, <1>3 DEF Parentage, ParentageOf
<1>6. /\ path = [dir |-> WorkDir(d), crate |-> CrateName[u], pid |-> job[d][u].pid,
                 time |-> path.time]
      /\ Extracts(u)
      /\ path \in DOMAIN files => files[path] = [unit |-> u, whole |-> FALSE]
  BY <1>1, <1>2 DEF NamesFresh, NameOf
<1>7. path.dir = WorkDir(d)
  BY <1>6
<1>8. \A e \in Started : \A v \in builds[e] :
        ~(e = d /\ v = u) /\ job[e][v].at \in {"analysing", "writing"} => job[e][v].file # path
  BY <1>1, FilesApart
<1> HIDE DEF path, r
<1>9. /\ DOMAIN files' = DOMAIN files
      /\ path \in DOMAIN files => files'[path] = [unit |-> u, whole |-> TRUE]
      /\ \A f \in DOMAIN files : f # path => files'[f] = files[f]
  BY <1>1
<1>10. /\ job'[d][u] = r
       /\ \A e \in Started : \A v \in builds[e] :
            ~(e = d /\ v = u) => job'[e][v] = job[e][v]
       /\ \A e : WorkDir(e)' = WorkDir(e) /\ HasCargo(e)' = HasCargo(e)
       /\ HasCargo(d)
       /\ States' /\ Stages' /\ Parentage' /\ NoncesApart' /\ MergesThisBuild'
  BY <1>1, <1>3, <1>4, <1>5, JobFrame
<1>11. Owned'
  BY <1>1, <1>2, <1>9, OwnedKept
<1>12. JobsApart'
  <2>1. \A e \in Started : \A v \in builds[e] :
          Live(job'[e][v].at) => Live(job[e][v].at) /\ job'[e][v].pid = job[e][v].pid
    BY <1>3, <1>4, <1>10
  <2> QED BY <1>1, <1>2, <2>1, JobsKept
<1>13. NamesFresh'
  <2>1. JobPids \subseteq JobPids'
    BY <1>1, <1>4, <1>10, JobPidsGrow
  <2>2. \A f \in DOMAIN files' : f.time \in 0..now' /\ (f.time < now' \/ f.pid \in recent' \cup JobPids')
    BY <1>1, <1>2, <1>9, <2>1 DEF NamesFresh
  <2>3. ASSUME NEW e \in Started, NEW v \in builds[e]
        PROVE  NameOf(e, v)'
    <3>1. CASE e = d /\ v = u
      BY <1>4, <1>10, <3>1 DEF NameOf
    <3>2. CASE ~(e = d /\ v = u)
      <4> DEFINE j == job[e][v]
      <4>1. NameOf(e, v) /\ job'[e][v] = j /\ WorkDir(e)' = WorkDir(e) /\ Extracts(v)' = Extracts(v)
        BY <1>1, <1>2, <1>10, <3>2 DEF NamesFresh, Extracts
      <4>2. j.at = "naming" => \A f \in DOMAIN files' : f.pid = j.pid => f.time < now
        BY <1>9, <4>1 DEF NameOf
      <4>3. j.at = "analysing" => j.file \notin DOMAIN files'
        BY <1>9, <4>1 DEF NameOf
      <4>4. j.at = "writing" /\ j.file \in DOMAIN files' =>
              files'[j.file] = [unit |-> v, whole |-> FALSE]
        BY <1>8, <1>9, <3>2, <4>1 DEF NameOf
      <4>5. /\ j.at \in {"naming", "analysing", "writing"} => Extracts(v)
            /\ j.at \in {"analysing", "writing"} =>
                 /\ j.file = [dir |-> WorkDir(e), crate |-> CrateName[v], pid |-> j.pid,
                              time |-> j.file.time]
                 /\ j.file.time \in 0..now
        BY <4>1 DEF NameOf
      <4> HIDE DEF j
      <4> QED BY <1>1, <4>1, <4>2, <4>3, <4>4, <4>5 DEF NameOf
    <3> QED BY <3>1, <3>2
  <2> QED BY <1>1, <2>2, <2>3 DEF NamesFresh, Started
<1>14. FragmentsFound'
  <2>1. Started' = Started /\ \A e : Fragments(e)' = Fragments(e)
    BY <1>1 DEF Started, Fragments, Extracts
  <2>2. u \in Fragments(d)
    BY <1>6 DEF Fragments
  <2>3. ASSUME NEW f \in DOMAIN files'
        PROVE  /\ files'[f] = [unit |-> files'[f].unit, whole |-> files'[f].whole]
               /\ \E e \in Started :
                    HasCargo(e) /\ f.dir = WorkDir(e) /\ files'[f].unit \in Fragments(e)
    <3>1. CASE f = path
      BY <1>7, <1>9, <1>10, <2>2, <3>1
    <3>2. CASE f # path
      BY <1>2, <1>9, <3>2 DEF FragmentsFound
    <3> QED BY <3>1, <3>2
  <2>4. ASSUME NEW e \in Started, driver[e].at \in {"waiting", "merging"}, NEW v \in Fragments(e)
        PROVE  /\ job'[e][v].at = "writing" => job'[e][v].file \in DOMAIN files'
               /\ job'[e][v].at \in {"compiling", "ok"} =>
                    \E f \in {g \in DOMAIN files' : g.dir = WorkDir(e)} :
                      files'[f] = [unit |-> v, whole |-> TRUE]
    <3>1. v \in builds[e]
      BY DEF Fragments
    <3>2. /\ job[e][v].at = "writing" => job[e][v].file \in DOMAIN files
          /\ job[e][v].at \in {"compiling", "ok"} =>
               \E f \in FilesIn(WorkDir(e)) : files[f] = [unit |-> v, whole |-> TRUE]
      BY <1>2, <2>4 DEF FragmentsFound
    <3>3. CASE e = d /\ v = u
      <4>1. path \in DOMAIN files
        BY <1>1, <3>2, <3>3 DEF path
      <4> QED BY <1>4, <1>7, <1>9, <1>10, <3>3, <4>1
    <3>4. CASE ~(e = d /\ v = u)
      <4>1. job'[e][v] = job[e][v]
        BY <1>10, <3>1, <3>4
      <4>2. \A f \in FilesIn(WorkDir(e)) :
              files[f] = [unit |-> v, whole |-> TRUE] =>
                f \in DOMAIN files' /\ f.dir = WorkDir(e) /\ files'[f] = files[f]
        <5> SUFFICES ASSUME NEW f \in FilesIn(WorkDir(e)), files[f] = [unit |-> v, whole |-> TRUE]
                     PROVE  f \in DOMAIN files' /\ f.dir = WorkDir(e) /\ files'[f] = files[f]
          OBVIOUS
        <5>1. f \in DOMAIN files /\ f.dir = WorkDir(e) /\ files[f].whole = TRUE
          BY DEF FilesIn
        <5>2. f # path
          <6>1. path \in DOMAIN files => files[path].whole = FALSE
            BY <1>6
          <6> QED BY <5>1, <6>1
        <5> QED BY <1>9, <5>1, <5>2
      <4> QED BY <1>9, <3>2, <4>1, <4>2
    <3> QED BY <3>3, <3>4
  <2>5. ASSUME NEW e \in Started, driver[e].at = "merging"
        PROVE  inputs[e] = {f \in DOMAIN files' : f.dir = WorkDir(e)}
    BY <1>2, <1>9, <2>5 DEF FragmentsFound, FilesIn
  <2>6. driver' = driver /\ inputs' = inputs
    BY <1>1
  <2> QED BY <1>10, <2>1, <2>3, <2>4, <2>5, <2>6 DEF FragmentsFound, FilesIn
<1> QED BY <1>10, <1>11, <1>12, <1>13, <1>14 DEF ExtractInv

(* An invocation ends; its process number is free when the clock advances.  *)
LEMMA EndJobStep ==
  ASSUME ExtractInv, NEW d \in Started, NEW u \in builds[d], Live(job[d][u].at),
         NEW a \in {"ok", "failed"}, a = "ok" => job[d][u].at = "compiling",
         EndJob(d, u, a), UNCHANGED <<driverVars, cargo, diskVars>>
  PROVE  ExtractInv'
<1> DEFINE r == [at |-> a, pid |-> None, file |-> None]
<1>1. /\ SetJob(d, u, r) /\ recent' = recent \cup {job[d][u].pid}
      /\ UNCHANGED <<builds, now, kills, driver, holding, inputs, output, cargo, dirs, files>>
  BY DEF EndJob, driverVars, diskVars
<1>2. /\ States /\ Stages /\ Parentage /\ Owned /\ JobsApart /\ NamesFresh /\ FragmentsFound
  BY DEF ExtractInv
<1>3. job[d][u].pid \in Pids /\ recent' \subseteq Pids /\ job[d][u].at # "ok"
  BY <1>1, <1>2 DEF States, Live
<1>4. r.at = a /\ r \in JobRecs(r.file) /\ ~Live(r.at)
  BY DEF JobRecs, Live
<1>5. cargo[d] \in {"running", "killed"}
  BY <1>2 DEF Parentage, ParentageOf
<1> HIDE DEF r
<1>6. /\ job'[d][u] = r
      /\ \A e \in Started : \A v \in builds[e] :
           ~(e = d /\ v = u) => job'[e][v] = job[e][v]
      /\ \A e : WorkDir(e)' = WorkDir(e) /\ HasCargo(e)' = HasCargo(e)
      /\ States' /\ Stages' /\ Parentage' /\ NoncesApart' /\ MergesThisBuild'
  BY <1>1, <1>3, <1>4, <1>5, JobFrame
<1>7. Owned'
  BY <1>1, <1>2, OwnedKept
<1>8. JobsApart'
  <2>1. \A e \in Started : \A v \in builds[e] :
          Live(job'[e][v].at) => Live(job[e][v].at) /\ job'[e][v].pid = job[e][v].pid
    BY <1>4, <1>6
  <2> QED BY <1>1, <1>2, <2>1, JobsKept
<1>9. NamesFresh'
  <2>1. ASSUME NEW p \in JobPids, p # job[d][u].pid PROVE p \in JobPids'
    <3>1. PICK e \in Started : \E v \in builds[e] : Live(job[e][v].at) /\ job[e][v].pid = p
      BY JobPidsAre
    <3>2. PICK v \in builds[e] : Live(job[e][v].at) /\ job[e][v].pid = p
      BY <3>1
    <3>3. Live(job'[e][v].at) /\ job'[e][v].pid = p
      BY <1>6, <2>1, <3>2
    <3> QED BY <1>1, <3>3 DEF JobPids, Started
  <2>2. recent \cup JobPids \subseteq recent' \cup JobPids'
    BY <1>1, <2>1
  <2>3. r.at \notin {"naming", "analysing", "writing"}
    BY <1>4
  <2> QED BY <1>1, <1>2, <1>6, <2>2, <2>3, NamesKept
<1>10. FragmentsFound'
  <2>1. \A e \in Started : \A v \in builds[e] :
          /\ job'[e][v].at = "writing" => job'[e][v] = job[e][v]
          /\ Extracts(v) /\ job'[e][v].at \in {"compiling", "ok"}
               => job[e][v].at \in {"compiling", "ok"}
    BY <1>4, <1>6
  <2> QED BY <1>1, <1>2, <1>6, <2>1, FoundKept
<1> QED BY <1>6, <1>7, <1>8, <1>9, <1>10 DEF ExtractInv

(* A Cargo ends, by itself when none of its invocations runs, or is killed. *)
LEMMA EndCargoStep ==
  ASSUME ExtractInv, NEW d \in Started, cargo[d] = "running", NEW c \in {"ok", "failed", "killed"},
         cargo' = [cargo EXCEPT ![d] = c], kills' \in 0..MaxKills,
         c = "killed" => kills' > 0, kills > 0 => kills' > 0, kills' = 0 => kills = 0,
         c = "ok" => \A u \in builds[d] : job[d][u].at = "ok",
         c # "killed" => \A u \in builds[d] : ~Live(job[d][u].at),
         UNCHANGED <<builds, now, recent, driverVars, job, diskVars>>
  PROVE  ExtractInv'
<1>1. UNCHANGED <<builds, now, recent, driver, holding, inputs, output, job, dirs, files>>
  BY DEF driverVars, diskVars
<1>2. /\ States /\ Stages /\ Parentage /\ Owned /\ NoncesApart /\ JobsApart
      /\ NamesFresh /\ FragmentsFound /\ MergesThisBuild
  BY DEF ExtractInv
<1>3. /\ cargo' \in [Started -> {None, "running", "ok", "failed", "killed"}]
      /\ cargo'[d] = c /\ \A e \in Started : e # d => cargo'[e] = cargo[e]
  BY <1>2 DEF States
<1>4. HasCargo(d) /\ HasCargo(d)' /\ driver[d].at \in {"waiting", "killed"}
  BY <1>2, <1>3 DEF HasCargo, Parentage, ParentageOf
<1>5. /\ \A e : WorkDir(e)' = WorkDir(e)
      /\ \A e \in Started : HasCargo(e) => HasCargo(e)'
  BY <1>1, <1>3, <1>4 DEF WorkDir, HasCargo
<1>6. States'
  <2>1. driver' \in [Started -> DriverRecs]'
    BY <1>1, <1>2 DEF States, Started, DriverRecs
  <2> QED BY <1>1, <1>2, <1>3, <2>1 DEF States, Started, JobRecs
<1>7. Stages'
  <2>1. StageOf(d)'
    BY <1>1, <1>2, <1>4, <1>5 DEF Stages, StageOf
  <2>2. \A e \in Started : e # d => StageOf(e)'
    BY <1>1, <1>2, <1>3, StageKept DEF Stages
  <2> QED BY <1>1, <2>1, <2>2 DEF Stages, Started
<1>8. Parentage'
  <2>1. ParentageOf(d)'
    <3>1. \A u \in builds[d] : Live(job[d][u].at) => c = "killed"
      OBVIOUS
    <3>2. driver[d].at = "killed" => kills > 0
      BY <1>2 DEF Parentage, ParentageOf
    <3> QED BY <1>1, <1>3, <1>4, <3>1, <3>2 DEF ParentageOf
  <2>2. \A e \in Started : e # d => ParentageOf(e)'
    BY <1>1, <1>2, <1>3, ParentageKept DEF Parentage
  <2> QED BY <1>1, <2>1, <2>2 DEF Parentage, Started
<1>9. Owned'
  BY <1>1, <1>2, OwnedKept
<1>10. NoncesApart' /\ JobsApart'
  BY <1>1, <1>2, NoncesKept, JobsKept
<1>11. NamesFresh'
  <2>1. recent \cup JobPids \subseteq recent' \cup JobPids'
    BY <1>1 DEF JobPids, Started
  <2> QED BY <1>1, <1>2, <1>5, <2>1, NamesKept
<1>12. FragmentsFound'
  BY <1>1, <1>2, <1>5, FoundKept
<1>13. MergesThisBuild'
  BY <1>1, <1>2, MergesKept
<1> QED BY <1>6, <1>7, <1>8, <1>9, <1>10, <1>11, <1>12, <1>13 DEF ExtractInv

-----------------------------------------------------------------------------
(* The theorems.                                                            *)

LEMMA StutterStep ==
  ASSUME ExtractInv, UNCHANGED vars
  PROVE  ExtractInv'
<1>1. /\ UNCHANGED <<builds, now, recent, kills, driver, holding, inputs, output, cargo, job,
                     dirs, files>>
      /\ \A e : WorkDir(e)' = WorkDir(e) /\ HasCargo(e)' = HasCargo(e)
      /\ JobPids' = JobPids
  BY DEF vars, hostVars, driverVars, cargoVars, diskVars, WorkDir, HasCargo, JobPids, Started
<1>2. /\ States /\ Stages /\ Parentage /\ Owned /\ NoncesApart /\ JobsApart
      /\ NamesFresh /\ FragmentsFound /\ MergesThisBuild
  BY DEF ExtractInv
<1>3. States'
  BY <1>1, <1>2 DEF States, Started, DriverRecs, JobRecs
<1>4. Stages'
  BY <1>1, <1>2, StageKept DEF Stages, Started
<1>5. Parentage'
  BY <1>1, <1>2, ParentageKept DEF Parentage, Started
<1>6. Owned' /\ NoncesApart' /\ JobsApart'
  BY <1>1, <1>2, OwnedKept, NoncesKept, JobsKept
<1>7. NamesFresh' /\ FragmentsFound' /\ MergesThisBuild'
  BY <1>1, <1>2, NamesKept, FoundKept, MergesKept
<1> QED BY <1>3, <1>4, <1>5, <1>6, <1>7 DEF ExtractInv

LEMMA NextKeepsExtractInv ==
  ASSUME ExtractInv, Next
  PROVE  ExtractInv'
<1>1. CASE Tick
  BY <1>1, TickStep
<1>2. ASSUME NEW d \in Started, StartDriver(d) \/ DriverStep(d) \/ KillDriver(d)
      PROVE  ExtractInv'
  BY <1>2, StartDriverStep, KillDriverStep, CreateDirStep, ExecuteStep, RunCargoStep,
     ListFragmentsStep, MergeStep, CleanUpStep DEF DriverStep
<1>3. ASSUME NEW d \in Started, CargoExit(d)
      PROVE  ExtractInv'
  <2>1. kills \in 0..MaxKills
    BY DEF ExtractInv, States
  <2>2. UNCHANGED <<builds, now, recent, kills, driverVars, job, diskVars>>
    BY <1>3 DEF CargoExit, hostVars
  <2>3. PICK c \in {"ok", "failed"} :
          /\ cargo' = [cargo EXCEPT ![d] = c]
          /\ c = "ok" => \A u \in builds[d] : job[d][u].at = "ok"
    BY <1>3 DEF CargoExit
  <2>4. cargo[d] = "running" /\ \A u \in builds[d] : ~Live(job[d][u].at)
    BY <1>3 DEF CargoExit
  <2> QED BY <2>1, <2>2, <2>3, <2>4, EndCargoStep
<1>4. ASSUME NEW d \in Started, KillCargo(d)
      PROVE  ExtractInv'
  <2>1. kills \in Nat /\ MaxKills \in Nat /\ kills < MaxKills /\ kills' = kills + 1
    BY <1>4, Ranges DEF KillCargo, ExtractInv
  <2>2. kills' \in 0..MaxKills /\ kills' > 0 /\ kills' # 0
    BY <2>1
  <2>3. /\ cargo[d] = "running" /\ cargo' = [cargo EXCEPT ![d] = "killed"]
        /\ UNCHANGED <<builds, now, recent, driverVars, job, diskVars>>
    BY <1>4 DEF KillCargo
  <2> QED BY <2>2, <2>3, EndCargoStep
<1>5. ASSUME NEW d \in Started, NEW u \in builds[d], FailJob(d, u) \/ FinishJob(d, u)
      PROVE  ExtractInv'
  <2>1. CASE FailJob(d, u)
    BY <2>1, EndJobStep DEF FailJob
  <2>2. CASE FinishJob(d, u)
    BY <2>2, EndJobStep DEF FinishJob, Live
  <2> QED BY <1>5, <2>1, <2>2
<1>6. ASSUME NEW d \in Started, NEW u \in builds[d], JobStep(d, u)
      PROVE  ExtractInv'
  BY <1>5, <1>6, StartJobStep, NameFragmentStep, OpenFragmentStep, CloseFragmentStep
     DEF JobStep
<1> QED BY <1>1, <1>2, <1>3, <1>4, <1>6 DEF Next

(* ExtractInv is inductive.                                                 *)
THEOREM ExtractInvariant == Spec => []ExtractInv
<1>1. ExtractInv /\ [Next]_vars => ExtractInv'
  BY StutterStep, NextKeepsExtractInv
<1> QED BY InitExtractInv, <1>1, PTL DEF Spec

(* Every state of the drivers, of Cargo and of the disk is one the code has: *)
(* at most two directories per extractor, never an attempt past the last,    *)
(* no fragment outside a directory.                                          *)
THEOREM StatesTyped == Spec => []TypeOK
<1>1. ExtractInv => TypeOK
  <2> SUFFICES ASSUME ExtractInv PROVE TypeOK
    OBVIOUS
  <2>1. States /\ Stages /\ Owned /\ MergesThisBuild
    BY DEF ExtractInv
  <2>2. ASSUME NEW d \in Started
        PROVE  /\ driver[d].at \in DriverStages /\ driver[d].code \in {None, 0, 1}
               /\ driver[d].attempt < Attempts
               /\ Cardinality(holding[d]) <= IF d \in Executes THEN 2 ELSE 1
               /\ output[d] = None \/ output[d] \subseteq Units
    <3>1. driver[d].attempt \in 0..(Attempts - 1) /\ Attempts \in Nat
      BY <2>1, Constants DEF States, DriverRecs
    <3>2. driver[d].attempt < Attempts
      BY <3>1
    <3>3. output[d] = None \/ output[d] \subseteq Units
      BY <2>1, Ranges DEF MergesThisBuild, Fragments
    <3> QED BY <2>1, <3>2, <3>3 DEF States, DriverRecs, Stages, StageOf
  <2> QED BY <2>1, <2>2 DEF TypeOK, States, Owned
<1> QED BY ExtractInvariant, <1>1, PTL

(* merge_text_modules_to_file has the fragments of the crates of its own     *)
(* Cargo, all of them and no other, whatever runs, fails or is killed.       *)
THEOREM OutputIsThisBuild == Spec => []MergesThisBuild
<1>1. ExtractInv => MergesThisBuild
  BY DEF ExtractInv
<1> QED BY ExtractInvariant, <1>1, PTL

(* The exit code says whether there is an output.                            *)
THEOREM CodeTellsOutput == Spec => []CodeTells
<1>1. ExtractInv => CodeTells
  BY DEF ExtractInv, Stages, StageOf, CodeTells
<1> QED BY ExtractInvariant, <1>1, PTL

(* RustcOutputDir: a directory has one owner and is there until it drops it. *)
THEOREM DirectoriesHeld == Spec => []DirsHeld
<1>1. ExtractInv => DirsHeld
  BY DEF ExtractInv, States, Stages, StageOf, Owned, DirsHeld
<1> QED BY ExtractInvariant, <1>1, PTL

(* Without a kill, no directory outlives the extractor that made it: a       *)
(* wrapper that makes one does so while its driver still waits.              *)
THEOREM NoDirectoryLeft == Spec => []NothingLeft
<1>1. ExtractInv => NothingLeft
  BY DEF ExtractInv, Stages, StageOf, Owned, NothingLeft
<1> QED BY ExtractInvariant, <1>1, PTL

(* The only steps that change files are those of the wrapper whose fragment  *)
(* it is, and the drop of the directory by the driver that holds it.         *)
LEMMA FragmentKept ==
  ASSUME ExtractInv, [Next]_vars, NEW f \in DOMAIN files, files[f].whole
  PROVE  \/ f \in DOMAIN files' /\ files'[f] = files[f]
         \/ \E d \in Started : f.dir \in holding[d] \ holding'[d]
<1>1. CASE files' = files
  BY <1>1
<1>2. ASSUME NEW d \in Started, CleanUp(d)
      PROVE  \/ f \in DOMAIN files' /\ files'[f] = files[f]
             \/ \E e \in Started : f.dir \in holding[e] \ holding'[e]
  <2>1. CASE holding[d] # {}
    <3>1. PICK p \in holding[d] :
            files' = WithoutDir(p) /\ holding' = [holding EXCEPT ![d] = @ \ {p}]
      BY <1>2, <2>1 DEF CleanUp
    <3>2. holding'[d] = holding[d] \ {p}
      BY <3>1 DEF ExtractInv, States
    <3>3. CASE f.dir = p
      BY <3>2, <3>3
    <3>4. CASE f.dir # p
      BY <3>1, <3>4 DEF WithoutDir, FilesIn
    <3> QED BY <3>3, <3>4
  <2>2. CASE holding[d] = {}
    BY <1>2, <2>2 DEF CleanUp, diskVars
  <2> QED BY <2>1, <2>2
<1>3. ASSUME NEW d \in Started, NEW u \in builds[d], OpenFragment(d, u)
      PROVE  f \in DOMAIN files' /\ files'[f] = files[f]
  <2>1. job[d][u].file \notin DOMAIN files
    BY <1>3 DEF OpenFragment, ExtractInv, NamesFresh, NameOf
  <2> QED BY <1>3, <2>1 DEF OpenFragment
<1>4. ASSUME NEW d \in Started, NEW u \in builds[d], CloseFragment(d, u)
      PROVE  f \in DOMAIN files' /\ files'[f] = files[f]
  <2>1. job[d][u].file \in DOMAIN files => files[job[d][u].file].whole = FALSE
    <3>1. job[d][u].at = "writing" /\ NameOf(d, u)
      BY <1>4 DEF CloseFragment, ExtractInv, NamesFresh
    <3>2. job[d][u].file \in DOMAIN files =>
            files[job[d][u].file] = [unit |-> u, whole |-> FALSE]
      BY <3>1 DEF NameOf
    <3> QED BY <3>2
  <2> QED BY <1>4, <2>1 DEF CloseFragment
<1>5. CASE Tick
  BY <1>1, <1>5 DEF Tick, diskVars
<1>6. ASSUME NEW d \in Started, StartDriver(d) \/ KillDriver(d) \/ CargoExit(d) \/ KillCargo(d)
      PROVE  files' = files
  BY <1>6 DEF StartDriver, KillDriver, CargoExit, KillCargo, diskVars
<1>7. ASSUME NEW d \in Started, DriverStep(d), ~CleanUp(d)
      PROVE  files' = files
  BY <1>7 DEF DriverStep, CreateDir, Execute, RunCargo, ListFragments, Merge, diskVars
<1>8. ASSUME NEW d \in Started, NEW u \in builds[d], JobStep(d, u),
             ~OpenFragment(d, u), ~CloseFragment(d, u)
      PROVE  files' = files
  BY <1>8 DEF JobStep, StartJob, NameFragment, FailJob, FinishJob, diskVars
<1>9. CASE UNCHANGED vars
  BY <1>1, <1>9 DEF vars, diskVars
<1> QED BY <1>1, <1>2, <1>3, <1>4, <1>5, <1>6, <1>7, <1>8, <1>9 DEF Next

(* run_rustc_wrapper never writes where another has written: a fragment that *)
(* is whole stays as it is until its driver drops the directory.             *)
THEOREM WholeFragmentsKept == Spec => FragmentsKept
<1>1. ExtractInv /\ [Next]_vars =>
        \A f \in DOMAIN files :
          files[f].whole =>
            \/ f \in DOMAIN files' /\ files'[f] = files[f]
            \/ \E d \in Started : f.dir \in holding[d] \ holding'[d]
  BY FragmentKept
<1> QED BY ExtractInvariant, <1>1, PTL DEF Spec, FragmentsKept

=============================================================================
