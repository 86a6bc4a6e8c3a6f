------------------------------- MODULE Pipeline -------------------------------
(***************************************************************************)
(* The benchmark workflow (.github/workflows/benchmark.yml): one job per   *)
(* library and architecture builds the programs, runs them into result     *)
(* files, validates these and uploads them; when all jobs have succeeded a *)
(* last one merges the files and publishes the comparison.  Jobs run on    *)
(* machines of their own, may fail in any step, may be stopped by their    *)
(* timeout or be cancelled by a newer push.                                *)
(*                                                                         *)
(* A program prints the rows its matrix promises (BenchMain, TlsMain).  It *)
(* does not look at the results of printf: when the disk fills up its file *)
(* ends early, perhaps within a row, and it still exits with 0.  A disk    *)
(* that is full stays full for the rest of the job.                        *)
(***************************************************************************)
EXTENDS Summary, SequencesExt

CONSTANTS
  Architectures,  \* matrix.arch
  Cases,          \* what each program measures: sequences of [table, key]
  Samples,        \* --samples
  Readings,       \* the rates that may be measured: sets of functions
  Paths,          \* the names of all result files, sorted
  FullDisks       \* the sets of jobs whose disk may fill up

VARIABLES
  pc,         \* the step each job is at
  machine,    \* what is on the machine of each job, given up when it is over
  artifacts,  \* the files it has uploaded
  comparison, \* the files in comparison/ on the machine of the last job
  report,     \* the comparison it has published, << >> before
  rate,       \* what the samples measure in this environment
  full        \* the jobs whose disk may fill up in this environment

environment == <<rate, full>>
vars == <<pc, machine, artifacts, comparison, report, environment>>

Jobs == {"openssl", "libressl"} \X Architectures
LastJob == <<"summary", "any">>
AllJobs == Jobs \cup {LastJob}

Backends == [openssl |-> <<"openssl">>, libressl |-> <<"libressl", "libressl-patched">>]

(* The runs of the benchmark step: both programs of every backend built.   *)
Runs(job) ==
  [i \in 1 .. 2 * Len(Backends[job[1]]) |->
     <<Backends[job[1]][(i + 1) \div 2], IF i % 2 = 1 THEN "aead" ELSE "tls">>]

(* Mutant: the name of a result file lacks the architecture.               *)
NameWithoutArchitecture(job, run) == <<run[1], CHOOSE a \in Architectures : TRUE, run[2]>>

(* The file a run is redirected to.                                        *)
FileName(job, run) == <<run[1], job[2], run[2]>>

NoFiles == << >>

(* A machine: the version of the library the programs were linked with,    *)
(* the run the benchmark step is at, and the files in results/.            *)
Fresh == [version |-> "none", turn |-> 1, results |-> NoFiles]

(* What is measured: a key of a table, with a backend on an architecture.  *)
Experiments ==
  {<<a, b, c.table, c.key>> : a \in Architectures,
     b \in ToSet(Backends["openssl"]) \cup ToSet(Backends["libressl"]),
     c \in ToSet(Cases["aead"]) \cup ToSet(Cases["tls"])}

(* Both programs have cases to measure, no two of them in the same row of  *)
(* a table, and take one sample of each at least; every file a run is      *)
(* redirected to has a place in the order of names.                        *)
ASSUME PipelineAssumption ==
  /\ Samples \in Nat \ {0}
  /\ \A p \in {"aead", "tls"} :
       Len(Cases[p]) \in Nat \ {0} /\ DOMAIN Cases[p] = 1 .. Len(Cases[p])
  /\ \A p, q \in {"aead", "tls"} : \A i \in DOMAIN Cases[p], j \in DOMAIN Cases[q] :
       Cases[p][i].table = Cases[q][j].table /\ Cases[p][i].key = Cases[q][j].key
         => p = q /\ i = j
  /\ Readings \subseteq [Experiments -> [1 .. Samples -> Nat]]
  /\ Len(Paths) \in Nat
  /\ \A i, j \in 1 .. Len(Paths) : Paths[i] = Paths[j] => i = j
  /\ \A job \in Jobs : \A r \in DOMAIN Runs(job) :
       \E i \in 1 .. Len(Paths) : Paths[i] = FileName(job, Runs(job)[r])

Init ==
  /\ pc = [job \in AllJobs |-> IF job = LastJob THEN "waiting" ELSE "build"]
  /\ machine = [job \in Jobs |-> Fresh]
  /\ artifacts = [job \in Jobs |-> NoFiles]
  /\ comparison = NoFiles
  /\ report = << >>
  /\ rate \in Readings
  /\ full \in FullDisks

-----------------------------------------------------------------------------
(* Result files                                                            *)

RowCount(run) == Len(Cases[run[2]]) * Samples

Row(file, i) ==
  LET case == Cases[file.run[2]][((i - 1) \div Samples) + 1]
      sample == ((i - 1) % Samples) + 1
  IN  [architecture |-> file.architecture, backend |-> file.run[1], version |-> file.version,
       table |-> case.table, key |-> case.key, sample |-> sample,
       rate |-> rate[<<file.architecture, file.run[1], case.table, case.key>>][sample]]

Lines(file) ==
  [i \in 1 .. file.kept |-> Row(file, i)] \o (IF file.cut THEN <<Cut>> ELSE << >>)

(* The files of a directory as load_rows reads them: by name.              *)
Contents(files) ==
  [i \in {n \in 1 .. Len(Paths) : Paths[n] \in DOMAIN files} |-> Lines(files[Paths[i]])]

(* The disk of a job is full once one of its files lacks something.        *)
DiskFull(job) ==
  \E path \in DOMAIN machine[job].results :
    LET file == machine[job].results[path] IN file.kept < RowCount(file.run)

-----------------------------------------------------------------------------
(* The jobs of the matrix                                                  *)

Goto(job, step) == pc' = [pc EXCEPT ![job] = step]

(* Checkout, download, configure, compile and test.  Only of OpenSSL       *)
(* another installation than the pinned one may be found.                  *)
Build(job) ==
  /\ pc[job] = "build" /\ Goto(job, "run")
  /\ \E v \in IF job[1] = "openssl" THEN {"pinned", "other"} ELSE {"pinned"} :
       machine' = [machine EXCEPT ![job].version = v]
  /\ UNCHANGED <<artifacts, comparison, report>>

(* The files of a directory when one is written, anew or over an older.    *)
Redirected(files, path, file) ==
  [p \in DOMAIN files \cup {path} |-> IF p = path THEN file ELSE files[p]]

(* One run of a program that exits with 0; any other status ends the step, *)
(* which bash runs with -e.                                                *)
Run(job) ==
  /\ pc[job] = "run"
  /\ LET run == Runs(job)[machine[job].turn]
     IN  \E kept \in 0 .. RowCount(run), cut \in BOOLEAN :
           /\ job \notin full => kept = RowCount(run)
           /\ DiskFull(job) => kept = 0 /\ ~cut
           /\ kept = RowCount(run) => ~cut
           /\ machine' = [machine EXCEPT
                ![job].turn = @ + 1,
                ![job].results = Redirected(@, FileName(job, run),
                  [run |-> run, architecture |-> job[2], version |-> machine[job].version,
                   kept |-> kept, cut |-> cut])]
  /\ IF machine[job].turn < Len(Runs(job)) THEN UNCHANGED pc ELSE Goto(job, "validate")
  /\ UNCHANGED <<artifacts, comparison, report>>

(* Mutants: the rows are not counted; the version is not looked at.        *)
LinesParse(job) ==
  \A i \in 1 .. Len(Runs(job)) : ~machine[job].results[FileName(job, Runs(job)[i])].cut

AnyVersion(job) ==
  \A i \in 1 .. Len(Runs(job)) :
    LET lines == Lines(machine[job].results[FileName(job, Runs(job)[i])])
    IN  Len(lines) = RowCount(Runs(job)[i]) /\ Cut \notin ToSet(lines)

(* The assertions of the validation step.                                  *)
Valid(job) ==
  \A i \in 1 .. Len(Runs(job)) :
    LET run == Runs(job)[i]
        lines == Lines(machine[job].results[FileName(job, run)])
    IN  /\ Len(lines) = RowCount(run) /\ Cut \notin ToSet(lines)
        /\ \A row \in ToSet(lines) :
             /\ row.backend = run[1] /\ row.architecture = job[2]
             /\ job[1] = "openssl" => row.version = "pinned"

Validate(job) ==
  /\ pc[job] = "validate" /\ Valid(job) /\ Goto(job, "publish")
  /\ UNCHANGED <<machine, artifacts, comparison, report>>

PublishSummary(job) ==
  /\ pc[job] = "publish" /\ Loads(Contents(machine[job].results)) /\ Goto(job, "upload")
  /\ UNCHANGED <<machine, artifacts, comparison, report>>

Upload(job) ==
  /\ pc[job] = "upload" /\ machine[job].results # NoFiles /\ Goto(job, "success")
  /\ artifacts' = [artifacts EXCEPT ![job] = machine[job].results]
  /\ machine' = [machine EXCEPT ![job] = Fresh]
  /\ UNCHANGED <<comparison, report>>

-----------------------------------------------------------------------------
(* The last job                                                            *)

Ended == {"success", "failure", "cancelled", "skipped"}

(* needs: [openssl, libressl].                                             *)
NeedsMet == \A job \in Jobs : pc[job] = "success"

Start ==
  /\ pc[LastJob] = "waiting" /\ NeedsMet /\ Goto(LastJob, "download")
  /\ UNCHANGED <<machine, artifacts, comparison, report>>

Skip ==
  /\ pc[LastJob] = "waiting" /\ ~NeedsMet /\ \A job \in Jobs : pc[job] \in Ended
  /\ Goto(LastJob, "skipped")
  /\ UNCHANGED <<machine, artifacts, comparison, report>>

(* All artifacts are extracted into one directory, in any order: of two    *)
(* files with one name the later remains.                                  *)
Download ==
  /\ pc[LastJob] = "download" /\ Goto(LastJob, "publish")
  /\ comparison' \in
       {[path \in UNION {DOMAIN artifacts[job] : job \in Jobs} |->
           LET holders == {job \in Jobs : path \in DOMAIN artifacts[job]}
           IN  artifacts[IF last \in holders THEN last
                         ELSE CHOOSE job \in holders : TRUE][path]] : last \in Jobs}
  /\ UNCHANGED <<machine, artifacts, report>>

Compare ==
  /\ pc[LastJob] = "publish" /\ Loads(Contents(comparison)) /\ Goto(LastJob, "success")
  /\ report' = render(load_rows(Contents(comparison)))
  /\ UNCHANGED <<machine, artifacts, comparison>>

-----------------------------------------------------------------------------
(* Mutant: the last job has no limit of its own.                           *)
ActiveUnlessLast(job) == pc[job] \notin Ended \cup {"waiting"} /\ job # LastJob

Active(job) == pc[job] \notin Ended \cup {"waiting"}

(* Any step may fail (a program that exits with another status than 0, an  *)
(* assertion, a summary without rows), and a step that hangs does when     *)
(* timeout-minutes are over: the job ends, and its machine is given up.    *)
StepFails(job) ==
  /\ Active(job) /\ Goto(job, "failure")
  /\ machine' = [j \in Jobs |-> IF j = job THEN Fresh ELSE machine[j]]
  /\ UNCHANGED <<artifacts, comparison, report>>

(* A newer push to the branch cancels what is not over yet.                *)
Cancel ==
  /\ \E job \in AllJobs : pc[job] \notin Ended
  /\ pc' = [job \in AllJobs |-> IF pc[job] \in Ended THEN pc[job] ELSE "cancelled"]
  /\ machine' = [job \in Jobs |-> Fresh]
  /\ UNCHANGED <<artifacts, comparison, report>>

Over == (\A job \in AllJobs : pc[job] \in Ended) /\ UNCHANGED vars

Step ==
  \/ \E job \in Jobs : \/ Build(job) \/ Run(job) \/ Validate(job)
                       \/ PublishSummary(job) \/ Upload(job)
  \/ Start \/ Skip \/ Download \/ Compare
  \/ \E job \in AllJobs : StepFails(job)
  \/ Cancel

Next == (Step /\ UNCHANGED environment) \/ Over

Spec == Init /\ [][Next]_vars

(* No step need succeed, but none lasts longer than its job may; and the   *)
(* last job is started or skipped once the others are over.                *)
Overdue == Start \/ Skip \/ \E job \in AllJobs : StepFails(job)

FairSpec == Spec /\ WF_vars(Overdue /\ UNCHANGED environment)

-----------------------------------------------------------------------------
(* Properties                                                              *)

(* What readers see of the comparison: the medians of module Publication.  *)
Medians ==
  LET Shown(a, b, t, key) ==
        /\ a \in DOMAIN report /\ t \in DOMAIN report[a].tables
        /\ key \in DOMAIN report[a].tables[t]
        /\ b \in DOMAIN report[a].tables[t][key].cells
      cells == {e \in Experiments : Shown(e[1], e[2], e[3], e[4])}
  IN  [e \in cells |-> report[e[1]].tables[e[3]][e[4]].cells[e[2]]]

Outcome ==
  CASE pc[LastJob] = "success" -> "published"
    [] pc[LastJob] \in Ended \ {"success"} -> "abandoned"
    [] OTHER -> "open"

Published == INSTANCE Publication WITH
  outcome <- Outcome, measured <- rate, medians <- Medians

(* A file for each run of the job, with all of its rows.                   *)
Complete(job, files) ==
  \A i \in 1 .. Len(Runs(job)) :
    LET run == Runs(job)[i]
        path == FileName(job, run)
    IN  /\ path \in DOMAIN files
        /\ files[path].run = run /\ files[path].kept = RowCount(run) /\ ~files[path].cut

(* Whatever fails, and although the programs do not notice a full disk, no *)
(* file with a row missing or cut is shown in the summary of its job, or   *)
(* uploaded.                                                               *)
NothingPartial ==
  \A job \in Jobs :
    /\ pc[job] \in {"publish", "upload"} => Complete(job, machine[job].results)
    /\ pc[job] = "success" => Complete(job, artifacts[job])

(* A cell of the comparison is made of the samples of one run on one       *)
(* machine: rows are grouped without all that distinguishes runs (their    *)
(* version, their options), so nothing may reach the comparison twice.     *)
(* The version shown for a backend, which is that of one row, is therefore *)
(* that of all of them, and for OpenSSL the pinned one.                    *)
OneRunPerCell ==
  report # << >> =>
    LET rows == load_rows(Contents(comparison))
    IN  \A i, j \in DOMAIN rows :
          LET r == rows[i]
              s == rows[j]
          IN  /\ i # j /\ <<r.architecture, r.backend, r.table, r.key>> =
                          <<s.architecture, s.backend, s.table, s.key>>
                   => r.sample # s.sample
              /\ report[r.architecture].versions[r.backend] = r.version
              /\ r.backend = "openssl" => r.version = "pinned"

(* Ratios compare backends within one architecture, and none divides by a  *)
(* baseline of zero.                                                       *)
RatiosWithinArchitecture ==
  \A a \in DOMAIN report : \A t \in DOMAIN report[a].tables :
    \A key \in DOMAIN report[a].tables[t] :
      LET row == report[a].tables[t][key]
          Of(b) == rate[<<a, b, t, key>>]
          zero == \A s \in 1 .. Samples : Of("libressl")[s] = 0
      IN  \A b \in DOMAIN row.ratios :
            \/ row.ratios[b] = NoRatio
            \/ /\ ~zero /\ row.ratios[b].to # 0
               /\ Published!IsMedian2(row.ratios[b].of, Of(b))
               /\ Published!IsMedian2(row.ratios[b].to, Of("libressl"))

(* Every workflow run comes to an end, even if any step of any job hangs.  *)
WorkflowEnds == <>(\A job \in AllJobs : pc[job] \in Ended)

(* The comparison appears whole and right, or not at all.                  *)
PublishedWhole == Published!Spec
==============================================================================
