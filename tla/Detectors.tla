------------------------------- MODULE Detectors -------------------------------
(***************************************************************************)
(* How an agent finds the processes of an application: the command jps     *)
(* (detector/utils.go), the two detectors that filter what it prints       *)
(* (detector/detector_hadoop.go, detector/detector_spark.go) and           *)
(* detectProcs, which asks one detector per framework of the application   *)
(* (agent/agent.go).                                                       *)
(*                                                                         *)
(* A line that jps prints is a record: the id of the process, whether the  *)
(* line can be split at a blank and begins with a number, the last         *)
(* component of the class, and which framework prefixes and which job ids  *)
(* occur anywhere after the first blank.                                   *)
(***************************************************************************)
EXTENDS Naturals, Sequences

CONSTANTS
  Pid,        \* process ids
  ClassName,  \* last components of class names
  JobId,      \* the jobs of the frameworks
  NoJob       \* the empty string: the job id that Submit gives

ASSUME DetectorsAssumption == NoJob \notin JobId

Hadoop == "hadoop"
Spark == "spark"

hadoopProcMap == {"ResourceManager", "DataNode", "NameNode", "SecondaryNameNode",
                  "NodeManager", "JobHistoryServer"}
hadoopAppProcMap == {"MRAppMaster", "YarnChild"}
sparkProcMap == {"Master", "Worker", "HisServer"}
sparkAppProcMap == {"CoarseGrainedExecutorBackend"}

Line == [pid : Pid, split : BOOLEAN, number : BOOLEAN, sn : ClassName,
         names : SUBSET {Hadoop, Spark}, jobs : SUBSET JobId]

(* What one run of jps yields: an exit status and its lines *)
Listing == [ok : BOOLEAN, lines : Seq(Line)]

(* The elements of s that are in S, in their order, as a loop appends them. *)
(* (SelectSeq takes an operator, of which nothing could be proved.)         *)
Kept(s, S) ==
  LET upTo[i \in 0 .. Len(s)] ==
        IF i = 0 THEN <<>>
        ELSE IF s[i] \in S THEN Append(upTo[i - 1], s[i])
        ELSE upTo[i - 1]
  IN  upTo[Len(s)]

(* A line without a blank is passed over; one that begins with no number    *)
(* spoils the others.  An error yields no processes.                        *)
cmd_jps(out) ==
  IF \/ ~out.ok
     \/ \E i \in DOMAIN out.lines : out.lines[i].split /\ ~out.lines[i].number
    THEN <<>>
    ELSE Kept(out.lines, {line \in Line : line.split})

(* Mutated Contains: no line contains the empty string *)
ContainsJob(line, jobId) == jobId \in line.jobs

(* strings.Contains: every line contains the empty string *)
Contains(line, jobId) == jobId = NoJob \/ jobId \in line.jobs

(* The processes jps prints that name the framework: its daemons, those of  *)
(* the job, and every class that the maps do not know                       *)
Filter(out, prefix, appProcs, jobId) ==
  LET valid == {line \in Line : /\ prefix \in line.names
                                /\ line.sn \notin appProcs \/ Contains(line, jobId)}
      kept == Kept(cmd_jps(out), valid)
  IN  [i \in 1 .. Len(kept) |-> kept[i].pid]

HadoopDetect(out, jobId) == Filter(out, Hadoop, hadoopAppProcMap \ hadoopProcMap, jobId)
SparkDetect(out, jobId) == Filter(out, Spark, sparkAppProcMap \ sparkProcMap, jobId)

(* ag.detectors *)
Detect(fw, out, jobId) ==
  CASE fw = Hadoop -> HadoopDetect(out, jobId)
    [] fw = Spark -> SparkDetect(out, jobId)

(* entry holds the entry process of an application this agent has launched, *)
(* and is empty on every other agent.  Each framework has its own run of    *)
(* jps, outs[i]; one that fails is passed over.                             *)
detectProcs(entry, frameworks, jobIds, outs) ==
  LET upTo[i \in 0 .. Len(frameworks)] ==
        IF i = 0 THEN entry
        ELSE upTo[i - 1] \o Detect(frameworks[i], outs[i], jobIds[i])
  IN  upTo[Len(frameworks)]

=============================================================================
