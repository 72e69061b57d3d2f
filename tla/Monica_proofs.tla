------------------------------ MODULE Monica_proofs ------------------------------
(***************************************************************************)
(* Proofs about the client and the process query, for every set of agents  *)
(* and hosts, every placement of one on the other, every output of jps,    *)
(* and clocks that differ by any amount within the margin.                 *)
(***************************************************************************)
EXTENDS Monica, WellFoundedInduction, TLAPS

USE QueryAssumption

-----------------------------------------------------------------------------
(* The process query.                                                       *)

(* What has been received is what is in the reply; the channel is closed    *)
(* when nothing can be sent any more; a goroutine gives up only after the   *)
(* client has; and the client hears a reply only when there is one.         *)
GatherInv ==
  /\ \A g \in Sent : hostOf[g] \in DOMAIN reply
  /\ \A h \in DOMAIN reply : \E g \in Sent : hostOf[g] = h /\ reply[h] = list[g]
  /\ pc \in {"closed", "replied"} =>
       \A g \in Agent : worker[g] \notin {"calling", "answered"}
  /\ \A g \in Agent : worker[g] = "expired" => heard = "deadline"
  /\ heard = "reply" => pc = "replied"
  /\ pc = "idle" => \A g \in Agent : worker[g] = "none"
  /\ pc = "idle" => reply = <<>>

QueryInv == QueryTypeOK /\ GatherInv

LEMMA QueryInvInit == QueryInit => QueryInv
<1> SUFFICES ASSUME QueryInit PROVE QueryInv
  OBVIOUS
<1>1. Nothing \in Sight /\ Procs(Nothing) = <<>>
  BY DEF Sight, Procs
<1>2. Sent = {} /\ DOMAIN reply = {}
  BY DEF QueryInit, Sent
<1>3. QueryTypeOK
  BY <1>1, <1>2 DEF QueryInit, QueryTypeOK
<1>4. GatherInv
  BY <1>2 DEF QueryInit, GatherInv
<1> QED
  BY <1>3, <1>4 DEF QueryInv

LEMMA QueryInvStep == QueryInv /\ [QueryNext]_queryVars => QueryInv'
<1> SUFFICES ASSUME QueryInv, [QueryNext]_queryVars PROVE QueryInv'
  OBVIOUS
<1>0. QueryTypeOK /\ GatherInv
  BY DEF QueryInv
<1>1. CASE Unknown
  BY <1>0, <1>1 DEF Unknown, Sent, QueryInv, QueryTypeOK, GatherInv
<1>2. ASSUME NEW agents \in SUBSET Agent, FanOut(agents) PROVE QueryInv'
  BY <1>0, <1>2 DEF FanOut, Sent, QueryInv, QueryTypeOK, GatherInv
<1>3. ASSUME NEW g \in Agent, Answer(g) PROVE QueryInv'
  <2>1. QueryTypeOK'
    BY <1>0, <1>3 DEF Answer, QueryTypeOK
  <2>2. GatherInv'
    BY <1>0, <1>3 DEF Answer, QueryTypeOK, GatherInv, Sent
  <2> QED
    BY <2>1, <2>2 DEF QueryInv
<1>4. ASSUME NEW g \in Agent, CallFails(g) \/ CallExpires(g) PROVE QueryInv'
  <2>1. QueryTypeOK'
    BY <1>0, <1>4 DEF CallFails, CallExpires, QueryTypeOK
  <2>2. Sent' = Sent
    BY <1>0, <1>4 DEF CallFails, CallExpires, QueryTypeOK, Sent
  <2>3. GatherInv'
    BY <1>0, <1>4, <2>2 DEF CallFails, CallExpires, QueryTypeOK, GatherInv
  <2> QED
    BY <2>1, <2>3 DEF QueryInv
<1>5. ASSUME NEW g \in Agent, Receive(g) PROVE QueryInv'
  <2>1. QueryTypeOK'
    BY <1>0, <1>5 DEF Receive, QueryTypeOK
  <2>2. Sent' = Sent \cup {g}
    BY <1>0, <1>5 DEF Receive, QueryTypeOK, Sent
  <2>3. /\ pc = "gathering" /\ worker[g] = "answered" /\ worker' = [worker EXCEPT ![g] = "sent"]
        /\ UNCHANGED <<hostOf, pc, list, seen, heard>>
        /\ worker \in [Agent -> {"none", "calling", "answered", "sent", "failed", "expired"}]
    BY <1>0, <1>5 DEF Receive, QueryTypeOK
  <2>4. /\ DOMAIN reply' = DOMAIN reply \cup {hostOf[g]}
        /\ reply'[hostOf[g]] = list[g]
        /\ \A h \in DOMAIN reply : h # hostOf[g] => reply'[h] = reply[h]
    BY <1>5 DEF Receive
  <2>5. \A a \in Sent' : hostOf'[a] \in DOMAIN reply'
    BY <1>0, <2>2, <2>3, <2>4 DEF GatherInv
  <2>6. ASSUME NEW h \in DOMAIN reply'
        PROVE  \E a \in Sent' : hostOf'[a] = h /\ reply'[h] = list'[a]
    <3>1. CASE h = hostOf[g]
      BY <2>2, <2>3, <2>4, <3>1
    <3>2. CASE h # hostOf[g]
      <4>1. PICK a \in Sent : hostOf[a] = h /\ reply[h] = list[a]
        BY <1>0, <2>4, <2>6, <3>2 DEF GatherInv
      <4> QED
        BY <2>2, <2>3, <2>4, <2>6, <3>2, <4>1
    <3> QED
      BY <3>1, <3>2
  <2>7. GatherInv'
    <3>1. \A a \in Agent : worker'[a] = "expired" => heard' = "deadline"
      BY <1>0, <2>3 DEF GatherInv
    <3> QED
      BY <1>0, <2>3, <2>5, <2>6, <3>1 DEF GatherInv
  <2> QED
    BY <2>1, <2>7 DEF QueryInv
<1>6. CASE Close \/ Return
  <2>1. QueryTypeOK' /\ Sent' = Sent
    BY <1>0, <1>6 DEF Close, Return, QueryTypeOK, Sent
  <2>2. GatherInv'
    BY <1>0, <1>6, <2>1 DEF Close, Return, QueryTypeOK, GatherInv
  <2> QED
    BY <2>1, <2>2 DEF QueryInv
<1>7. CASE ClientStep
  <2> USE DEF ClientStep, Unreachable, Hear, Deadline
  <2>1. QueryTypeOK' /\ Sent' = Sent
    BY <1>0, <1>7 DEF QueryTypeOK, Sent
  <2>2. GatherInv'
    BY <1>0, <1>7, <2>1 DEF QueryTypeOK, GatherInv
  <2> QED
    BY <2>1, <2>2 DEF QueryInv
<1>8. CASE UNCHANGED queryVars
  BY <1>0, <1>8 DEF queryVars, Sent, QueryInv, QueryTypeOK, GatherInv
<1> QED
  BY <1>1, <1>2, <1>3, <1>4, <1>5, <1>6, <1>7, <1>8 DEF QueryNext, HandlerStep

LEMMA QueryStep == [Next]_vars => [QueryNext]_queryVars
  BY DEF Next, vars, GetProcesses, AgentsStep, Tick, Start, NoteEnd, Proceed, Measured,
         ReportStep, AppInfo, AppPerf, AppSysPerfRefused, AppSysPerf, Scroll, NextPage,
         LastPage, ProcessesPrinted, StoreFails

THEOREM QueryInvariance == Spec => []QueryInv
<1>1. Init => QueryInv
  BY QueryInvInit DEF Init
<1>2. QueryInv /\ [Next]_vars => QueryInv'
  BY QueryInvStep, QueryStep
<1> QED
  BY <1>1, <1>2, PTL DEF Spec

(* GetProcesses of the manager neither loses nor mixes up lists *)
THEOREM RepliesFaithful == Spec => []ReplyFaithful
<1>1. QueryInv => ReplyFaithful
  <2> SUFFICES ASSUME QueryInv, pc = "replied" PROVE ReplyFaithful
    BY DEF ReplyFaithful
  <2>1. GatherInv
    BY DEF QueryInv
  <2>2. {a \in Agent : worker[a] \in {"answered", "sent"}} = Sent
    BY <2>1 DEF GatherInv, Sent
  <2>3. DOMAIN reply = {hostOf[g] : g \in Sent}
    <3>1. \A h \in DOMAIN reply : h \in {hostOf[g] : g \in Sent}
      BY <2>1 DEF GatherInv
    <3>2. \A h \in {hostOf[g] : g \in Sent} : h \in DOMAIN reply
      BY <2>1 DEF GatherInv
    <3> QED
      BY <3>1, <3>2, Zenon
  <2> QED
    BY <2>1, <2>2, <2>3 DEF GatherInv, ReplyFaithful
<1> QED
  BY <1>1, QueryInvariance, PTL

(* A reply the client hears is never cut short by the deadline *)
THEOREM RepliesWhole == Spec => []NoCutReply
<1>1. QueryInv => NoCutReply
  BY DEF QueryInv, QueryTypeOK, GatherInv, NoCutReply
<1> QED
  BY <1>1, QueryInvariance, PTL

-----------------------------------------------------------------------------
(* What an agent detects.  The detectors are loops that append to a list;   *)
(* what is true of them for lists of every length is shown by induction,    *)
(* in the form of the least index at which something fails.                 *)

LEMMA LeastIndex ==
  ASSUME NEW T, T \subseteq Nat, T # {}
  PROVE  \E n \in T : \A m \in T : n <= m
<1> DEFINE R == {ss \in Nat \X Nat : ss[1] < ss[2]}
<1>1. IsWellFoundedOn(R, Nat)
  BY NatLessThanWellFounded DEF OpToRel
<1>2. \A m, n \in Nat : m < n => <<m, n>> \in R
  OBVIOUS
<1> HIDE DEF R
<1>3. PICK n \in T : \A m \in T : ~(<<m, n>> \in R)
  BY <1>1, WFMin
<1>4. ASSUME NEW m \in T PROVE n <= m
  <2>1. m \in Nat /\ n \in Nat /\ ~(m < n)
    BY <1>2, <1>3
  <2> QED
    BY <2>1
<1> QED
  BY <1>4

(* What holds at 0 and passes from each index to the next holds at all *)
LEMMA UpTo ==
  ASSUME NEW n \in Nat, NEW P, 0 \in P, \A i \in 1 .. n : i - 1 \in P => i \in P
  PROVE  0 .. n \subseteq P
<1> DEFINE T == (0 .. n) \ P
<1> SUFFICES ASSUME T # {} PROVE FALSE
  OBVIOUS
<1>1. T \subseteq Nat
  OBVIOUS
<1>2. PICK m \in T : \A k \in T : m <= k
  <2> HIDE DEF T
  <2> QED
    BY <1>1, LeastIndex
<1>3. m \in 1 .. n /\ m - 1 \in 0 .. n
  BY <1>2
<1>4. m - 1 \in P
  BY <1>2, <1>3
<1> QED
  BY <1>2, <1>3, <1>4

(* A loop that begins with b and takes each value of B to the next one *)
Bodies(n, B) == [1 .. n -> [B -> B]]
LoopRun(n, b, body, f) == f[0] = b /\ \A i \in 1 .. n : f[i] = body[i][f[i - 1]]

LEMMA LoopRuns ==
  ASSUME NEW n \in Nat, NEW B, NEW b \in B, NEW body \in Bodies(n, B)
  PROVE  \E f \in [0 .. n -> B] : LoopRun(n, b, body, f)
<1> USE DEF Bodies
<1> DEFINE Run(m, f) == f[0] = b /\ \A i \in 1 .. m : f[i] = body[i][f[i - 1]]
           P == {m \in 0 .. n : \E f \in [0 .. m -> B] : Run(m, f)}
<1>1. 0 \in P
  <2>1. [i \in 0 .. 0 |-> b] \in [0 .. 0 -> B] /\ Run(0, [i \in 0 .. 0 |-> b])
    OBVIOUS
  <2>2. 0 \in 0 .. n
    OBVIOUS
  <2> HIDE DEF Run
  <2> QED
    BY <2>1, <2>2
<1>2. ASSUME NEW m \in 1 .. n, m - 1 \in P PROVE m \in P
  <2>1. PICK f \in [0 .. m - 1 -> B] : Run(m - 1, f)
    BY <1>2
  <2> DEFINE g == [i \in 0 .. m |-> IF i = m THEN body[m][f[m - 1]] ELSE f[i]]
  <2>2. body[m][f[m - 1]] \in B
    OBVIOUS
  <2>3. g \in [0 .. m -> B]
    BY <2>2
  <2>4. g[0] = b
    BY <2>1
  <2>5. ASSUME NEW i \in 1 .. m PROVE g[i] = body[i][g[i - 1]]
    <3>1. CASE i = m
      BY <3>1
    <3>2. CASE i # m
      <4>1. i \in 1 .. m - 1 /\ i - 1 \in 0 .. m - 1 /\ i - 1 # m
        BY <3>2
      <4> QED
        BY <2>1, <4>1
    <3> QED
      BY <3>1, <3>2
  <2>6. m \in 0 .. n
    OBVIOUS
  <2> QED
    BY <2>3, <2>4, <2>5, <2>6
<1>3. n \in P
  <2> HIDE DEF P
  <2>1. 0 .. n \subseteq P
    BY <1>1, <1>2, UpTo
  <2> QED
    BY <2>1
<1> QED
  BY <1>3 DEF LoopRun

Elements(s) == {s[i] : i \in DOMAIN s}

LEMMA AppendElements ==
  ASSUME NEW A, NEW s \in Seq(A), NEW x \in A
  PROVE  Append(s, x) \in Seq(A) /\ Elements(Append(s, x)) = Elements(s) \cup {x}
<1>1. /\ Append(s, x) \in Seq(A) /\ DOMAIN Append(s, x) = DOMAIN s \cup {Len(s) + 1}
      /\ Len(s) + 1 \notin DOMAIN s
      /\ Append(s, x)[Len(s) + 1] = x /\ \A i \in DOMAIN s : Append(s, x)[i] = s[i]
  OBVIOUS
<1> DEFINE t == Append(s, x)
<1> HIDE DEF t
<1> QED
  BY <1>1 DEF Elements

(* Kept keeps exactly the elements that are in T *)
LEMMA KeptElements ==
  ASSUME NEW A, NEW s \in Seq(A), NEW T
  PROVE  Kept(s, T) \in Seq(A) /\ Elements(Kept(s, T)) = Elements(s) \cap T
<1> DEFINE n == Len(s)
           add == [i \in 1 .. n |-> [x \in Seq(A) |->
                     IF s[i] \in T THEN Append(x, s[i]) ELSE x]]
           Is(f) == f = [i \in 0 .. n |->
                      IF i = 0 THEN <<>>
                      ELSE IF s[i] \in T THEN Append(f[i - 1], s[i]) ELSE f[i - 1]]
           F == CHOOSE f : Is(f)
<1>0. <<>> \in Seq(A)
  OBVIOUS
<1>1. n \in Nat /\ \A i \in 1 .. n : s[i] \in A
  OBVIOUS
<1>2. \A i \in 1 .. n : add[i] \in [Seq(A) -> Seq(A)]
  BY <1>1
<1>3. add \in [1 .. n -> [Seq(A) -> Seq(A)]]
  BY <1>2
<1>4. PICK f \in [0 .. n -> Seq(A)] :
        f[0] = <<>> /\ \A i \in 1 .. n : f[i] = add[i][f[i - 1]]
  <2>1. add \in Bodies(n, Seq(A))
    BY <1>3 DEF Bodies
  <2> HIDE DEF add, n
  <2>2. \E f \in [0 .. n -> Seq(A)] : LoopRun(n, <<>>, add, f)
    BY <1>0, <1>1, <2>1, LoopRuns
  <2> QED
    BY <2>2 DEF LoopRun
<1>5. ASSUME NEW i \in 1 .. n
      PROVE  f[i] = IF s[i] \in T THEN Append(f[i - 1], s[i]) ELSE f[i - 1]
  <2>1. f[i - 1] \in Seq(A)
    <3>1. i - 1 \in 0 .. n
      BY <1>1
    <3> HIDE DEF n
    <3> QED
      BY <1>4, <3>1
  <2> QED
    BY <1>4, <2>1
<1>6. Is(f)
  <2>1. \A i \in 0 .. n : f[i] = IF i = 0 THEN <<>>
                               ELSE IF s[i] \in T THEN Append(f[i - 1], s[i]) ELSE f[i - 1]
    <3>1. \A i \in 0 .. n : i = 0 \/ i \in 1 .. n
      BY <1>1
    <3> HIDE DEF n
    <3> QED
      BY <1>4, <1>5, <3>1
  <2> QED
    BY <1>4, <2>1
<1>7. Is(F)
  <2> HIDE DEF Is
  <2> QED
    BY <1>6
<1> HIDE DEF F
<1>8. F[0] = <<>>
  BY <1>1, <1>7
<1>9. ASSUME NEW i \in 1 .. n
      PROVE  F[i] = IF s[i] \in T THEN Append(F[i - 1], s[i]) ELSE F[i - 1]
  <2>1. i \in 0 .. n /\ i # 0
    OBVIOUS
  <2> QED
    BY <1>7, <2>1
<1>10. Kept(s, T) = F[n]
  BY DEF Kept, F
<1> HIDE DEF Is, add
<1> DEFINE Upto(i) == {s[j] : j \in 1 .. i}
           P == {i \in 0 .. n : F[i] \in Seq(A) /\ Elements(F[i]) = Upto(i) \cap T}
<1>11. 0 \in P
  <2>1. F[0] \in Seq(A) /\ Elements(F[0]) = {}
    BY <1>8 DEF Elements
  <2>2. Upto(0) = {} /\ 0 \in 0 .. n
    BY <1>1
  <2> QED
    BY <2>1, <2>2
<1>12. ASSUME NEW i \in 1 .. n, i - 1 \in P PROVE i \in P
  <2>1. F[i - 1] \in Seq(A) /\ Elements(F[i - 1]) = Upto(i - 1) \cap T
    BY <1>12
  <2>2. Upto(i) = Upto(i - 1) \cup {s[i]}
    <3>1. 1 .. i = (1 .. i - 1) \cup {i}
      OBVIOUS
    <3> QED
      BY <3>1, Zenon
  <2>3. CASE s[i] \in T
    <3>1. F[i] = Append(F[i - 1], s[i])
      BY <1>9, <2>3
    <3>2. F[i] \in Seq(A) /\ Elements(F[i]) = Elements(F[i - 1]) \cup {s[i]}
      BY <1>1, <2>1, <3>1, AppendElements
    <3> QED
      BY <2>1, <2>2, <2>3, <3>2
  <2>4. CASE s[i] \notin T
    <3>1. F[i] = F[i - 1]
      BY <1>9, <2>4
    <3> HIDE DEF Upto
    <3>2. Upto(i) \cap T = Upto(i - 1) \cap T
      BY <2>2, <2>4
    <3> QED
      BY <2>1, <3>1, <3>2
  <2> QED
    BY <2>3, <2>4
<1>13. n \in P
  <2> HIDE DEF P, n
  <2>1. 0 .. n \subseteq P
    BY <1>1, <1>11, <1>12, UpTo
  <2> QED
    BY <1>1, <2>1
<1>14. Upto(n) = Elements(s)
  BY DEF Elements
<1> QED
  BY <1>10, <1>13, <1>14

LEMMA ConcatElements ==
  ASSUME NEW A, NEW s \in Seq(A), NEW t \in Seq(A)
  PROVE  s \o t \in Seq(A) /\ Elements(s \o t) = Elements(s) \cup Elements(t)
<1> DEFINE u == s \o t
           m == Len(s)
           n == Len(t)
<1>1. /\ u \in Seq(A) /\ m \in Nat /\ n \in Nat
      /\ DOMAIN u = 1 .. m + n /\ DOMAIN s = 1 .. m /\ DOMAIN t = 1 .. n
      /\ \A i \in 1 .. m : u[i] = s[i]
      /\ \A i \in 1 .. n : u[m + i] = t[i]
  OBVIOUS
<1> HIDE DEF u, m, n
<1>2. ASSUME NEW i \in DOMAIN u PROVE u[i] \in Elements(s) \cup Elements(t)
  <2>1. CASE i \in 1 .. m
    BY <1>1, <2>1 DEF Elements
  <2>2. CASE i \notin 1 .. m
    <3>1. i - m \in 1 .. n /\ i = m + (i - m)
      BY <1>1, <2>2
    <3>2. u[i] = t[i - m]
      BY <1>1, <3>1
    <3> QED
      BY <1>1, <3>1, <3>2 DEF Elements
  <2> QED
    BY <2>1, <2>2
<1>3. \A i \in DOMAIN s : s[i] \in Elements(u)
  BY <1>1 DEF Elements
<1>4. \A i \in DOMAIN t : t[i] \in Elements(u)
  <2>1. \A i \in 1 .. n : m + i \in 1 .. m + n
    BY <1>1
  <2> QED
    BY <1>1, <2>1 DEF Elements
<1>5. Elements(u) = Elements(s) \cup Elements(t)
  BY <1>2, <1>3, <1>4 DEF Elements
<1> QED
  BY <1>1, <1>5 DEF u

(* The lines that cmd_jps returns *)
Lines(out) ==
  {line \in Elements(out.lines) : Readable(out) /\ line.split}

LEMMA LinesRead ==
  ASSUME NEW out \in Listing
  PROVE  cmd_jps(out) \in Seq(Line) /\ Elements(cmd_jps(out)) = Lines(out)
<1>1. out.lines \in Seq(Line) /\ out.ok \in BOOLEAN
  BY DEF Listing
<1> DEFINE bad == \/ ~out.ok
                  \/ \E i \in DOMAIN out.lines :
                       out.lines[i].split /\ ~out.lines[i].number
<1>2. CASE bad
  <2>1. cmd_jps(out) = <<>> /\ Lines(out) = {}
    BY <1>2 DEF cmd_jps, Readable, Lines
  <2> QED
    BY <2>1 DEF Elements
<1>3. CASE ~bad
  <2> DEFINE T == {line \in Line : line.split}
  <2>1. cmd_jps(out) = Kept(out.lines, T)
    BY <1>3 DEF cmd_jps
  <2>2. /\ Kept(out.lines, T) \in Seq(Line)
        /\ Elements(Kept(out.lines, T)) = Elements(out.lines) \cap T
    BY <1>1, KeptElements
  <2>3. Elements(out.lines) \subseteq Line
    BY <1>1 DEF Elements
  <2>4. Elements(out.lines) \cap T = {line \in Elements(out.lines) : line.split}
    BY <2>3
  <2>5. Lines(out) = {line \in Elements(out.lines) : line.split}
    BY <1>3 DEF Readable, Lines
  <2> QED
    BY <2>1, <2>2, <2>4, <2>5
<1> QED
  BY <1>2, <1>3

(* What a detector finds: the process ids of the lines it takes *)
LEMMA FilterFinds ==
  ASSUME NEW out \in Listing, NEW prefix, NEW appProcs, NEW jobId
  PROVE  /\ Filter(out, prefix, appProcs, jobId) \in Seq(Pid)
         /\ \A p : p \in Elements(Filter(out, prefix, appProcs, jobId)) <=>
              \E line \in Lines(out) :
                /\ prefix \in line.names
                /\ line.sn \notin appProcs \/ Contains(line, jobId)
                /\ p = line.pid
<1> DEFINE valid == {line \in Line : /\ prefix \in line.names
                                     /\ line.sn \notin appProcs \/ Contains(line, jobId)}
           kept == Kept(cmd_jps(out), valid)
           pids == [i \in 1 .. Len(kept) |-> kept[i].pid]
<1>1. kept \in Seq(Line) /\ Elements(kept) = Lines(out) \cap valid
  <2> HIDE DEF valid
  <2> QED
    BY LinesRead, KeptElements
<1>2. Filter(out, prefix, appProcs, jobId) = pids
  BY DEF Filter
<1>3. Len(kept) \in Nat /\ DOMAIN kept = 1 .. Len(kept)
      /\ \A i \in 1 .. Len(kept) : kept[i] \in Line
  <2> HIDE DEF kept
  <2> QED
    BY <1>1
<1>4. \A line \in Line : line.pid \in Pid
  BY DEF Line
<1>5. pids \in Seq(Pid) /\ DOMAIN pids = DOMAIN kept
  <2> HIDE DEF kept
  <2> QED
    BY <1>3, <1>4
<1>6. \A p : p \in Elements(pids) <=> \E line \in Elements(kept) : p = line.pid
  <2> HIDE DEF kept
  <2> QED
    BY <1>3, <1>5 DEF Elements
<1>7. Lines(out) \subseteq Line
  BY DEF Lines, Listing, Elements
<1> HIDE DEF kept, pids
<1> QED
  BY <1>1, <1>2, <1>5, <1>6, <1>7

(* What jps must print for a process to be taken for one of fw *)
Named(fw, out) ==
  {out.lines[i].pid : i \in {j \in DOMAIN out.lines :
     Readable(out) /\ out.lines[j].split /\ fw \in out.lines[j].names}}

(* As every line contains the empty job id, a detector finds what is Named *)
LEMMA DetectFinds ==
  ASSUME NEW fw \in {Hadoop, Spark}, NEW out \in Listing
  PROVE  /\ Detect(fw, out, NoJob) \in Seq(Pid)
         /\ Elements(Detect(fw, out, NoJob)) = Named(fw, out)
<1>1. PICK appProcs : Detect(fw, out, NoJob) = Filter(out, fw, appProcs, NoJob)
  <2>1. CASE fw = Hadoop
    BY <2>1 DEF Detect, HadoopDetect, Hadoop, Spark
  <2>2. CASE fw = Spark
    BY <2>2 DEF Detect, SparkDetect, Hadoop, Spark
  <2> QED
    BY <2>1, <2>2
<1> DEFINE found == Filter(out, fw, appProcs, NoJob)
<1>2. found \in Seq(Pid)
  BY FilterFinds
<1>3. \A p : p \in Elements(found) <=>
        \E line \in Lines(out) : fw \in line.names /\ p = line.pid
  BY FilterFinds DEF Contains
<1>4. \A p : p \in Named(fw, out) <=>
        \E line \in Lines(out) : fw \in line.names /\ p = line.pid
  BY DEF Named, Lines, Elements
<1> HIDE DEF found
<1>5. Elements(found) = Named(fw, out)
  BY <1>3, <1>4
<1> QED
  BY <1>1, <1>2, <1>5 DEF found

(* Every process of a framework, of whichever job, and the entry process *)
Expected(sight) ==
  (IF sight.entry THEN {EntryPid} ELSE {})
    \cup UNION {Named(Frameworks[i], sight.outs[i]) : i \in DOMAIN sight.outs}

(* detectProcs joins what the detectors find, one after the other *)
LEMMA AllFound ==
  ASSUME NEW sight \in [entry : BOOLEAN, outs : Outs]
  PROVE  Elements(Procs(sight)) = Expected(sight)
<1> DEFINE n == Len(Frameworks)
           start == IF sight.entry THEN <<EntryPid>> ELSE <<>>
           D == [i \in 1 .. n |-> Detect(Frameworks[i], sight.outs[i], JobIds[i])]
           add == [i \in 1 .. n |-> [x \in Seq(Pid) |-> x \o D[i]]]
           Is(f) == f = [i \in 0 .. n |->
                      IF i = 0 THEN start
                      ELSE f[i - 1] \o Detect(Frameworks[i], sight.outs[i], JobIds[i])]
           F == CHOOSE f : Is(f)
<1>1. n \in Nat /\ \A i \in 1 .. n : Frameworks[i] \in {Hadoop, Spark}
  OBVIOUS
<1>2. /\ start \in Seq(Pid)
      /\ Elements(start) = IF sight.entry THEN {EntryPid} ELSE {}
  BY DEF Elements
<1>3. /\ DOMAIN sight.outs = 1 .. n
      /\ \A i \in 1 .. n : sight.outs[i] \in Listing
  BY DEF Outs
<1>4. ASSUME NEW i \in 1 .. n
      PROVE  D[i] \in Seq(Pid) /\ Elements(D[i]) = Named(Frameworks[i], sight.outs[i])
  <2>1. JobIds[i] = NoJob
    BY DEF JobIds
  <2>2. D[i] = Detect(Frameworks[i], sight.outs[i], NoJob)
    BY <2>1
  <2> HIDE DEF D, n
  <2> QED
    BY <1>1, <1>3, <2>2, DetectFinds
<1>5. add \in Bodies(n, Seq(Pid))
  <2>1. \A i \in 1 .. n : add[i] \in [Seq(Pid) -> Seq(Pid)]
    BY <1>4, ConcatElements
  <2> QED
    BY <2>1 DEF Bodies
<1>6. PICK f \in [0 .. n -> Seq(Pid)] : LoopRun(n, start, add, f)
  <2> HIDE DEF add, n, start
  <2> QED
    BY <1>1, <1>2, <1>5, LoopRuns
<1>7. Is(f)
  <2>1. ASSUME NEW i \in 0 .. n
        PROVE  f[i] = IF i = 0 THEN start
                      ELSE f[i - 1] \o Detect(Frameworks[i], sight.outs[i], JobIds[i])
    <3>1. CASE i = 0
      BY <1>6, <3>1 DEF LoopRun
    <3>2. CASE i # 0
      <4>1. i \in 1 .. n /\ f[i - 1] \in Seq(Pid)
        BY <1>1, <3>2
      <4>2. f[i] = add[i][f[i - 1]]
        BY <1>6, <4>1 DEF LoopRun
      <4> QED
        BY <3>2, <4>1, <4>2
    <3> QED
      BY <3>1, <3>2
  <2> QED
    BY <2>1
<1>8. Is(F)
  <2> HIDE DEF Is
  <2> QED
    BY <1>7
<1>9. F[0] = start
  <2> HIDE DEF F
  <2> QED
    BY <1>1, <1>8
<1>10. Procs(sight) = F[n]
  <2>1. CASE sight = Nothing
    <3>1. sight.entry = FALSE /\ sight.outs = <<>>
      BY <2>1 DEF Nothing
    <3>2. n = 0 /\ start = <<>>
      BY <1>1, <1>3, <3>1
    <3> QED
      BY <1>9, <2>1, <3>2 DEF Procs
  <2>2. CASE sight # Nothing
    BY <2>2 DEF Procs, detectProcs
  <2> QED
    BY <2>1, <2>2
<1>11. ASSUME NEW i \in 1 .. n PROVE F[i] = F[i - 1] \o D[i]
  <2>1. i \in 0 .. n /\ i # 0
    OBVIOUS
  <2> HIDE DEF F
  <2> QED
    BY <1>8, <2>1
<1> HIDE DEF F, Is, add, D, start
<1> DEFINE NamedTo(i) == UNION {Named(Frameworks[j], sight.outs[j]) : j \in 1 .. i}
           P == {i \in 0 .. n : /\ F[i] \in Seq(Pid)
                                /\ Elements(F[i]) = Elements(start) \cup NamedTo(i)}
<1>12. 0 \in P
  <2>1. NamedTo(0) = {}
    OBVIOUS
  <2> HIDE DEF NamedTo
  <2> QED
    BY <1>1, <1>2, <1>9, <2>1
<1>13. ASSUME NEW i \in 1 .. n, i - 1 \in P PROVE i \in P
  <2>1. F[i - 1] \in Seq(Pid) /\ Elements(F[i - 1]) = Elements(start) \cup NamedTo(i - 1)
    BY <1>13
  <2>2. /\ F[i] \in Seq(Pid)
        /\ Elements(F[i]) = Elements(F[i - 1]) \cup Named(Frameworks[i], sight.outs[i])
    <3>1. /\ D[i] \in Seq(Pid) /\ Elements(D[i]) = Named(Frameworks[i], sight.outs[i])
          /\ F[i] = F[i - 1] \o D[i]
      BY <1>4, <1>11
    <3>2. /\ F[i - 1] \o D[i] \in Seq(Pid)
          /\ Elements(F[i - 1] \o D[i]) = Elements(F[i - 1]) \cup Elements(D[i])
      BY <2>1, <3>1, ConcatElements
    <3> QED
      BY <3>1, <3>2
  <2>3. NamedTo(i) = NamedTo(i - 1) \cup Named(Frameworks[i], sight.outs[i])
    <3>1. 1 .. i = (1 .. i - 1) \cup {i}
      OBVIOUS
    <3> QED
      BY <3>1, Zenon
  <2>4. i \in 0 .. n
    OBVIOUS
  <2> HIDE DEF NamedTo
  <2> QED
    BY <2>1, <2>2, <2>3, <2>4
<1>14. n \in P
  <2> HIDE DEF P, n
  <2>1. 0 .. n \subseteq P
    BY <1>1, <1>12, <1>13, UpTo
  <2> QED
    BY <1>1, <2>1
<1>15. NamedTo(n) = UNION {Named(Frameworks[i], sight.outs[i]) : i \in DOMAIN sight.outs}
  BY <1>3
<1> QED
  BY <1>2, <1>10, <1>14, <1>15 DEF Expected

(* Each agent's list is that of what it has seen *)
ListInv == \A g \in Agent : seen[g] \in Sight /\ list[g] = Procs(seen[g])

LEMMA ListStep == QueryTypeOK /\ ListInv /\ [QueryNext]_queryVars => ListInv'
<1> SUFFICES ASSUME QueryTypeOK, ListInv, [QueryNext]_queryVars PROVE ListInv'
  OBVIOUS
<1>1. ASSUME NEW g \in Agent, Answer(g) PROVE ListInv'
  BY <1>1 DEF Answer, ListInv, QueryTypeOK
<1>2. CASE UNCHANGED <<list, seen>>
  BY <1>2 DEF ListInv
<1> QED
  BY <1>1, <1>2
  DEF QueryNext, HandlerStep, ClientStep, Unknown, FanOut, CallFails, CallExpires, Receive,
      Close, Return, Unreachable, Hear, Deadline, queryVars

(* An agent's list holds the entry process and every process on its node    *)
(* that names one of the application's frameworks, and nothing else: Submit *)
(* has left every job id empty, a run of jps that fails is passed over, and *)
(* the lists of the detectors are joined.                                   *)
DetectedExactly == \A g \in Agent : Listed(g) = Expected(seen[g])

LEMMA FoundExactly == Spec => []DetectedExactly
<1>1. Init => ListInv
  BY DEF Init, QueryInit, ListInv, Sight, Procs
<1>2. QueryInv /\ ListInv /\ [Next]_vars => ListInv'
  BY ListStep, QueryStep DEF QueryInv
<1>3. ListInv => DetectedExactly
  <2> SUFFICES ASSUME ListInv, NEW g \in Agent
               PROVE  Elements(list[g]) = Expected(seen[g])
    BY DEF DetectedExactly, Listed, Elements
  <2>1. CASE seen[g] = Nothing
    <3>1. list[g] = <<>>
      BY <2>1 DEF ListInv, Procs
    <3>2. Expected(seen[g]) = {}
      BY <2>1 DEF Expected, Nothing
    <3> QED
      BY <3>1, <3>2 DEF Elements
  <2>2. CASE seen[g] # Nothing
    BY <2>2, AllFound DEF ListInv, Sight
  <2> QED
    BY <2>1, <2>2
<1> QED
  BY <1>1, <1>2, <1>3, QueryInvariance, PTL DEF Spec

(* Whatever jps prints on a node and whichever job is the application's,    *)
(* its processes and its frameworks' daemons there are in the agent's list. *)
THEOREM NoneMissed == Spec => []NothingMissed
<1>1. DetectedExactly => NothingMissed
  <2> SUFFICES ASSUME NEW g \in Agent, Listed(g) = Expected(seen[g])
               PROVE  /\ seen[g].entry => EntryPid \in Listed(g)
                      /\ \A i \in DOMAIN seen[g].outs :
                           Wanted(Frameworks[i], seen[g].outs[i]) \subseteq Listed(g)
    BY DEF DetectedExactly, NothingMissed
  <2>1. \A fw, out : Wanted(fw, out) \subseteq Named(fw, out)
    BY DEF Wanted, Named
  <2> QED
    BY <2>1 DEF Expected
<1> QED
  BY <1>1, FoundExactly, PTL

-----------------------------------------------------------------------------
(* The reports.                                                             *)

USE MonicaAssumption

(* A document whose end is set is of an application whose waiter has come   *)
(* to it first; its times are noted by then; and a report on the system     *)
(* goes on only with such a document, which nothing takes back.             *)
ReportInv ==
  /\ appDoc = "ended" => life \in {"noted", "gone"} /\ etime # Never
  /\ life = "noted" => etime # Never
  /\ life # "none" => began # Never /\ stime # Never /\ stime <= began + Lag
  /\ cmd = "sys" /\ step = "scroll" => appDoc = "ended"
  /\ cmd = "sys" /\ exit = 0 => appDoc = "ended"
  /\ step = "called" => printed = {}

LifeTypeOK ==
  /\ clock \in Time
  /\ life \in {"none", "running", "exited", "noted", "killed", "gone"}
  /\ began \in Time \cup {Never}
  /\ stime \in 0 .. MaxTime + Lag \cup {Never}
  /\ etime \in Time \cup {Never}
  /\ appDoc \in {"none", "lost", "started", "ended"}
  /\ docs \subseteq Doc

ReportTypeOK ==
  /\ cmd \in Command
  /\ step \in {"called", "scroll", "done"}
  /\ exit \in {Running, 0, -1}
  /\ hits \subseteq docs
  /\ printed \subseteq hits

MonicaInv == LifeTypeOK /\ ReportTypeOK /\ ReportInv

LEMMA MonicaInvInit == Init => MonicaInv
  BY DEF Init, RecordInit, MonicaInv, LifeTypeOK, ReportTypeOK, ReportInv, Time, Running

(* The agents' steps, which end with the command *)
LEMMA AgentsKeep == MonicaInv /\ AgentsStep => MonicaInv'
<1> SUFFICES ASSUME MonicaInv, AgentsStep PROVE MonicaInv'
  OBVIOUS
<1> USE DEF MonicaInv, Meanwhile, recordVars, timeVars, reportVars, Running
<1>0. UNCHANGED reportVars
  BY DEF AgentsStep, Tick, Start, NoteEnd, Proceed, Measured
<1>1. CASE Tick
  BY <1>1 DEF Tick, LifeTypeOK, ReportTypeOK, ReportInv, Time
<1>2. CASE Start
  BY <1>2 DEF Start, Starts, LifeTypeOK, ReportTypeOK, ReportInv, Time
<1>3. CASE NoteEnd
  BY <1>3 DEF NoteEnd, EndNoted, LifeTypeOK, ReportTypeOK, ReportInv, Time
<1>4. CASE Proceed
  <2>1. LifeTypeOK'
    BY <1>4 DEF Proceed, StartStored, Ends, IsKilled, EndStored, AgentGone, LifeTypeOK
  <2>2. ReportTypeOK'
    BY <1>0, <1>4 DEF Proceed, ReportTypeOK
  <2>3. ReportInv'
    BY <1>4 DEF Proceed, StartStored, Ends, IsKilled, EndStored, AgentGone, ReportInv
  <2> QED
    BY <2>1, <2>2, <2>3
<1>5. ASSUME NEW d \in Doc, Measured(d) PROVE MonicaInv'
  BY <1>5 DEF Measured, LifeTypeOK, ReportTypeOK, ReportInv
<1> QED
  BY <1>1, <1>2, <1>3, <1>4, <1>5 DEF AgentsStep

(* The command's steps, which change nothing an agent has written *)
LEMMA ReportsKeep == MonicaInv /\ (ReportStep \/ StoreFails) => MonicaInv'
<1> SUFFICES ASSUME MonicaInv, ReportStep \/ StoreFails PROVE MonicaInv'
  OBVIOUS
<1> USE DEF MonicaInv, ExitWith, Scroll
<1>1. LifeTypeOK' /\ UNCHANGED <<lifeVars, cmd>>
  BY DEF ReportStep, AppInfo, AppPerf, AppSysPerfRefused, AppSysPerf, NextPage, LastPage,
         ProcessesPrinted, StoreFails, lifeVars, recordVars, timeVars, LifeTypeOK
<1>2. step' \in {"called", "scroll", "done"} /\ exit' \in {Running, 0, -1}
  BY DEF ReportStep, AppInfo, AppPerf, AppSysPerfRefused, AppSysPerf, NextPage, LastPage,
         ProcessesPrinted, StoreFails, ReportTypeOK
<1>3. hits' \subseteq docs /\ printed' \subseteq hits'
  <2>1. CASE NextPage
    BY <2>1 DEF NextPage, ReportTypeOK
  <2>2. CASE AppPerf \/ AppSysPerf
    BY <2>2 DEF AppPerf, AppSysPerf, ReportInv
  <2>3. CASE AppInfo \/ AppSysPerfRefused \/ LastPage \/ ProcessesPrinted \/ StoreFails
    BY <2>3 DEF AppInfo, AppSysPerfRefused, LastPage, ProcessesPrinted, StoreFails,
                ReportTypeOK
  <2> QED
    BY <2>1, <2>2, <2>3 DEF ReportStep
<1>4. ReportTypeOK'
  BY <1>1, <1>2, <1>3 DEF ReportTypeOK, lifeVars
<1>5. /\ cmd = "sys" /\ step' = "scroll" => appDoc = "ended"
      /\ cmd = "sys" /\ exit' = 0 => appDoc = "ended"
      /\ step' # "called"
  <2>1. CASE AppPerf \/ AppSysPerf
    BY <2>1 DEF AppPerf, AppSysPerf, ReportInv
  <2>2. CASE NextPage
    BY <2>2 DEF NextPage, ReportInv
  <2>3. CASE LastPage
    BY <2>3 DEF LastPage, ReportInv
  <2>4. CASE AppInfo \/ AppSysPerfRefused \/ ProcessesPrinted \/ StoreFails
    BY <2>4 DEF AppInfo, AppSysPerfRefused, ProcessesPrinted, StoreFails
  <2> QED
    BY <2>1, <2>2, <2>3, <2>4 DEF ReportStep
<1>6. ReportInv'
  BY <1>1, <1>5 DEF ReportInv, lifeVars, recordVars, timeVars
<1> QED
  BY <1>1, <1>4, <1>6

THEOREM ReportInvariance == Spec => []MonicaInv
<1>1. Init => MonicaInv
  BY MonicaInvInit
<1>2. MonicaInv /\ [Next]_vars => MonicaInv'
  <2> SUFFICES ASSUME MonicaInv, [Next]_vars PROVE MonicaInv'
    OBVIOUS
  <2>1. CASE GetProcesses \/ UNCHANGED vars
    BY <2>1 DEF GetProcesses, vars, lifeVars, recordVars, timeVars, reportVars, MonicaInv,
                LifeTypeOK, ReportTypeOK, ReportInv
  <2> QED
    BY <2>1, AgentsKeep, ReportsKeep DEF Next
<1> QED
  BY <1>1, <1>2, PTL DEF Spec

(* Every variable of the client, of the query and of what agents leave has  *)
(* its type                                                                 *)
THEOREM MonicaTypes == Spec => []TypeOK
<1>1. QueryInv /\ MonicaInv => TypeOK
  BY DEF QueryInv, MonicaInv, LifeTypeOK, ReportTypeOK, TypeOK
<1> QED
  BY <1>1, QueryInvariance, ReportInvariance, PTL

(* AppSysPerf gives no report on an application that was killed or still runs *)
THEOREM EndlessRefused == Spec => []EndlessIsRefused
<1>1. MonicaInv => EndlessIsRefused
  BY DEF MonicaInv, ReportInv, EndlessIsRefused
<1> QED
  BY <1>1, ReportInvariance, PTL

(* A stamp is cut by less than a second *)
LEMMA Cut ==
  \A n \in Int, s \in Nat \ {0} :
    n - (n % s) \in Int /\ n - (n % s) <= n /\ n < (n - (n % s)) + s
<1> TAKE n \in Int, s \in Nat \ {0}
<1> HIDE MonicaAssumption
<1>1. n % s \in Nat /\ n % s < s
  OBVIOUS
<1> DEFINE r == n % s
<1>2. r \in Nat /\ r < s /\ s \in Nat
  BY <1>1
<1> HIDE DEF r
<1>3. n - r \in Int /\ n - r <= n /\ n < (n - r) + s
  BY <1>2
<1> QED
  BY <1>3 DEF r

LEMMA StampBounds ==
  ASSUME NEW t \in Nat, NEW g \in Agent
  PROVE  /\ Stamp(t, g) \in Int
         /\ Stamp(t, g) <= t + Offset[g]
         /\ t + Offset[g] < Stamp(t, g) + Second
<1>1. t + Offset[g] \in Int /\ Second \in Nat \ {0}
  OBVIOUS
<1> QED
  BY <1>1, Cut, Zenon DEF Stamp

(* AppSysPerf's range of three minutes before and after leaves nothing out, *)
(* for clocks that differ by no more than that, whatever a second cuts off  *)
THEOREM RangeCoversAll == Spec => RangeCovers
<1> DEFINE Covers ==
      cmd = "sys" /\ step = "called" /\ step' = "scroll" =>
        \A d \in docs : d.kind = "sys" /\ began <= d.at /\ d.at <= etime => d \in hits'
<1>1. MonicaInv /\ [Next]_vars => [Covers]_vars
  <2> SUFFICES ASSUME MonicaInv, [Next]_vars, cmd = "sys", step = "called", step' = "scroll",
                      NEW d \in docs, d.kind = "sys", began <= d.at, d.at <= etime
               PROVE  d \in hits'
    BY Zenon
  <2>1. AppSysPerf
    BY DEF Next, vars, reportVars, GetProcesses, AgentsStep, Tick, Start, NoteEnd, Proceed,
           Measured, ReportStep, AppInfo, AppPerf, AppSysPerfRefused, NextPage, LastPage,
           ProcessesPrinted, StoreFails, ExitWith
  <2>2. hits' = {e \in docs : e.kind = "sys" /\ InRange(Stamp(e.at, e.node))}
    BY <2>1 DEF AppSysPerf, Scroll
  <2>3. /\ d.at \in Nat /\ d.node \in Agent
        /\ stime \in Nat /\ began \in Nat /\ etime \in Nat
        /\ stime <= began + Lag
    BY <2>1 DEF MonicaInv, LifeTypeOK, ReportInv, AppSysPerf, Doc, Time
  <2>4. /\ Offset[Entry] \in Int /\ Offset[d.node] \in Int
        /\ Margin \in Nat /\ Lag \in Nat /\ Second \in Nat
        /\ Offset[Entry] - Offset[d.node] + Lag + Second <= Margin
        /\ Offset[d.node] - Offset[Entry] + Second <= Margin
    BY <2>3
  <2>5. /\ Stamp(stime, Entry) \in Int
        /\ Stamp(stime, Entry) <= stime + Offset[Entry]
        /\ Stamp(etime, Entry) \in Int
        /\ etime + Offset[Entry] < Stamp(etime, Entry) + Second
        /\ Stamp(d.at, d.node) \in Int
        /\ Stamp(d.at, d.node) <= d.at + Offset[d.node]
        /\ d.at + Offset[d.node] < Stamp(d.at, d.node) + Second
    BY <2>3, StampBounds
  <2> DEFINE from == Stamp(stime, Entry)
             to == Stamp(etime, Entry)
             at == Stamp(d.at, d.node)
             time == d.at
             mine == Offset[Entry]
             its == Offset[d.node]
  <2>6. /\ time \in Nat /\ began <= time /\ time <= etime
        /\ mine \in Int /\ its \in Int
        /\ mine - its + Lag + Second <= Margin
        /\ its - mine + Second <= Margin
        /\ from \in Int /\ from <= stime + mine
        /\ to \in Int /\ etime + mine < to + Second
        /\ at \in Int /\ at <= time + its /\ time + its < at + Second
    BY <2>3, <2>4, <2>5
  <2> HIDE DEF from, to, at, time, mine, its
  <2>7. from - Margin <= at /\ at <= to + Margin
    BY <2>3, <2>4, <2>6
  <2> QED
    BY <2>2, <2>7 DEF from, to, at, InRange
<1> QED
  BY <1>1, ReportInvariance, PTL DEF Spec, RangeCovers

=============================================================================
