--------------------------- MODULE DocPipeline_proofs ---------------------------
(***************************************************************************)
(* Proofs about the path of an agent's documents, for every set of         *)
(* monitors and every capacity of the channels: types and capacities, and  *)
(* that the path implements DocStream.                                     *)
(***************************************************************************)
EXTENDS DocPipeline, FiniteSetTheorems, TLAPS

USE PipelineAssumption

-----------------------------------------------------------------------------
(* Types and capacities.                                                    *)

LEMMA PipelineTypeInit == PipelineInit => PipelineTypeOK
<1> SUFFICES ASSUME PipelineInit PROVE PipelineTypeOK
  OBVIOUS
<1>1. 0 \in 0 .. Wrap - 1
  OBVIOUS
<1>2. <<>> \in Seq(Doc) /\ Len(<<>>) = 0
  OBVIOUS
<1>3. ch \in [Source -> Seq(Doc)] /\ \A s \in Source : Len(ch[s]) <= ChCap
  BY <1>2 DEF PipelineInit
<1>4. outCh \in Seq(Doc) /\ Len(outCh) <= ChCap
  BY <1>2 DEF PipelineInit
<1>5. sent \in [Source -> 0 .. Wrap - 1] /\ stored \in [Source -> 0 .. Wrap - 1]
  BY <1>1 DEF PipelineInit
<1> QED
  BY <1>3, <1>4, <1>5 DEF PipelineInit, PipelineTypeOK

(* The number after a number is a number *)
LEMMA NextNumber == \A n \in 0 .. Wrap - 1 : (n + 1) % Wrap \in 0 .. Wrap - 1
  OBVIOUS

LEMMA SendType ==
  ASSUME PipelineTypeOK, NEW s \in Source, Send(s)
  PROVE  PipelineTypeOK'
<1> DEFINE n == (sent[s] + 1) % Wrap
<1>1. n \in 0 .. Wrap - 1
  BY NextNumber DEF PipelineTypeOK
<1>2. [src |-> s, n |-> n] \in Doc
  BY <1>1 DEF Doc
<1> HIDE DEF n
<1>3. /\ sent' = [sent EXCEPT ![s] = n]
      /\ ch' = [ch EXCEPT ![s] = Append(@, [src |-> s, n |-> n])]
      /\ Len(ch[s]) < ChCap
      /\ UNCHANGED <<ready, held, outCh, adding, stored>>
  BY DEF Send, n
<1> QED
  BY <1>1, <1>2, <1>3 DEF PipelineTypeOK

LEMMA PipelineStepType ==
  ASSUME PipelineTypeOK, PipelineStep
  PROVE  PipelineTypeOK'
<1> USE DEF PipelineTypeOK
<1>1. ASSUME NEW s \in Source, MergeTake(s) PROVE PipelineTypeOK'
  BY <1>1 DEF MergeTake
<1>2. ASSUME NEW s \in Source, MergePut(s) PROVE PipelineTypeOK'
  BY <1>2 DEF MergePut
<1>3. CASE StoreConnects
  BY <1>3 DEF StoreConnects
<1>4. CASE StoreTake
  BY <1>4 DEF StoreTake
<1>5. CASE StoreAdd
  BY <1>5 DEF StoreAdd, Doc
<1> QED
  BY <1>1, <1>2, <1>3, <1>4, <1>5 DEF PipelineStep

(* Documents and channels keep their types and no channel its capacity      *)
(* exceeds, whatever monitors, merger and store do: merger, store           *)
THEOREM PipelineTypes == PipelineSpec => []PipelineTypeOK
<1>1. PipelineTypeOK /\ [PipelineNext]_pipelineVars => PipelineTypeOK'
  <2> SUFFICES ASSUME PipelineTypeOK, [PipelineNext]_pipelineVars
               PROVE  PipelineTypeOK'
    OBVIOUS
  <2>1. CASE UNCHANGED pipelineVars
    BY <2>1 DEF pipelineVars, PipelineTypeOK
  <2> QED
    BY <2>1, SendType, PipelineStepType DEF PipelineNext
<1> QED
  BY <1>1, PipelineTypeInit, PTL DEF PipelineSpec

-----------------------------------------------------------------------------
(* The places of the path in the order in which a monitor's documents leave *)
(* it: store's hand, the common channel from its head, merger's hand, the   *)
(* monitor's own channel from its head.                                     *)
Place == 0 .. 2 * ChCap + 1

At(s, p) ==
  IF p = 0 THEN adding
  ELSE IF p <= ChCap THEN IF p <= Len(outCh) THEN outCh[p] ELSE NoDoc
  ELSE IF p = ChCap + 1 THEN held[s]
  ELSE IF p - (ChCap + 1) <= Len(ch[s]) THEN ch[s][p - (ChCap + 1)] ELSE NoDoc

(* A place on the path of s holds a document of s *)
Has(s, p) == At(s, p) # NoDoc /\ At(s, p).src = s

(* How far the number n is ahead of the last document of s that was stored *)
Ahead(s, n) == (Wrap + n - stored[s]) % Wrap

Rank(s, p) == Ahead(s, At(s, p).n)

UnderWay(s) == Ahead(s, sent[s])

(* What a monitor and merger's goroutine for it hold is its own *)
OwnDocs ==
  \A s \in Source :
    /\ held[s] # NoDoc => held[s].src = s
    /\ \A i \in 1 .. Len(ch[s]) : ch[s][i].src = s

(* The documents of s on the path are those numbered after stored[s] up to  *)
(* sent[s], each of them once, in the order of their numbers.               *)
InOrder(s) ==
  /\ \A p \in Place : Has(s, p) => Rank(s, p) \in 1 .. UnderWay(s)
  /\ \A p, q \in Place : Has(s, p) /\ Has(s, q) /\ p < q => Rank(s, p) < Rank(s, q)
  /\ \A k \in 1 .. UnderWay(s) : \E p \in Place : Has(s, p) /\ Rank(s, p) = k

StreamInv == PipelineTypeOK /\ OwnDocs /\ \A s \in Source : InOrder(s)

-----------------------------------------------------------------------------
(* Arithmetic modulo Wrap.                                                  *)

LEMMA Successor ==
  \A n \in 0 .. Wrap - 1 : (n + 1) % Wrap = IF n + 1 = Wrap THEN 0 ELSE n + 1
  OBVIOUS

LEMMA Distance ==
  \A m, n \in 0 .. Wrap - 1 :
    (Wrap + n - m) % Wrap = IF n >= m THEN n - m ELSE Wrap + n - m
<1> SUFFICES ASSUME NEW m \in 0 .. Wrap - 1, NEW n \in 0 .. Wrap - 1
             PROVE  (Wrap + n - m) % Wrap = IF n >= m THEN n - m ELSE Wrap + n - m
  OBVIOUS
<1>1. CASE n >= m
  <2>1. n - m \in 0 .. Wrap - 1 /\ Wrap + n - m = Wrap + (n - m)
    BY <1>1
  <2>2. \A d \in 0 .. Wrap - 1 : (Wrap + d) % Wrap = d
    OBVIOUS
  <2> QED
    BY <1>1, <2>1, <2>2
<1>2. CASE n < m
  <2>1. Wrap + n - m \in 0 .. Wrap - 1
    BY <1>2
  <2>2. \A d \in 0 .. Wrap - 1 : d % Wrap = d
    OBVIOUS
  <2> QED
    BY <1>2, <2>1, <2>2
<1> QED
  BY <1>1, <1>2

(* Ahead is a number, none but stored[s] is at distance 0, and the distance *)
(* tells the numbers apart                                                  *)
LEMMA AheadType ==
  ASSUME PipelineTypeOK, NEW s \in Source
  PROVE  /\ \A n \in 0 .. Wrap - 1 : Ahead(s, n) \in 0 .. Wrap - 1
         /\ UnderWay(s) \in 0 .. Wrap - 1
<1>1. stored[s] \in 0 .. Wrap - 1 /\ sent[s] \in 0 .. Wrap - 1
  BY DEF PipelineTypeOK
<1> QED
  BY <1>1, Distance DEF Ahead, UnderWay

(* Sending puts the next number at the next distance *)
LEMMA AheadNext ==
  ASSUME PipelineTypeOK, NEW s \in Source, UnderWay(s) < Wrap - 1
  PROVE  Ahead(s, (sent[s] + 1) % Wrap) = UnderWay(s) + 1
<1>1. stored[s] \in 0 .. Wrap - 1 /\ sent[s] \in 0 .. Wrap - 1
  BY DEF PipelineTypeOK
<1> DEFINE n == (sent[s] + 1) % Wrap
<1>2. /\ n \in 0 .. Wrap - 1
      /\ n = IF sent[s] + 1 = Wrap THEN 0 ELSE sent[s] + 1
  BY <1>1, NextNumber, Successor
<1> HIDE DEF n
<1>3. Ahead(s, n) = IF n >= stored[s] THEN n - stored[s] ELSE Wrap + n - stored[s]
  BY <1>1, <1>2, Distance DEF Ahead
<1>4. UnderWay(s) = IF sent[s] >= stored[s] THEN sent[s] - stored[s]
                    ELSE Wrap + sent[s] - stored[s]
  BY <1>1, Distance DEF Ahead, UnderWay
<1>5. Ahead(s, n) = UnderWay(s) + 1
  BY <1>1, <1>2, <1>3, <1>4
<1> QED
  BY <1>5 DEF n

(* Storing the number at distance 1 brings every other one nearer by 1 *)
LEMMA AheadStored ==
  ASSUME PipelineTypeOK, NEW s \in Source,
         NEW m \in 0 .. Wrap - 1, Ahead(s, m) = 1, stored'[s] = m
  PROVE  /\ m = (stored[s] + 1) % Wrap
         /\ \A n \in 0 .. Wrap - 1 : Ahead(s, n) > 0 => Ahead(s, n)' = Ahead(s, n) - 1
<1>1. stored[s] \in 0 .. Wrap - 1
  BY DEF PipelineTypeOK
<1>2. ASSUME NEW n \in 0 .. Wrap - 1
      PROVE  /\ Ahead(s, n) = IF n >= stored[s] THEN n - stored[s] ELSE Wrap + n - stored[s]
             /\ Ahead(s, n)' = IF n >= m THEN n - m ELSE Wrap + n - m
  BY <1>1, Distance DEF Ahead
<1>3. m = IF stored[s] + 1 = Wrap THEN 0 ELSE stored[s] + 1
  BY <1>1, <1>2
<1>4. m = (stored[s] + 1) % Wrap
  BY <1>1, <1>3, Successor
<1>5. ASSUME NEW n \in 0 .. Wrap - 1, Ahead(s, n) > 0
      PROVE  Ahead(s, n)' = Ahead(s, n) - 1
  BY <1>1, <1>2, <1>3, <1>5
<1> QED
  BY <1>4, <1>5

-----------------------------------------------------------------------------
(* Documents that move along the path.                                      *)

(* A document that has not been stored is at a distance that is a number    *)
LEMMA RankType ==
  ASSUME PipelineTypeOK, NEW s \in Source, NEW p \in Place, Has(s, p)
  PROVE  At(s, p) \in Doc /\ At(s, p).n \in 0 .. Wrap - 1 /\ Rank(s, p) \in 0 .. Wrap - 1
<1>1. At(s, p) \in Doc \cup {NoDoc}
  BY DEF PipelineTypeOK, At, Place
<1>2. At(s, p) \in Doc /\ At(s, p).n \in 0 .. Wrap - 1
  BY <1>1 DEF Has, Doc
<1> QED
  BY <1>2, AheadType DEF Rank

(* Documents that only change places, and keep their order, stay in order *)
LEMMA Moved ==
  ASSUME NEW s \in Source, InOrder(s),
         sent'[s] = sent[s], stored'[s] = stored[s],
         NEW to \in [Place -> Place],
         \A p \in Place : Has(s, p) => Has(s, to[p])' /\ At(s, to[p])' = At(s, p),
         \A q \in Place : Has(s, q)' => \E p \in Place : Has(s, p) /\ to[p] = q,
         \A p, q \in Place : Has(s, p) /\ Has(s, q) /\ p < q => to[p] < to[q]
  PROVE  InOrder(s)'
<1>1. UnderWay(s)' = UnderWay(s)
  BY DEF UnderWay, Ahead
<1>2. ASSUME NEW p \in Place, Has(s, p)
      PROVE  to[p] \in Place /\ Has(s, to[p])' /\ Rank(s, to[p])' = Rank(s, p)
  BY <1>2 DEF Rank, Ahead
<1>3. ASSUME NEW p \in Place, Has(s, p)'
      PROVE  Rank(s, p)' \in 1 .. UnderWay(s)'
  <2>1. PICK p0 \in Place : Has(s, p0) /\ to[p0] = p
    BY <1>3
  <2> QED
    BY <2>1, <1>1, <1>2 DEF InOrder
<1>4. ASSUME NEW p \in Place, NEW q \in Place, Has(s, p)', Has(s, q)', p < q
      PROVE  Rank(s, p)' < Rank(s, q)'
  <2>1. PICK p0 \in Place : Has(s, p0) /\ to[p0] = p
    BY <1>4
  <2>2. PICK q0 \in Place : Has(s, q0) /\ to[q0] = q
    BY <1>4
  <2>3. p0 < q0
    <3>1. p0 # q0
      BY <1>4, <2>1, <2>2 DEF Place
    <3>2. ~ (q0 < p0)
      BY <1>4, <2>1, <2>2 DEF Place
    <3> QED
      BY <3>1, <3>2 DEF Place
  <2>4. Rank(s, p0) < Rank(s, q0)
    BY <2>1, <2>2, <2>3 DEF InOrder
  <2> QED
    BY <1>2, <2>1, <2>2, <2>4
<1>5. ASSUME NEW k \in 1 .. UnderWay(s)'
      PROVE  \E p \in Place : Has(s, p)' /\ Rank(s, p)' = k
  <2>1. PICK p \in Place : Has(s, p) /\ Rank(s, p) = k
    BY <1>1, <1>5 DEF InOrder
  <2> QED
    BY <1>2, <2>1
<1> QED
  BY <1>3, <1>4, <1>5 DEF InOrder

(* A monitor none of whose places changes keeps its order *)
LEMMA Untouched ==
  ASSUME NEW s \in Source, InOrder(s),
         sent'[s] = sent[s], stored'[s] = stored[s],
         \A p \in Place : At(s, p)' = At(s, p)
  PROVE  InOrder(s)'
<1> DEFINE to == [p \in Place |-> p]
<1>1. to \in [Place -> Place] /\ \A p \in Place : to[p] = p
  OBVIOUS
<1> HIDE DEF to
<1>2. \A p \in Place : Has(s, p)' <=> Has(s, p)
  BY DEF Has
<1> QED
  BY <1>1, <1>2, Moved

(* Documents that occupy the first l places alone are l at most *)
LEMMA Room ==
  ASSUME PipelineTypeOK, NEW s \in Source, InOrder(s),
         NEW l \in Nat, \A p \in Place : Has(s, p) => p < l
  PROVE  UnderWay(s) <= l
<1> SUFFICES ASSUME UnderWay(s) > l PROVE FALSE
  BY AheadType
<1> DEFINE u == UnderWay(s)
           at == [k \in 1 .. u |-> CHOOSE p \in Place : Has(s, p) /\ Rank(s, p) = k]
<1>1. u \in Nat /\ u > l
  BY AheadType
<1>2. ASSUME NEW k \in 1 .. u
      PROVE  at[k] \in 0 .. l - 1 /\ Rank(s, at[k]) = k
  <2>1. \E p \in Place : Has(s, p) /\ Rank(s, p) = k
    BY <1>2 DEF InOrder
  <2>2. at[k] \in Place /\ Has(s, at[k]) /\ Rank(s, at[k]) = k
    BY <2>1
  <2> QED
    BY <2>2 DEF Place
<1>3. at \in [1 .. u -> 0 .. l - 1]
  BY <1>2
<1> HIDE DEF at, u
<1>4. /\ IsFiniteSet(1 .. u) /\ Cardinality(1 .. u) = u
      /\ IsFiniteSet(0 .. l - 1) /\ Cardinality(0 .. l - 1) = l
  <2>1. /\ IsFiniteSet(1 .. u)
        /\ Cardinality(1 .. u) = IF 1 > u THEN 0 ELSE u - 1 + 1
    BY <1>1, FS_Interval, 1 \in Int, u \in Int
  <2>2. /\ IsFiniteSet(0 .. l - 1)
        /\ Cardinality(0 .. l - 1) = IF 0 > l - 1 THEN 0 ELSE (l - 1) - 0 + 1
    BY FS_Interval, 0 \in Int, l - 1 \in Int
  <2> QED
    BY <1>1, <2>1, <2>2
<1>5. \E k, m \in 1 .. u : k # m /\ at[k] = at[m]
  BY <1>1, <1>3, <1>4, FS_PigeonHole
<1> QED
  BY <1>2, <1>5

-----------------------------------------------------------------------------
(* The steps.                                                               *)

(* Numbers do not wrap among the documents under way *)
Numbered == Wrap > 2 * ChCap + 2

LEMMA StreamInvInit == PipelineInit => StreamInv
<1> SUFFICES ASSUME PipelineInit PROVE StreamInv
  OBVIOUS
<1>1. PipelineTypeOK
  BY PipelineTypeInit
<1>2. OwnDocs
  <2>1. ASSUME NEW s \in Source PROVE held[s] = NoDoc /\ Len(ch[s]) = 0
    BY DEF PipelineInit
  <2>2. 1 .. 0 = {}
    OBVIOUS
  <2> QED
    BY <2>1, <2>2 DEF OwnDocs
<1>3. ASSUME NEW s \in Source PROVE InOrder(s)
  <2>1. \A p \in Place : At(s, p) = NoDoc
    BY DEF PipelineInit, At, Place
  <2>2. UnderWay(s) = 0
    <3>1. 0 \in 0 .. Wrap - 1 /\ sent[s] = 0 /\ stored[s] = 0
      BY DEF PipelineInit
    <3> QED
      BY <3>1, Distance DEF UnderWay, Ahead
  <2> QED
    BY <2>1, <2>2 DEF InOrder, Has
<1> QED
  BY <1>1, <1>2, <1>3 DEF StreamInv

(* A document is sent with the number that follows the last one, while no   *)
(* more than Window are under way.                                          *)
LEMMA SendStep ==
  ASSUME Numbered, StreamInv, NEW s \in Source, Send(s)
  PROVE  StreamInv' /\ Stream!Send(s)
<1> USE DEF StreamInv
<1> DEFINE n == (sent[s] + 1) % Wrap
           doc == [src |-> s, n |-> n]
<1>1. n \in 0 .. Wrap - 1 /\ doc \in Doc /\ doc.src = s /\ doc.n = n
  BY NextNumber DEF PipelineTypeOK, Doc
<1>2. PipelineTypeOK'
  BY SendType
<1>3. PICK l \in Nat : l = ChCap + 2 + Len(ch[s])
  BY DEF PipelineTypeOK
<1>4. /\ Len(ch[s]) < ChCap
      /\ l \in Place /\ l < 2 * ChCap + 2
      /\ ch' = [ch EXCEPT ![s] = Append(@, doc)]
      /\ sent' = [sent EXCEPT ![s] = n]
      /\ UNCHANGED <<held, outCh, adding, stored>>
  BY <1>3 DEF Send, Place, PipelineTypeOK
<1>5. Ahead(s, n) = UnderWay(s) + 1 /\ UnderWay(s) \in 0 .. 2 * ChCap + 1
  <2>1. \A p \in Place : Has(s, p) => p < l
    BY <1>3 DEF Place, Has, At, PipelineTypeOK
  <2>2. UnderWay(s) <= l /\ UnderWay(s) \in 0 .. Wrap - 1
    BY <2>1, Room, AheadType
  <2> QED
    BY <1>4, <2>2, AheadNext DEF Numbered
<1> HIDE DEF n, doc
<1>6. OwnDocs'
  <2>1. ASSUME NEW t \in Source, NEW i \in 1 .. Len(ch'[t]) PROVE ch'[t][i].src = t
    <3>1. CASE t = s
      BY <1>1, <1>4, <3>1 DEF OwnDocs, PipelineTypeOK
    <3>2. CASE t # s
      BY <1>4, <3>2 DEF OwnDocs, PipelineTypeOK
    <3> QED
      BY <3>1, <3>2
  <2> QED
    BY <1>4, <2>1 DEF OwnDocs
<1>7. ASSUME NEW t \in Source, t # s PROVE InOrder(t)'
  <2>1. ch'[t] = ch[t] /\ sent'[t] = sent[t]
    BY <1>4, <1>7 DEF PipelineTypeOK
  <2>2. held' = held /\ outCh' = outCh /\ adding' = adding /\ stored' = stored
    BY <1>4
  <2>3. ASSUME NEW p \in Place PROVE At(t, p)' = At(t, p)
    BY <2>1, <2>2 DEF At
  <2> QED
    BY <2>1, <2>2, <2>3, Untouched
<1>8. InOrder(s)'
  <2>1. ch'[s] = Append(ch[s], doc) /\ sent'[s] = n /\ ch[s] \in Seq(Doc)
    BY <1>4 DEF PipelineTypeOK
  <2>2. ASSUME NEW p \in Place PROVE At(s, p)' = IF p = l THEN doc ELSE At(s, p)
    <3>1. held' = held /\ outCh' = outCh /\ adding' = adding
      BY <1>4
    <3>2. /\ Len(ch'[s]) = Len(ch[s]) + 1
          /\ \A i \in 1 .. Len(ch[s]) : ch'[s][i] = ch[s][i]
          /\ ch'[s][Len(ch[s]) + 1] = doc
          /\ Len(ch[s]) \in Nat
      BY <1>1, <2>1
    <3>3. CASE p <= ChCap + 1
      <4>1. p # l /\ (p = 0 \/ p <= ChCap \/ p = ChCap + 1)
        BY <1>3, <3>3 DEF Place, PipelineTypeOK
      <4> QED
        BY <3>1, <4>1 DEF At
    <3>4. CASE p > ChCap + 1
      <4>1. p # 0 /\ ~ (p <= ChCap) /\ p # ChCap + 1
        BY <3>4 DEF Place
      <4>2. p = l <=> p - (ChCap + 1) = Len(ch[s]) + 1
        BY <1>3 DEF Place, PipelineTypeOK
      <4>3. p - (ChCap + 1) \in Nat \ {0}
        BY <3>4 DEF Place
      <4> DEFINE i == p - (ChCap + 1)
      <4>4. /\ At(s, p) = IF i <= Len(ch[s]) THEN ch[s][i] ELSE NoDoc
            /\ At(s, p)' = IF i <= Len(ch'[s]) THEN ch'[s][i] ELSE NoDoc
        BY <4>1 DEF At
      <4> HIDE DEF i
      <4>5. i \in Nat \ {0} /\ (p = l <=> i = Len(ch[s]) + 1)
        BY <4>2, <4>3 DEF i
      <4> QED
        BY <3>2, <4>4, <4>5
    <3> QED
      BY <3>3, <3>4 DEF Place
  <2>3. At(s, l) = NoDoc
    BY <1>3 DEF At, PipelineTypeOK
  <2>4. \A m : Ahead(s, m)' = Ahead(s, m)
    BY <1>4 DEF Ahead
  <2>5. UnderWay(s)' = UnderWay(s) + 1 /\ UnderWay(s) \in Nat
    BY <1>5, <2>1, <2>4 DEF UnderWay
  <2>6. \A p \in Place : p # l => (Has(s, p)' <=> Has(s, p)) /\ Rank(s, p)' = Rank(s, p)
    BY <2>2, <2>4 DEF Has, Rank
  <2>7. Has(s, l)' => Rank(s, l)' = UnderWay(s) + 1
    BY <1>1, <1>4, <1>5, <2>2, <2>4 DEF Rank
  <2>8. Has(s, l)' /\ ~ Has(s, l)
    <3>1. doc # NoDoc
      BY <1>1, NoDocAssumption
    <3> QED
      BY <1>1, <1>4, <2>2, <2>3, <3>1 DEF Has
  <2>9. \A p \in Place : Has(s, p) => p < l
    BY <1>3 DEF Place, Has, At, PipelineTypeOK
  <2>10. InOrder(s)
    OBVIOUS
  <2>11. ASSUME NEW p \in Place, Has(s, p)' PROVE Rank(s, p)' \in 1 .. UnderWay(s)'
    BY <2>5, <2>6, <2>7, <2>10, <2>11 DEF InOrder
  <2>12. ASSUME NEW p \in Place, NEW q \in Place, Has(s, p)', Has(s, q)', p < q
         PROVE  Rank(s, p)' < Rank(s, q)'
    <3>1. p # l
      BY <1>4, <2>6, <2>9, <2>12 DEF Place
    <3>2. Has(s, p) /\ Rank(s, p)' = Rank(s, p) /\ Rank(s, p) \in 1 .. UnderWay(s)
      BY <2>6, <2>10, <2>12, <3>1 DEF InOrder
    <3>3. CASE q = l
      BY <2>5, <2>7, <2>8, <3>2, <3>3
    <3>4. CASE q # l
      BY <2>6, <2>10, <2>12, <3>2, <3>4 DEF InOrder
    <3> QED
      BY <3>3, <3>4
  <2>13. ASSUME NEW k \in 1 .. UnderWay(s)'
         PROVE  \E p \in Place : Has(s, p)' /\ Rank(s, p)' = k
    <3>1. CASE k = UnderWay(s) + 1
      BY <1>4, <2>7, <2>8, <3>1
    <3>2. CASE k # UnderWay(s) + 1
      <4>1. k \in 1 .. UnderWay(s)
        BY <2>5, <3>2
      <4>2. PICK p \in Place : Has(s, p) /\ Rank(s, p) = k
        BY <2>10, <4>1 DEF InOrder
      <4> QED
        BY <2>6, <2>8, <4>2
    <3> QED
      BY <3>1, <3>2
  <2> QED
    BY <2>11, <2>12, <2>13 DEF InOrder
<1>9. Stream!Send(s)
  <2>1. Stream!UnderWay(s) = UnderWay(s)
    BY DEF Stream!UnderWay, UnderWay, Ahead
  <2> QED
    BY <1>4, <1>5, <2>1 DEF Stream!Send, n
<1> QED
  BY <1>2, <1>6, <1>7, <1>8, <1>9

(* merger's goroutine takes the head of its channel: places behind its hand *)
(* come one nearer.                                                         *)
LEMMA MergeTakeStep ==
  ASSUME StreamInv, NEW s \in Source, MergeTake(s)
  PROVE  StreamInv'
<1>1. PipelineTypeOK /\ PipelineTypeOK'
  BY PipelineStepType DEF StreamInv, PipelineStep
<1>2. /\ held[s] = NoDoc /\ ch[s] # <<>>
      /\ held'[s] = Head(ch[s]) /\ ch'[s] = Tail(ch[s])
      /\ \A t \in Source : t # s => held'[t] = held[t] /\ ch'[t] = ch[t]
      /\ sent' = sent /\ outCh' = outCh /\ adding' = adding /\ stored' = stored
  BY <1>1 DEF MergeTake, PipelineTypeOK
<1>3. /\ Len(ch[s]) \in 1 .. ChCap /\ Len(ch'[s]) = Len(ch[s]) - 1
      /\ held'[s] = ch[s][1]
      /\ \A i \in 1 .. Len(ch[s]) - 1 : ch'[s][i] = ch[s][i + 1]
  <2>1. ch[s] \in Seq(Doc) /\ Len(ch[s]) <= ChCap
    BY <1>1 DEF PipelineTypeOK
  <2> QED
    BY <1>2, <2>1
<1>4. OwnDocs'
  <2>1. ASSUME NEW t \in Source, held'[t] # NoDoc PROVE held'[t].src = t
    BY <1>2, <1>3, <2>1 DEF StreamInv, OwnDocs
  <2>2. ASSUME NEW t \in Source, NEW i \in 1 .. Len(ch'[t]) PROVE ch'[t][i].src = t
    <3>1. CASE t = s
      <4>1. i \in 1 .. Len(ch[s]) - 1 /\ i + 1 \in 1 .. Len(ch[s])
        BY <1>3, <2>2, <3>1
      <4> QED
        BY <1>3, <3>1, <4>1 DEF StreamInv, OwnDocs
    <3>2. CASE t # s
      BY <1>2, <2>2, <3>2 DEF StreamInv, OwnDocs
    <3> QED
      BY <3>1, <3>2
  <2> QED
    BY <2>1, <2>2 DEF OwnDocs
<1>5. ASSUME NEW t \in Source, t # s PROVE InOrder(t)'
  <2>1. ASSUME NEW p \in Place PROVE At(t, p)' = At(t, p)
    BY <1>2, <1>5 DEF At
  <2> QED
    BY <1>2, <2>1, Untouched DEF StreamInv
<1>6. InOrder(s)'
  <2> DEFINE to == [p \in Place |-> IF p > ChCap + 1 THEN p - 1 ELSE p]
  <2>1. to \in [Place -> Place]
    BY DEF Place
  <2>2. ASSUME NEW p \in Place
        PROVE  to[p] = IF p > ChCap + 1 THEN p - 1 ELSE p
    OBVIOUS
  <2> HIDE DEF to
  <2>3. At(s, ChCap + 1) = NoDoc
    BY <1>2 DEF At
  <2>4. ASSUME NEW p \in Place, p # ChCap + 1, At(s, p) # NoDoc
        PROVE  At(s, to[p])' = At(s, p)
    <3>1. CASE p <= ChCap
      BY <1>2, <2>2, <3>1 DEF At, Place
    <3>2. CASE p > ChCap + 1
      <4> DEFINE i == p - (ChCap + 1)
      <4>1. i \in 1 .. Len(ch[s]) /\ At(s, p) = ch[s][i]
        BY <1>1, <2>4, <3>2 DEF At, Place, PipelineTypeOK
      <4>2. CASE i = 1
        <5>1. to[p] = ChCap + 1
          BY <2>2, <3>2, <4>2 DEF Place
        <5> QED
          BY <1>3, <4>1, <4>2, <5>1 DEF At
      <4>3. CASE i > 1
        <5>1. to[p] = p - 1 /\ p - 1 > ChCap + 1 /\ (p - 1) - (ChCap + 1) = i - 1
          BY <2>2, <3>2, <4>3 DEF Place
        <5>2. i - 1 \in 1 .. Len(ch[s]) - 1 /\ ch'[s][i - 1] = ch[s][i]
          BY <1>3, <4>1, <4>3
        <5>3. At(s, to[p])' = IF i - 1 <= Len(ch'[s]) THEN ch'[s][i - 1] ELSE NoDoc
          BY <5>1 DEF At, Place
        <5> QED
          BY <1>3, <4>1, <5>2, <5>3
      <4> QED
        BY <4>1, <4>2, <4>3
    <3> QED
      BY <2>4, <3>1, <3>2 DEF Place
  <2>5. ASSUME NEW p \in Place, Has(s, p)
        PROVE  Has(s, to[p])' /\ At(s, to[p])' = At(s, p)
    BY <2>3, <2>4, <2>5 DEF Has
  <2>6. ASSUME NEW q \in Place, Has(s, q)'
        PROVE  \E p \in Place : Has(s, p) /\ to[p] = q
    <3>1. CASE q <= ChCap
      <4>1. At(s, q)' = At(s, q) /\ to[q] = q
        BY <1>2, <2>2, <3>1 DEF At, Place
      <4> QED
        BY <2>6, <4>1 DEF Has
    <3>2. CASE q > ChCap
      <4>1. q + 1 \in Place /\ At(s, q + 1) # NoDoc
        <5>1. CASE q = ChCap + 1
          <6>1. q + 1 \in Place /\ At(s, q + 1) = ch[s][1] /\ ch[s][1] \in Doc
            BY <1>1, <1>3, <5>1 DEF At, Place, PipelineTypeOK
          <6> QED
            BY <6>1, NoDocAssumption
        <5>2. CASE q > ChCap + 1
          <6> DEFINE i == q - (ChCap + 1)
          <6>1. i \in Nat \ {0} /\ At(s, q)' = IF i <= Len(ch'[s]) THEN ch'[s][i] ELSE NoDoc
            BY <5>2 DEF At, Place
          <6>2. i \in 1 .. Len(ch[s]) - 1
            BY <1>3, <2>6, <6>1 DEF Has
          <6>3. q + 1 \in Place /\ (q + 1) - (ChCap + 1) = i + 1
            BY <1>3, <5>2, <6>2 DEF Place
          <6>4. At(s, q + 1) = IF i + 1 <= Len(ch[s]) THEN ch[s][i + 1] ELSE NoDoc
            BY <5>2, <6>3 DEF At, Place
          <6>5. ch[s][i + 1] \in Doc
            BY <1>1, <6>2 DEF PipelineTypeOK
          <6> QED
            BY <1>3, <6>2, <6>3, <6>4, <6>5, NoDocAssumption
        <5> QED
          BY <3>2, <5>1, <5>2 DEF Place
      <4>2. to[q + 1] = q /\ q + 1 # ChCap + 1
        BY <2>2, <3>2, <4>1 DEF Place
      <4>3. At(s, q)' = At(s, q + 1)
        BY <2>4, <4>1, <4>2
      <4> QED
        BY <2>6, <4>1, <4>2, <4>3 DEF Has
    <3> QED
      BY <3>1, <3>2 DEF Place
  <2>7. ASSUME NEW p \in Place, NEW q \in Place, Has(s, p), Has(s, q), p < q
        PROVE  to[p] < to[q]
    <3>1. p # ChCap + 1
      BY <2>3, <2>7 DEF Has
    <3> QED
      BY <2>2, <2>7, <3>1 DEF Place
  <2> QED
    BY <1>2, <2>1, <2>5, <2>6, <2>7, Moved DEF StreamInv
<1> QED
  BY <1>1, <1>4, <1>5, <1>6 DEF StreamInv

(* merger's goroutine puts its document behind the last of the common        *)
(* channel, which is still before what the monitor's own channel holds.      *)
LEMMA MergePutStep ==
  ASSUME StreamInv, NEW s \in Source, MergePut(s)
  PROVE  StreamInv'
<1>1. PipelineTypeOK /\ PipelineTypeOK'
  BY PipelineStepType DEF StreamInv, PipelineStep
<1>2. PICK m \in Nat : m = Len(outCh) + 1
  BY <1>1 DEF PipelineTypeOK
<1>3. /\ held[s] # NoDoc /\ held[s].src = s
      /\ held'[s] = NoDoc
      /\ \A t \in Source : t # s => held'[t] = held[t]
      /\ ch' = ch /\ sent' = sent /\ adding' = adding /\ stored' = stored
  BY <1>1 DEF MergePut, PipelineTypeOK, StreamInv, OwnDocs
<1>4. /\ m \in 1 .. ChCap /\ Len(outCh') = m
      /\ outCh'[m] = held[s]
      /\ \A i \in 1 .. m - 1 : outCh'[i] = outCh[i]
  <2>1. outCh \in Seq(Doc) /\ held[s] \in Doc /\ Len(outCh) < ChCap
    BY <1>1, <1>3 DEF MergePut, PipelineTypeOK
  <2>2. outCh' = Append(outCh, held[s])
    BY DEF MergePut
  <2> QED
    BY <1>2, <2>1, <2>2
<1>5. OwnDocs'
  BY <1>3 DEF StreamInv, OwnDocs
<1>6. ASSUME NEW t \in Source, NEW p \in Place, p # m, p # ChCap + 1
      PROVE  At(t, p)' = At(t, p)
  <2>1. CASE p <= ChCap
    BY <1>2, <1>3, <1>4, <1>6, <2>1 DEF At, Place
  <2>2. CASE p > ChCap
    BY <1>3, <1>6, <2>2 DEF At, Place
  <2> QED
    BY <2>1, <2>2 DEF Place
<1>7. /\ m \in Place /\ m # ChCap + 1 /\ ChCap + 1 \in Place
      /\ \A t \in Source : At(t, m)' = held[s] /\ At(t, m) = NoDoc
      /\ \A t \in Source : At(t, ChCap + 1)' = held'[t] /\ At(t, ChCap + 1) = held[t]
  BY <1>2, <1>4 DEF At, Place
<1>8. ASSUME NEW t \in Source, t # s PROVE InOrder(t)'
  <2> DEFINE to == [p \in Place |-> p]
  <2>1. to \in [Place -> Place] /\ \A p \in Place : to[p] = p
    OBVIOUS
  <2> HIDE DEF to
  <2>2. \A p \in Place : p # m => At(t, p)' = At(t, p)
    BY <1>3, <1>6, <1>7, <1>8
  <2>3. ~ Has(t, m)' /\ ~ Has(t, m)
    BY <1>3, <1>7, <1>8 DEF Has
  <2>4. \A p \in Place : Has(t, p)' <=> Has(t, p)
    BY <2>2, <2>3 DEF Has
  <2> QED
    BY <1>3, <2>1, <2>2, <2>3, <2>4, Moved DEF StreamInv
<1>9. InOrder(s)'
  <2> DEFINE to == [p \in Place |-> IF p = ChCap + 1 THEN m ELSE p]
  <2>1. to \in [Place -> Place]
    BY <1>7
  <2>2. \A p \in Place : to[p] = IF p = ChCap + 1 THEN m ELSE p
    OBVIOUS
  <2> HIDE DEF to
  <2>3. ASSUME NEW p \in Place, Has(s, p)
        PROVE  Has(s, to[p])' /\ At(s, to[p])' = At(s, p)
    <3>1. p # m
      BY <1>7, <2>3 DEF Has
    <3>2. At(s, to[p])' = At(s, p)
      BY <1>6, <1>7, <2>2, <3>1
    <3> QED
      BY <2>3, <3>2 DEF Has
  <2>4. ASSUME NEW q \in Place, Has(s, q)'
        PROVE  \E p \in Place : Has(s, p) /\ to[p] = q
    <3>1. CASE q = m
      <4>1. Has(s, ChCap + 1) /\ to[ChCap + 1] = q
        BY <1>3, <1>7, <2>2, <3>1 DEF Has
      <4> QED
        BY <1>7, <4>1
    <3>2. CASE q # m
      <4>1. q # ChCap + 1
        BY <1>3, <1>7, <2>4 DEF Has
      <4>2. Has(s, q) /\ to[q] = q
        BY <1>6, <2>2, <2>4, <3>2, <4>1 DEF Has
      <4> QED
        BY <4>2
    <3> QED
      BY <3>1, <3>2
  <2>5. ASSUME NEW p \in Place, NEW q \in Place, Has(s, p), Has(s, q), p < q
        PROVE  to[p] < to[q]
    <3>1. ASSUME NEW r \in Place, Has(s, r) PROVE r < m \/ r > ChCap
      BY <1>2, <3>1 DEF Has, At, Place
    <3>2. p < m \/ p > ChCap
      BY <2>5, <3>1
    <3> QED
      BY <1>4, <2>2, <2>5, <3>2 DEF Place
  <2> QED
    BY <1>3, <2>1, <2>3, <2>4, <2>5, Moved DEF StreamInv
<1> QED
  BY <1>1, <1>5, <1>8, <1>9 DEF StreamInv

(* store takes the head of the common channel into its empty hand: every     *)
(* place of the common channel comes one nearer.                             *)
LEMMA StoreTakeStep ==
  ASSUME StreamInv, StoreTake
  PROVE  StreamInv'
<1>1. PipelineTypeOK /\ PipelineTypeOK'
  BY PipelineStepType DEF StreamInv, PipelineStep
<1>2. /\ adding = NoDoc /\ adding' = Head(outCh) /\ outCh' = Tail(outCh) /\ outCh # <<>>
      /\ held' = held /\ ch' = ch /\ sent' = sent /\ stored' = stored
  BY DEF StoreTake
<1>3. PICK m \in Nat : m = Len(outCh)
  BY <1>1 DEF PipelineTypeOK
<1>4. /\ m \in 1 .. ChCap /\ Len(outCh') = m - 1
      /\ adding' = outCh[1]
      /\ \A i \in 1 .. m - 1 : outCh'[i] = outCh[i + 1]
      /\ \A i \in 1 .. m : outCh[i] # NoDoc
  <2>1. outCh \in Seq(Doc) /\ Len(outCh) <= ChCap
    BY <1>1 DEF PipelineTypeOK
  <2> QED
    BY <1>2, <1>3, <2>1, NoDocAssumption
<1>5. OwnDocs'
  BY <1>2 DEF StreamInv, OwnDocs
<1>6. ASSUME NEW s \in Source PROVE InOrder(s)'
  <2> DEFINE to == [p \in Place |-> IF p \in 1 .. ChCap THEN p - 1 ELSE p]
  <2>1. to \in [Place -> Place]
    BY DEF Place
  <2>2. \A p \in Place : to[p] = IF p \in 1 .. ChCap THEN p - 1 ELSE p
    OBVIOUS
  <2> HIDE DEF to
  <2>3. ASSUME NEW p \in Place, p > ChCap
        PROVE  At(s, p)' = At(s, p) /\ to[p] = p
    BY <1>2, <2>2, <2>3 DEF At, Place
  <2>4. ASSUME NEW p \in Place, p <= ChCap, Has(s, p)
        PROVE  p \in 1 .. m /\ to[p] = p - 1 /\ At(s, p) = outCh[p]
    BY <1>2, <1>3, <1>4, <2>2, <2>4 DEF At, Place, Has
  <2>5. ASSUME NEW i \in 1 .. m
        PROVE  At(s, i - 1)' = outCh[i] /\ At(s, i) = outCh[i] /\ i \in Place
    BY <1>3, <1>4 DEF At, Place
  <2>6. ASSUME NEW p \in Place, Has(s, p)
        PROVE  Has(s, to[p])' /\ At(s, to[p])' = At(s, p)
    <3>1. At(s, to[p])' = At(s, p)
      BY <2>3, <2>4, <2>5, <2>6 DEF Place
    <3> QED
      BY <2>6, <3>1 DEF Has
  <2>7. ASSUME NEW q \in Place, Has(s, q)'
        PROVE  \E p \in Place : Has(s, p) /\ to[p] = q
    <3>1. CASE q > ChCap
      BY <2>3, <2>7, <3>1 DEF Has
    <3>2. CASE q <= ChCap
      <4>1. q + 1 \in 1 .. m
        BY <1>4, <2>7, <3>2 DEF Has, At, Place
      <4>2. At(s, q)' = At(s, q + 1) /\ q + 1 \in Place /\ to[q + 1] = q
        <5>1. PICK i \in 1 .. m : i = q + 1
          BY <4>1
        <5>2. i - 1 = q /\ i \in 1 .. ChCap
          BY <1>4, <5>1 DEF Place
        <5> QED
          BY <2>2, <2>5, <5>1, <5>2
      <4> QED
        BY <2>7, <4>2 DEF Has
    <3> QED
      BY <3>1, <3>2 DEF Place
  <2>8. ASSUME NEW p \in Place, NEW q \in Place, Has(s, p), Has(s, q), p < q
        PROVE  to[p] < to[q]
    <3>1. p > 0
      BY <1>2, <2>8 DEF Has, At, Place
    <3> QED
      BY <2>2, <2>8, <3>1 DEF Place
  <2> QED
    BY <1>2, <2>1, <2>6, <2>7, <2>8, Moved DEF StreamInv
<1> QED
  BY <1>1, <1>5, <1>6 DEF StreamInv

(* What store passes on is the document that follows the last one stored of  *)
(* its monitor: all the others of that monitor are behind it.                *)
LEMMA StoreAddStep ==
  ASSUME StreamInv, StoreAdd
  PROVE  StreamInv' /\ \E s \in Source : Stream!Store(s)
<1>1. PipelineTypeOK /\ PipelineTypeOK'
  BY PipelineStepType DEF StreamInv, PipelineStep
<1>2. PICK s \in Source : s = adding.src
  BY <1>1 DEF StoreAdd, PipelineTypeOK, Doc
<1>3. PICK m \in 0 .. Wrap - 1 : m = adding.n
  BY <1>1 DEF StoreAdd, PipelineTypeOK, Doc
<1>4. /\ adding # NoDoc /\ adding' = NoDoc
      /\ stored' = [stored EXCEPT ![s] = m] /\ stored'[s] = m
      /\ \A t \in Source : t # s => stored'[t] = stored[t]
      /\ held' = held /\ ch' = ch /\ sent' = sent /\ outCh' = outCh
  BY <1>1, <1>2, <1>3 DEF StoreAdd, PipelineTypeOK
<1>5. OwnDocs'
  BY <1>4 DEF StreamInv, OwnDocs
<1>6. ASSUME NEW t \in Source
      PROVE  /\ At(t, 0) = adding /\ At(t, 0)' = NoDoc /\ 0 \in Place
             /\ \A p \in Place : p # 0 => At(t, p)' = At(t, p)
  BY <1>4 DEF At, Place
<1>7. ASSUME NEW t \in Source
      PROVE  /\ ~ Has(t, 0)'
             /\ \A p \in Place : p # 0 => (Has(t, p)' <=> Has(t, p))
  BY <1>6 DEF Has
<1>8. Has(s, 0) /\ Rank(s, 0) = Ahead(s, m)
  BY <1>2, <1>3, <1>4, <1>6 DEF Has, Rank
<1>9. Ahead(s, m) = 1 /\ UnderWay(s) > 0
  <2>1. Rank(s, 0) \in 1 .. UnderWay(s) /\ UnderWay(s) \in Nat
    BY <1>1, <1>6, <1>8, AheadType DEF StreamInv, InOrder
  <2>2. PICK p \in Place : Has(s, p) /\ Rank(s, p) = 1
    BY <2>1 DEF StreamInv, InOrder
  <2>3. p = 0
    <3> SUFFICES ASSUME p # 0 PROVE FALSE
      OBVIOUS
    <3>1. 0 < p
      BY DEF Place
    <3>2. Rank(s, 0) < Rank(s, p)
      BY <1>6, <1>8, <2>2, <3>1 DEF StreamInv, InOrder
    <3> QED
      BY <2>1, <2>2, <3>2
  <2> QED
    BY <1>8, <2>1, <2>2, <2>3
<1>10. /\ m = (stored[s] + 1) % Wrap
       /\ \A n \in 0 .. Wrap - 1 : Ahead(s, n) > 0 => Ahead(s, n)' = Ahead(s, n) - 1
  BY <1>1, <1>4, <1>9, AheadStored
<1>11. Stream!Store(s)
  <2>1. Stream!UnderWay(s) = UnderWay(s)
    BY DEF Stream!UnderWay, UnderWay, Ahead
  <2> QED
    BY <1>4, <1>9, <1>10, <2>1 DEF Stream!Store
<1>12. ASSUME NEW t \in Source, t # s PROVE InOrder(t)'
  <2>1. ~ Has(t, 0)
    BY <1>2, <1>6, <1>12 DEF Has
  <2> DEFINE to == [p \in Place |-> p]
  <2>2. to \in [Place -> Place] /\ \A p \in Place : to[p] = p
    OBVIOUS
  <2> HIDE DEF to
  <2>3. \A p \in Place : Has(t, p) => p # 0
    BY <2>1
  <2>4. \A p \in Place : Has(t, p)' <=> Has(t, p)
    BY <1>7, <2>1
  <2> QED
    BY <1>4, <1>6, <1>12, <2>2, <2>3, <2>4, Moved DEF StreamInv
<1>13. InOrder(s)'
  <2>1. UnderWay(s)' = UnderWay(s) - 1 /\ UnderWay(s) \in Nat \ {0}
    <3>1. sent[s] \in 0 .. Wrap - 1 /\ UnderWay(s) \in Nat
      BY <1>1, AheadType DEF PipelineTypeOK
    <3> QED
      BY <1>4, <1>9, <1>10, <3>1 DEF UnderWay
  <2>2. ASSUME NEW p \in Place, Has(s, p), p # 0
        PROVE  Rank(s, p)' = Rank(s, p) - 1 /\ Rank(s, p) \in 2 .. UnderWay(s)
    <3>1. At(s, p).n \in 0 .. Wrap - 1 /\ At(s, p)' = At(s, p)
      BY <1>1, <1>6, <2>2, RankType
    <3>2. Rank(s, p) \in 1 .. UnderWay(s) /\ Rank(s, 0) < Rank(s, p)
      BY <1>6, <1>8, <2>2 DEF StreamInv, InOrder, Place
    <3>3. Rank(s, p) \in 2 .. UnderWay(s)
      BY <1>8, <1>9, <2>1, <3>2
    <3> QED
      BY <1>10, <2>1, <3>1, <3>3 DEF Rank
  <2>3. ASSUME NEW p \in Place, Has(s, p)' PROVE Rank(s, p)' \in 1 .. UnderWay(s)'
    BY <1>7, <2>1, <2>2, <2>3
  <2>4. ASSUME NEW p \in Place, NEW q \in Place, Has(s, p)', Has(s, q)', p < q
        PROVE  Rank(s, p)' < Rank(s, q)'
    <3>1. /\ Has(s, p) /\ Has(s, q) /\ p # 0 /\ q # 0
      BY <1>7, <2>4
    <3>2. Rank(s, p) < Rank(s, q)
      BY <2>4, <3>1 DEF StreamInv, InOrder
    <3> QED
      BY <2>1, <2>2, <3>1, <3>2
  <2>5. ASSUME NEW k \in 1 .. UnderWay(s)'
        PROVE  \E p \in Place : Has(s, p)' /\ Rank(s, p)' = k
    <3>1. k + 1 \in 1 .. UnderWay(s) /\ k + 1 # 1
      BY <2>1, <2>5
    <3>2. PICK p \in Place : Has(s, p) /\ Rank(s, p) = k + 1
      BY <3>1 DEF StreamInv, InOrder
    <3>3. p # 0
      BY <1>8, <1>9, <3>1, <3>2
    <3> QED
      BY <1>7, <2>1, <2>2, <3>2, <3>3, <2>5
  <2> QED
    BY <2>3, <2>4, <2>5 DEF InOrder
<1> QED
  BY <1>1, <1>5, <1>11, <1>12, <1>13 DEF StreamInv

(* Steps that leave the path alone, and store connecting                    *)
LEMMA PathKept ==
  ASSUME StreamInv, UNCHANGED <<sent, ch, held, outCh, adding, stored>>,
         PipelineTypeOK'
  PROVE  StreamInv'
<1>1. OwnDocs'
  BY DEF StreamInv, OwnDocs
<1>2. ASSUME NEW s \in Source PROVE InOrder(s)'
  <2>1. \A p \in Place : At(s, p)' = At(s, p)
    BY DEF At
  <2> QED
    BY <2>1, Untouched DEF StreamInv
<1> QED
  BY <1>1, <1>2 DEF StreamInv

(* Every step of merger and store keeps the documents in order and is a step *)
(* of DocStream or leaves what it promises unchanged.                        *)
LEMMA PipelineStepStream ==
  ASSUME StreamInv, PipelineStep
  PROVE  StreamInv' /\ [Stream!Next]_(Stream!vars)
<1>1. PipelineTypeOK'
  BY PipelineStepType DEF StreamInv
<1>2. ASSUME NEW s \in Source, MergeTake(s) \/ MergePut(s)
      PROVE  StreamInv' /\ UNCHANGED Stream!vars
  BY <1>2, MergeTakeStep, MergePutStep DEF MergeTake, MergePut, Stream!vars
<1>3. CASE StoreConnects
  BY <1>1, <1>3, PathKept DEF StoreConnects, Stream!vars
<1>4. CASE StoreTake
  BY <1>4, StoreTakeStep DEF StoreTake, Stream!vars
<1>5. CASE StoreAdd
  BY <1>5, StoreAddStep DEF Stream!Next
<1> QED
  BY <1>2, <1>3, <1>4, <1>5 DEF PipelineStep

LEMMA StreamInit == PipelineInit => Stream!Init
  BY DEF PipelineInit, Stream!Init

(* The same of every step, with the monitors' sends *)
LEMMA PipelineNextStream ==
  ASSUME Numbered, StreamInv, [PipelineNext]_pipelineVars
  PROVE  StreamInv' /\ [Stream!Next]_(Stream!vars)
<1>1. ASSUME NEW s \in Source, Send(s) PROVE StreamInv' /\ Stream!Next
  BY <1>1, SendStep DEF Stream!Next
<1>2. CASE PipelineStep
  BY <1>2, PipelineStepStream
<1>3. CASE UNCHANGED pipelineVars
  <2>1. PipelineTypeOK'
    BY <1>3 DEF StreamInv, PipelineTypeOK, pipelineVars
  <2> QED
    BY <1>3, <2>1, PathKept DEF pipelineVars, Stream!vars
<1> QED
  BY <1>1, <1>2, <1>3 DEF PipelineNext

(* The path between the monitors and the document store implements           *)
(* DocStream: merger's goroutines compete for one channel, and still every   *)
(* monitor's documents are stored in the order in which it sent them, none   *)
(* lost, none twice, at most 2 * ChCap + 2 under way: moniOne, merger, store *)
THEOREM PipelineImplementsDocStream ==
  ASSUME Numbered
  PROVE  PipelineSpec => ImplementsDocStream
<1>1. PipelineInit => StreamInv /\ Stream!Init
  BY StreamInvInit, StreamInit
<1>2. StreamInv /\ [PipelineNext]_pipelineVars => StreamInv' /\ [Stream!Next]_(Stream!vars)
  BY PipelineNextStream
<1> QED
  BY <1>1, <1>2, PTL DEF PipelineSpec, ImplementsDocStream, Stream!Spec

=============================================================================
