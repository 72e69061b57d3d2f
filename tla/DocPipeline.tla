------------------------------ MODULE DocPipeline ------------------------------
(***************************************************************************)
(* The path of measured documents through an agent (agent/agent.go): each  *)
(* monitor sends into a buffered channel of its own; merger runs one       *)
(* goroutine per channel that moves documents into a common channel; store *)
(* takes them from there and hands them to the bulk processor of the       *)
(* ElasticSearch client.  A full channel blocks its sender.                *)
(***************************************************************************)
EXTENDS Naturals, Sequences

CONSTANTS
  Source,   \* the channels that merger is given
  NoDoc,    \* "holds no document"
  ChCap,    \* capacity of the channels, 5 in the code
  Wrap      \* documents are numbered modulo Wrap; 1 where numbers do not matter

ASSUME PipelineAssumption ==
  /\ ChCap \in Nat \ {0}
  /\ Wrap \in Nat \ {0}

Doc == [src : Source, n : 0 .. Wrap - 1]

ASSUME NoDocAssumption == NoDoc \notin Doc

VARIABLES
  ready,    \* store has its client, its index and its bulk processor
  sent,     \* the number of the last document each monitor has sent
  ch,       \* the monitors' channels
  held,     \* what each goroutine of merger holds
  outCh,    \* the channel merger returns
  adding,   \* the document store has taken and passes to bulk.Add
  stored    \* the number of the last document of each monitor passed on

pipelineVars == <<ready, sent, ch, held, outCh, adding, stored>>

PipelineTypeOK ==
  /\ ready \in BOOLEAN
  /\ sent \in [Source -> 0 .. Wrap - 1]
  /\ ch \in [Source -> Seq(Doc)]
  /\ \A s \in Source : Len(ch[s]) <= ChCap
  /\ held \in [Source -> Doc \cup {NoDoc}]
  /\ outCh \in Seq(Doc)
  /\ Len(outCh) <= ChCap
  /\ adding \in Doc \cup {NoDoc}
  /\ stored \in [Source -> 0 .. Wrap - 1]

PipelineInit ==
  /\ ready = FALSE
  /\ sent = [s \in Source |-> 0]
  /\ ch = [s \in Source |-> <<>>]
  /\ held = [s \in Source |-> NoDoc]
  /\ outCh = <<>>
  /\ adding = NoDoc
  /\ stored = [s \in Source |-> 0]

(* Mutated Send: the channel is taken for an unbounded one *)
SendUnbounded(s) ==
  /\ LET n == (sent[s] + 1) % Wrap IN
       /\ sent' = [sent EXCEPT ![s] = n]
       /\ ch' = [ch EXCEPT ![s] = Append(@, [src |-> s, n |-> n])]
  /\ UNCHANGED <<ready, held, outCh, adding, stored>>

(* docCh <- doc in a monitor *)
Send(s) ==
  /\ Len(ch[s]) < ChCap
  /\ LET n == (sent[s] + 1) % Wrap IN
       /\ sent' = [sent EXCEPT ![s] = n]
       /\ ch' = [ch EXCEPT ![s] = Append(@, [src |-> s, n |-> n])]
  /\ UNCHANGED <<ready, held, outCh, adding, stored>>

(* for doc := range c *)
MergeTake(s) ==
  /\ held[s] = NoDoc
  /\ ch[s] # <<>>
  /\ held' = [held EXCEPT ![s] = Head(ch[s])]
  /\ ch' = [ch EXCEPT ![s] = Tail(@)]
  /\ UNCHANGED <<ready, sent, outCh, adding, stored>>

(* Mutated MergePut: what does not fit is dropped *)
MergePutOrDrop(s) ==
  /\ held[s] # NoDoc
  /\ outCh' = IF Len(outCh) < ChCap THEN Append(outCh, held[s]) ELSE outCh
  /\ held' = [held EXCEPT ![s] = NoDoc]
  /\ UNCHANGED <<ready, sent, ch, adding, stored>>

(* outCh <- doc *)
MergePut(s) ==
  /\ held[s] # NoDoc
  /\ Len(outCh) < ChCap
  /\ outCh' = Append(outCh, held[s])
  /\ held' = [held EXCEPT ![s] = NoDoc]
  /\ UNCHANGED <<ready, sent, ch, adding, stored>>

(* store has connected; if it cannot, the agent ends (AgentMonitor) *)
StoreConnects ==
  /\ ~ready
  /\ ready' = TRUE
  /\ UNCHANGED <<sent, ch, held, outCh, adding, stored>>

(* Mutated StoreTake: the loop waits for the channel to fill, as for a batch *)
StoreTakeBatch ==
  /\ ready
  /\ adding = NoDoc
  /\ Len(outCh) = ChCap
  /\ adding' = Head(outCh)
  /\ outCh' = Tail(outCh)
  /\ UNCHANGED <<ready, sent, ch, held, stored>>

StoreTake ==
  /\ ready
  /\ adding = NoDoc
  /\ outCh # <<>>
  /\ adding' = Head(outCh)
  /\ outCh' = Tail(outCh)
  /\ UNCHANGED <<ready, sent, ch, held, stored>>

(* bulk.Add returns: BulkActions(1), so nothing waits for a second document *)
StoreAdd ==
  /\ adding # NoDoc
  /\ stored' = [stored EXCEPT ![adding.src] = adding.n]
  /\ adding' = NoDoc
  /\ UNCHANGED <<ready, sent, ch, held, outCh>>

PipelineStep ==
  \/ \E s \in Source : MergeTake(s) \/ MergePut(s)
  \/ StoreConnects
  \/ StoreTake
  \/ StoreAdd

(* Monitors that send whenever their channel has room *)
PipelineNext == (\E s \in Source : Send(s)) \/ PipelineStep

(* Go queues the senders blocked on a channel, so none is passed over for   *)
(* ever: strong fairness.  bulk.Add returns.                                *)
PipelineFairness ==
  /\ \A s \in Source : WF_pipelineVars(MergeTake(s)) /\ SF_pipelineVars(MergePut(s))
  /\ WF_pipelineVars(StoreConnects)
  /\ WF_pipelineVars(StoreTake)
  /\ WF_pipelineVars(StoreAdd)

PipelineSpec == PipelineInit /\ [][PipelineNext]_pipelineVars /\ PipelineFairness

-----------------------------------------------------------------------------
(* Every monitor's documents are stored in order, without loss and without  *)
(* repetition, though two goroutines of merger compete for one channel; at  *)
(* most two channels full, one in merger's hand and one in store's are      *)
(* under way.  Wrap must exceed that.                                       *)
Stream == INSTANCE DocStream WITH Window <- 2 * ChCap + 2

ImplementsDocStream == Stream!Spec

(* Every document that was sent is stored, whatever the other monitor sends: *)
(* neither monitor is shut out of the common channel.                        *)
DocsArrive ==
  \A s \in Source : \A n \in 0 .. Wrap - 1 : sent[s] = n ~> stored[s] = n

=============================================================================
