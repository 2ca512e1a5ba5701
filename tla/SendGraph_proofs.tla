-------------------------- MODULE SendGraph_proofs --------------------------
(***************************************************************************)
(* Proofs about SendGraph, for every number of channels, returns, slots    *)
(* and calls, and for hosts of both kinds, except where a theorem says     *)
(* ~Prompt: that no host destroys a return while mail that will still be   *)
(* read names it.  What Generations computes matters to the last two only.  *)
(***************************************************************************)
EXTENDS SendGraph, SequenceTheorems, FiniteSetTheorems, WellFoundedInduction, TLAPS

(***************************************************************************)
(* The returns of the wiring graph exist                                   *)
(***************************************************************************)

Lifetimes == {"absent", "alive", "gone"}
Statuses == {"absent", "created", "setup", "ready", "delete"}

\* What makes NodesAlive inductive: an interface keeps its implementation from
\* being released, and ~channel() takes a return out of the graph before it
\* lets go.
LifeInv ==
  /\ life \in [Channels -> Lifetimes]
  /\ status \in [Channels -> Statuses]
  /\ head \in [Channels -> BOOLEAN]
  /\ nodes \subseteq Returns
  /\ \A c \in Channels : life[c] = "alive" => head[c]
  /\ \A c \in Channels : head[c] => Live(c)
  /\ \A r \in nodes : life[r] = "alive"
  /\ call.at = "release" => call.from \notin nodes

\* Nothing is alive or wired at first.
LEMMA LifeInit == Init => LifeInv
BY DEF Init, LifeInv, Lifetimes, Statuses, Live, Impls, Idle

\* A step of the host keeps it: the destructor unregisters before it lets go.
LEMMA HostKeepsLife ==
  ASSUME LifeInv, Host
  PROVE  LifeInv'
<1> USE SendAssumption DEF LifeInv, Lifetimes, Statuses, Live, Impls, Idle, Calling
<1>1. ASSUME NEW c \in Channels, Create(c) PROVE LifeInv'
  BY <1>1 DEF Create
<1>2. ASSUME NEW c \in Channels, Unregister(c) PROVE LifeInv'
  BY <1>2 DEF Unregister, Recompute, Unregistered, Alive
<1>3. ASSUME NEW c \in Channels, RemoveInterface(c) PROVE LifeInv'
  BY <1>3 DEF RemoveInterface, Alive, wiring
<1>4. ASSUME NEW c \in Channels, NEW s \in Slots, ClearSend(c, s) PROVE LifeInv'
  BY <1>4 DEF ClearSend, DropEdge, Recompute, wiring
<1>5. ASSUME NEW c \in Channels, NEW s \in Slots, NEW r \in Returns, Send(c, s, r)
      PROVE  LifeInv'
  BY <1>5 DEF Send, Recompute, wiring
<1>6. ASSUME SendDrops PROVE LifeInv'
  BY <1>6 DEF SendDrops, DropEdge, Recompute, wiring
<1>7. ASSUME Post PROVE LifeInv'
  BY <1>7 DEF Post, wiring
<1> QED
  BY <1>1, <1>2, <1>3, <1>4, <1>5, <1>6, <1>7 DEF Host

\* A step of the audio thread keeps it: what is released has no interface.
LEMMA AudioKeepsLife ==
  ASSUME LifeInv, AudioThread
  PROVE  LifeInv'
<1> USE DEF LifeInv, Lifetimes, Statuses, Live, Impls, control, wiring
<1>1. CASE BeginUpdate BY <1>1 DEF BeginUpdate
<1>2. CASE Promote BY <1>2 DEF Promote
<1>3. CASE NotReady BY <1>3 DEF NotReady
<1>4. CASE BeginSync BY <1>4 DEF BeginSync
<1>5. CASE Render BY <1>5 DEF Render
<1>6. ASSUME NEW i \in Impls, Sync(i) PROVE LifeInv'
  <2>1. CASE ReadsHead(i) BY <2>1 DEF ReadsHead
  <2>2. CASE ApplyAdd(i) BY <2>2 DEF ApplyAdd
  <2>3. CASE ApplyRemove(i) BY <2>3 DEF ApplyRemove
  <2>4. CASE ApplyGeneration(i) BY <2>4 DEF ApplyGeneration
  <2>5. CASE Synced(i) BY <2>5 DEF Synced
  <2>6. CASE Release(i) BY <2>6 DEF Release
  <2> QED
    BY <1>6, <2>1, <2>2, <2>3, <2>4, <2>5, <2>6 DEF Sync
<1> QED
  BY <1>1, <1>2, <1>3, <1>4, <1>5, <1>6 DEF AudioThread

\* Every behaviour keeps it.
LEMMA LifeInvariant == Spec => []LifeInv
<1>1. LifeInv /\ [Next]_vars => LifeInv'
  <2> SUFFICES ASSUME LifeInv, [Next]_vars PROVE LifeInv'
    OBVIOUS
  <2>1. CASE Host BY <2>1, HostKeepsLife
  <2>2. CASE AudioThread BY <2>2, AudioKeepsLife
  <2>3. ASSUME NEW i \in Impls, Setup(i) PROVE LifeInv'
    BY <2>3 DEF Setup, LifeInv, Lifetimes, Statuses, Live, Impls, control, wiring
  <2>4. CASE UNCHANGED vars
    BY <2>4 DEF vars, LifeInv, Live, control, wiring
  <2> QED
    BY <2>1, <2>2, <2>3, <2>4 DEF Next
<1> QED
  BY LifeInit, <1>1, PTL DEF Spec

\* The host posts generations only into implementations that still exist:
\* recomputeAndPostGenerations() never writes to a mailbox of a freed one.
THEOREM NodesStayAlive == Spec => []NodesAlive
<1>1. LifeInv => NodesAlive
  BY SendAssumption DEF LifeInv, NodesAlive
<1> QED
  BY <1>1, LifeInvariant, PTL

(***************************************************************************)
(* Slots and registries                                                    *)
(***************************************************************************)

\* The values a generation can have.  What Generations computes is not needed.
Layerings == {Generations(N, E) : N \in SUBSET Returns, E \in [Returns \X Returns -> Nat]}
Values == UNION {{g[r] : r \in Returns} : g \in Layerings}

Messages == [id : {"add"}, slot : Slots, to : Returns]
            \union [id : {"remove"}, slot : Slots]
            \union [id : {"generation"}, value : Values]

\* What the audio thread reads is what the host wrote.
Typed ==
  /\ nodes \subseteq Returns /\ edges \in [Returns \X Returns -> Nat]
  /\ mail \in [Impls -> Seq(Messages)]
  /\ call.at \in {"drop", "post"} =>
       call.from \in Channels /\ call.slot \in Slots /\ call.to \in Returns \union {None}
  /\ call.at = "drop" => call.to \in Returns
  /\ target \in [Impls -> [Slots -> Returns \union {None}]]
  /\ registry \in [Impls -> SUBSET SlotRefs]

\* RegistryAgrees, slot by slot
Agree ==
  \A t \in Impls, j \in Impls, s \in Slots : <<j, s>> \in registry[t] <=> target[j][s] = t

\* On typed registries the two are the same.
LEMMA AgreeSlotBySlot ==
  ASSUME Typed, Agree
  PROVE  RegistryAgrees
<1> SUFFICES ASSUME NEW t \in Impls
             PROVE  registry[t] = {ref \in SlotRefs : target[ref[1]][ref[2]] = t}
  BY DEF RegistryAgrees
<1>1. registry[t] \subseteq SlotRefs
  BY DEF Typed
<1>2. ASSUME NEW ref \in SlotRefs
      PROVE  ref \in registry[t] <=> target[ref[1]][ref[2]] = t
  <2>1. PICK j \in Impls, s \in Slots : ref = <<j, s>>
    BY DEF SlotRefs
  <2> QED
    BY <2>1 DEF Agree
<1> QED
  BY <1>1, <1>2

\* At first no slot has a target.
LEMMA RegistryInit == Init => Typed /\ Agree
BY SendAssumption DEF Init, Typed, Agree, Impls, Idle, SlotRefs

\* Posting generations writes generation messages and nothing else.
LEMMA RecomputeTyped ==
  ASSUME Typed, NEW N \in SUBSET Returns, NEW E \in [Returns \X Returns -> Nat], Recompute(N, E)
  PROVE  /\ nodes' \subseteq Returns /\ edges' \in [Returns \X Returns -> Nat]
         /\ mail' \in [Impls -> Seq(Messages)]
<1> DEFINE g == Generations(N, E)
<1>1. ASSUME NEW i \in Returns PROVE SetGeneration(g[i]) \in Messages
  <2>1. g \in Layerings BY DEF Layerings
  <2> HIDE DEF g
  <2>2. g[i] \in Values BY <2>1 DEF Values
  <2> QED BY <2>2 DEF SetGeneration, Messages
<1>2. nodes' = N /\ edges' = E /\ mail' = [i \in Impls |->
       IF i \in N /\ Posts(i, g[i]) THEN Append(mail[i], SetGeneration(g[i])) ELSE mail[i]]
  BY DEF Recompute
<1>3. mail \in [Impls -> Seq(Messages)]
  BY DEF Typed
<1> HIDE DEF g
<1> QED
  BY <1>1, <1>2, <1>3

\* Writing a count keeps counts.
LEMMA CountsExcept ==
  ASSUME NEW S, NEW E \in [S -> Nat], NEW p, NEW v \in Nat
  PROVE  [E EXCEPT ![p] = v] \in [S -> Nat]
OBVIOUS

\* removeReturnEdge() leaves counts.
LEMMA WithoutTyped ==
  ASSUME NEW E \in [Returns \X Returns -> Nat], NEW f, NEW t
  PROVE  Without(E, f, t) \in [Returns \X Returns -> Nat]
<1> DEFINE p == <<f, t>>
           v == IF E[p] > 0 THEN E[p] - 1 ELSE 0
<1>1. CASE p \in Returns \X Returns
  <2>1. E[p] \in Nat BY <1>1
  <2>2. v \in Nat BY <2>1
  <2>3. [E EXCEPT ![p] = v] \in [Returns \X Returns -> Nat]
    <3> HIDE DEF v, p
    <3> QED BY <2>2, CountsExcept
  <2> QED BY <2>3 DEF Without
<1>2. CASE p \notin Returns \X Returns
  <2> DEFINE D == Returns \X Returns
  <2>1. Without(E, f, t) = [E EXCEPT ![p] = v] BY DEF Without
  <2>2. [E EXCEPT ![p] = v] = E
    <3> HIDE DEF p, v, D
    <3> QED BY <1>2 DEF D
  <2> QED BY <2>1, <2>2
<1> QED
  BY <1>1, <1>2

\* The slot's edge goes, or there is none.
LEMMA DropEdgeTyped ==
  ASSUME Typed, NEW c, NEW s, DropEdge(c, s)
  PROVE  /\ nodes' \subseteq Returns /\ edges' \in [Returns \X Returns -> Nat]
         /\ mail' \in [Impls -> Seq(Messages)]
<1>1. CASE mirror[c][s].edge
  <2>1. Without(edges, c, mirror[c][s].to) \in [Returns \X Returns -> Nat]
    BY WithoutTyped DEF Typed
  <2>2. nodes \in SUBSET Returns
    BY DEF Typed
  <2>3. Recompute(nodes, Without(edges, c, mirror[c][s].to))
    BY <1>1 DEF DropEdge
  <2> QED
    BY <2>1, <2>2, <2>3, RecomputeTyped
<1>2. CASE ~mirror[c][s].edge
  BY <1>2 DEF DropEdge, Typed, wiring
<1> QED
  BY <1>1, <1>2

\* Writing to a mailbox
LEMMA MailAppend ==
  ASSUME NEW S, NEW m \in [S -> Seq(Messages)], NEW i \in S, NEW x \in Messages
  PROVE  [m EXCEPT ![i] = Append(@, x)] \in [S -> Seq(Messages)]
OBVIOUS

\* and reading from one.
LEMMA MailTail ==
  ASSUME NEW S, NEW m \in [S -> Seq(Messages)], NEW i \in S, m[i] # <<>>
  PROVE  /\ [m EXCEPT ![i] = Tail(@)] \in [S -> Seq(Messages)]
         /\ Head(m[i]) \in Messages
<1>1. Tail(m[i]) \in Seq(Messages) /\ Head(m[i]) \in Messages
  BY HeadTailProperties
<1> QED
  BY <1>1

\* The host writes only what the audio thread can read.
LEMMA HostKeepsTyped ==
  ASSUME Typed, Host
  PROVE  Typed'
<1> USE SendAssumption DEF Impls, Calling, Idle
<1>0. UNCHANGED sends
  BY DEF Host, Create, Unregister, RemoveInterface, ClearSend, Send, SendDrops, Post
<1>1. ASSUME NEW c \in Channels, Create(c) PROVE Typed'
  BY <1>0, <1>1 DEF Create, Typed, sends
<1>2. ASSUME NEW c \in Channels, Unregister(c) PROVE Typed'
  <2>1. Unregistered(c) \in SUBSET Returns
    BY DEF Unregistered, Typed
  <2>2. WithoutReturn(c) \in [Returns \X Returns -> Nat]
    BY DEF WithoutReturn, Typed
  <2>3. Recompute(Unregistered(c), WithoutReturn(c))
    BY <1>2 DEF Unregister
  <2>4. /\ nodes' \subseteq Returns /\ edges' \in [Returns \X Returns -> Nat]
        /\ mail' \in [Impls -> Seq(Messages)]
    BY <2>1, <2>2, <2>3, RecomputeTyped
  <2>5. call'.at = "release"
    BY <1>2 DEF Unregister
  <2> QED
    BY <1>0, <2>4, <2>5 DEF Typed, sends
<1>3. ASSUME NEW c \in Channels, RemoveInterface(c) PROVE Typed'
  BY <1>0, <1>3 DEF RemoveInterface, Typed, sends, wiring
<1>4. ASSUME NEW c \in Channels, NEW s \in Slots, ClearSend(c, s) PROVE Typed'
  <2>1. /\ nodes' \subseteq Returns /\ edges' \in [Returns \X Returns -> Nat]
        /\ mail' \in [Impls -> Seq(Messages)]
    BY <1>4, DropEdgeTyped DEF ClearSend
  <2>2. call' = [at |-> "post", from |-> c, slot |-> s, to |-> None]
    BY <1>4 DEF ClearSend
  <2> QED
    BY <1>0, <2>1, <2>2 DEF Typed, sends
<1>5. ASSUME NEW c \in Channels, NEW s \in Slots, NEW r \in Returns, Send(c, s, r)
      PROVE  Typed'
  <2>1. /\ nodes' \subseteq Returns /\ edges' \in [Returns \X Returns -> Nat]
        /\ mail' \in [Impls -> Seq(Messages)]
    <3>1. CASE UNCHANGED <<wiring, mail>>
      BY <3>1 DEF wiring, Typed
    <3>2. CASE c \in Returns /\ Recompute(nodes, [edges EXCEPT ![<<c, r>>] = @ + 1])
      <4>1. edges[<<c, r>>] + 1 \in Nat
        BY <3>2 DEF Typed
      <4>2. [edges EXCEPT ![<<c, r>>] = @ + 1] \in [Returns \X Returns -> Nat]
        BY <4>1 DEF Typed
      <4>3. nodes \in SUBSET Returns
        BY DEF Typed
      <4> QED
        BY <3>2, <4>2, <4>3, RecomputeTyped
    <3> QED
      BY <1>5, <3>1, <3>2 DEF Send
  <2>2. call' = [at |-> "drop", from |-> c, slot |-> s, to |-> r]
    BY <1>5 DEF Send
  <2> QED
    BY <1>0, <2>1, <2>2 DEF Typed, sends
<1>6. ASSUME SendDrops PROVE Typed'
  <2>1. /\ nodes' \subseteq Returns /\ edges' \in [Returns \X Returns -> Nat]
        /\ mail' \in [Impls -> Seq(Messages)]
    BY <1>6, DropEdgeTyped DEF SendDrops
  <2>2. /\ call.at = "drop"
        /\ call' = [at |-> "post", from |-> call.from, slot |-> call.slot, to |-> call.to]
    BY <1>6 DEF SendDrops
  <2> QED
    BY <1>0, <2>1, <2>2 DEF Typed, sends
<1>7. ASSUME Post PROVE Typed'
  <2> DEFINE x == IF call.to = None THEN RemoveSend(call.slot) ELSE AddSend(call.slot, call.to)
  <2>1. call.from \in Channels /\ x \in Messages
    BY <1>7 DEF Post, Typed, Messages, RemoveSend, AddSend
  <2>2. mail' = [mail EXCEPT ![call.from] = Append(@, x)] /\ call'.at = "idle"
    BY <1>7 DEF Post
  <2>3. mail \in [Impls -> Seq(Messages)]
    BY DEF Typed
  <2> HIDE DEF x
  <2>4. mail' \in [Impls -> Seq(Messages)]
    BY <2>1, <2>2, <2>3, MailAppend
  <2>5. UNCHANGED <<nodes, edges>>
    BY <1>7 DEF Post, wiring
  <2> QED
    BY <1>0, <2>2, <2>4, <2>5 DEF Typed, sends
<1> QED
  BY <1>1, <1>2, <1>3, <1>4, <1>5, <1>6, <1>7 DEF Host

\* The host does not touch what is the audio thread's.
LEMMA HostLeavesAudio ==
  ASSUME Host
  PROVE  UNCHANGED <<audio, toLoad, inUse, children, returns, target, registry, gen, built>>
<1> USE DEF lists, sends, graph
<1>1. ASSUME NEW c \in Channels, Create(c) \/ Unregister(c) \/ RemoveInterface(c)
      PROVE  UNCHANGED <<audio, lists, sends, graph>>
  BY <1>1 DEF Create, Unregister, RemoveInterface
<1>2. ASSUME NEW c \in Channels, NEW s \in Slots, NEW r \in Returns, Send(c, s, r)
      PROVE  UNCHANGED <<audio, lists, sends, graph>>
  BY <1>2 DEF Send
<1>3. ASSUME NEW c \in Channels, NEW s \in Slots, ClearSend(c, s)
      PROVE  UNCHANGED <<audio, lists, sends, graph>>
  BY <1>3 DEF ClearSend
<1>4. CASE SendDrops BY <1>4 DEF SendDrops
<1>5. CASE Post BY <1>5 DEF Post
<1> QED
  BY <1>1, <1>2, <1>3, <1>4, <1>5 DEF Host

LEMMA HostKeepsAgree ==
  ASSUME Agree, Host
  PROVE  Agree'
BY HostLeavesAudio DEF Agree

\* parseMessage() moves a slot from one registry to the other.
LEMMA ApplyAddKeeps ==
  ASSUME Typed, Agree, NEW i \in Impls, ApplyAdd(i)
  PROVE  Typed' /\ Agree'
<1> DEFINE s == Head(mail[i]).slot
           r == Head(mail[i]).to
<1>1. mail \in [Impls -> Seq(Messages)] /\ mail[i] # <<>> /\ Head(mail[i]).id = "add"
  BY DEF Typed, ApplyAdd
<1>2. Head(mail[i]) \in Messages /\ [mail EXCEPT ![i] = Tail(@)] \in [Impls -> Seq(Messages)]
  BY <1>1, MailTail
<1>3. s \in Slots /\ r \in Returns
  BY <1>1, <1>2 DEF Messages
<1>4. UNCHANGED <<nodes, edges, call>> /\ mail' = [mail EXCEPT ![i] = Tail(@)]
  BY DEF ApplyAdd, control, wiring
<1>5. /\ target' = [target EXCEPT ![i][s] = r]
      /\ registry' = [t \in Impls |->
           IF t = r THEN registry[t] \union {<<i, s>>}
           ELSE IF t = target[i][s] THEN registry[t] \ {<<i, s>>}
           ELSE registry[t]]
  BY DEF ApplyAdd, Retargets
<1> HIDE DEF s, r
<1>6. <<i, s>> \in SlotRefs
  BY <1>3 DEF SlotRefs
<1>7. Typed'
  BY <1>2, <1>3, <1>4, <1>5, <1>6 DEF Typed
<1>8. Agree'
  <2> SUFFICES ASSUME NEW t \in Impls, NEW j \in Impls, NEW u \in Slots
               PROVE  <<j, u>> \in registry'[t] <=> target'[j][u] = t
    BY DEF Agree
  <2>1. <<j, u>> \in registry[t] <=> target[j][u] = t
    BY DEF Agree
  <2>2. CASE j = i /\ u = s
    <3>1. target'[j][u] = r
      BY <2>2, <1>3, <1>5 DEF Typed
    <3> QED
      BY <2>1, <2>2, <3>1, <1>5
  <2>3. CASE ~(j = i /\ u = s)
    <3>1. target'[j][u] = target[j][u]
      BY <2>3, <1>3, <1>5 DEF Typed
    <3>2. <<j, u>> # <<i, s>>
      BY <2>3
    <3>3. <<j, u>> \in registry'[t] <=> <<j, u>> \in registry[t]
      BY <3>2, <1>5
    <3> QED
      BY <2>1, <3>1, <3>3
  <2> QED
    BY <2>2, <2>3
<1> QED
  BY <1>7, <1>8

\* And out of one, when the slot is cleared.
LEMMA ApplyRemoveKeeps ==
  ASSUME Typed, Agree, NEW i \in Impls, ApplyRemove(i)
  PROVE  Typed' /\ Agree'
<1> DEFINE s == Head(mail[i]).slot
<1>1. mail \in [Impls -> Seq(Messages)] /\ mail[i] # <<>> /\ Head(mail[i]).id = "remove"
  BY DEF Typed, ApplyRemove
<1>2. Head(mail[i]) \in Messages /\ [mail EXCEPT ![i] = Tail(@)] \in [Impls -> Seq(Messages)]
  BY <1>1, MailTail
<1>3. s \in Slots
  BY <1>1, <1>2 DEF Messages
<1>4. UNCHANGED <<nodes, edges, call>> /\ mail' = [mail EXCEPT ![i] = Tail(@)]
  BY DEF ApplyRemove, control, wiring
<1>5. /\ target' = [target EXCEPT ![i][s] = None]
      /\ registry' = [t \in Impls |->
           IF t = target[i][s] THEN registry[t] \ {<<i, s>>} ELSE registry[t]]
  BY DEF ApplyRemove
<1> HIDE DEF s
<1>7. Typed'
  BY <1>2, <1>3, <1>4, <1>5 DEF Typed
<1>8. Agree'
  <2> SUFFICES ASSUME NEW t \in Impls, NEW j \in Impls, NEW u \in Slots
               PROVE  <<j, u>> \in registry'[t] <=> target'[j][u] = t
    BY DEF Agree
  <2>1. <<j, u>> \in registry[t] <=> target[j][u] = t
    BY DEF Agree
  <2>2. CASE j = i /\ u = s
    <3>1. target'[j][u] = None
      BY <2>2, <1>3, <1>5 DEF Typed
    <3>2. None # t
      BY SendAssumption DEF Impls
    <3> QED
      BY <2>1, <2>2, <3>1, <3>2, <1>5
  <2>3. CASE ~(j = i /\ u = s)
    <3>1. target'[j][u] = target[j][u]
      BY <2>3, <1>3, <1>5 DEF Typed
    <3>2. <<j, u>> # <<i, s>>
      BY <2>3
    <3>3. <<j, u>> \in registry'[t] <=> <<j, u>> \in registry[t]
      BY <3>2, <1>5
    <3> QED
      BY <2>1, <3>1, <3>3
  <2> QED
    BY <2>2, <2>3
<1> QED
  BY <1>7, <1>8

\* detachSends() cuts off the slots the registry names, and the registries the
\* slots name.
LEMMA ReleaseKeeps ==
  ASSUME Typed, Agree, NEW i \in Impls, Release(i)
  PROVE  Typed' /\ Agree'
<1>1. UNCHANGED <<nodes, edges, call>> /\ mail' = [mail EXCEPT ![i] = <<>>]
  BY DEF Release, control, wiring
<1>2. /\ target' = [j \in Impls |-> [s \in Slots |->
           IF j = i \/ <<j, s>> \in registry[i] THEN None ELSE target[j][s]]]
      /\ registry' = [t \in Impls |->
           IF t = i THEN {} ELSE registry[t] \ ({i} \X Slots)]
  BY DEF Release, DetachSends, CutOff
<1>3. Typed'
  BY <1>1, <1>2 DEF Typed
<1>4. Agree'
  <2> SUFFICES ASSUME NEW t \in Impls, NEW j \in Impls, NEW s \in Slots
               PROVE  <<j, s>> \in registry'[t] <=> target'[j][s] = t
    BY DEF Agree
  <2>1. /\ <<j, s>> \in registry[t] <=> target[j][s] = t
        /\ <<j, s>> \in registry[i] <=> target[j][s] = i
    BY DEF Agree
  <2>2. None # t
    BY SendAssumption DEF Impls
  <2>3. <<j, s>> \in {i} \X Slots <=> j = i
    OBVIOUS
  <2>4. target'[j][s] = IF j = i \/ target[j][s] = i THEN None ELSE target[j][s]
    BY <1>2, <2>1
  <2>5. <<j, s>> \in registry'[t] <=> t # i /\ <<j, s>> \in registry[t] /\ j # i
    BY <1>2, <2>3
  <2> QED
    BY <2>1, <2>2, <2>4, <2>5
<1> QED
  BY <1>3, <1>4

\* Every other step of the audio thread leaves slots and registries alone.
LEMMA AudioKeepsRegistry ==
  ASSUME Typed, Agree, AudioThread
  PROVE  Typed' /\ Agree'
<1> USE DEF control, wiring
<1>1. CASE UNCHANGED <<nodes, edges, call, mail, sends>>
  BY <1>1 DEF Typed, Agree, sends
<1>2. ASSUME NEW i \in Impls, ApplyGeneration(i) PROVE Typed' /\ Agree'
  <2>1. mail \in [Impls -> Seq(Messages)] /\ mail[i] # <<>>
    BY <1>2 DEF Typed, ApplyGeneration
  <2>2. mail' \in [Impls -> Seq(Messages)]
    BY <1>2, <2>1, MailTail DEF ApplyGeneration
  <2>3. UNCHANGED <<nodes, edges, call, sends>>
    BY <1>2 DEF ApplyGeneration
  <2> QED
    BY <2>2, <2>3 DEF Typed, Agree, sends
<1>3. CASE BeginUpdate \/ Promote \/ NotReady \/ BeginSync \/ Render
  BY <1>1, <1>3 DEF BeginUpdate, Promote, NotReady, BeginSync, Render
<1>4. ASSUME NEW i \in Impls, ReadsHead(i) \/ Synced(i) PROVE Typed' /\ Agree'
  BY <1>1, <1>4 DEF ReadsHead, Synced
<1> QED
  BY <1>2, <1>3, <1>4, ApplyAddKeeps, ApplyRemoveKeeps, ReleaseKeeps DEF AudioThread, Sync

\* Every behaviour keeps both.
LEMMA RegistryInvariant == Spec => [](Typed /\ Agree)
<1>1. Typed /\ Agree /\ [Next]_vars => (Typed /\ Agree)'
  <2> SUFFICES ASSUME Typed, Agree, [Next]_vars PROVE Typed' /\ Agree'
    OBVIOUS
  <2>1. CASE Host BY <2>1, HostKeepsTyped, HostKeepsAgree
  <2>2. CASE AudioThread BY <2>2, AudioKeepsRegistry
  <2>3. ASSUME NEW i \in Impls, Setup(i) PROVE Typed' /\ Agree'
    BY <2>3 DEF Setup, Typed, Agree, control, wiring, sends
  <2>4. CASE UNCHANGED vars
    BY <2>4 DEF vars, Typed, Agree, control, wiring, sends
  <2> QED
    BY <2>1, <2>2, <2>3, <2>4 DEF Next
<1> QED
  BY RegistryInit, <1>1, PTL DEF Spec

\* A slot is in the registry of the return it targets and in no other, whatever
\* order messages and releases come in: detachSends() misses no sender.
THEOREM RegistriesMirrorSlots == Spec => []RegistryAgrees
<1>1. Typed /\ Agree => RegistryAgrees
  BY AgreeSlotBySlot
<1> QED
  BY <1>1, RegistryInvariant, PTL

(***************************************************************************)
(* The render graph                                                        *)
(***************************************************************************)

\* The counts are those of the graph, or nobody reads them before a rebuild.
CurrentInv ==
  /\ DOMAIN gen = Returns /\ gen = [r \in Returns |-> gen[r]]
  /\ built = None \/ built = Dependencies
  /\ audio.at = "rendered" => built = Dependencies

\* The counts depend on the lists and the generations only.
LEMMA SameDependencies ==
  ASSUME UNCHANGED <<children, returns, gen>>
  PROVE  Dependencies' = Dependencies
BY DEF Dependencies, Lower

\* Whatever changes the lists or a generation marks the graph dirty.
LEMMA CurrentStep ==
  ASSUME CurrentInv, [Next]_vars
  PROVE  CurrentInv'
<1> USE DEF CurrentInv
<1>1. ASSUME UNCHANGED <<children, returns, gen, built>>,
             audio'.at = "rendered" => audio.at = "rendered"
      PROVE  CurrentInv'
  BY <1>1, SameDependencies
<1>2. CASE Host
  BY <1>1, <1>2, HostLeavesAudio
<1>3. CASE BeginUpdate \/ NotReady \/ BeginSync
  BY <1>1, <1>3 DEF BeginUpdate, NotReady, BeginSync, Visit, lists, graph
<1>4. CASE Promote
  BY <1>4 DEF Promote, Visit
<1>5. CASE Render
  <2>1. Dependencies' = Dependencies
    BY <1>5, SameDependencies DEF Render, lists
  <2> QED
    BY <1>5, <2>1 DEF Render
<1>6. ASSUME NEW i \in Impls, ReadsHead(i) \/ ApplyAdd(i) \/ ApplyRemove(i) \/ Synced(i)
      PROVE  CurrentInv'
  BY <1>1, <1>6 DEF ReadsHead, ApplyAdd, ApplyRemove, Synced, Visit, lists, graph
<1>7. ASSUME NEW i \in Impls, ApplyGeneration(i) PROVE CurrentInv'
  <2>1. /\ audio.at = "read" /\ audio' = audio /\ UNCHANGED <<children, returns>>
        /\ gen' = [gen EXCEPT ![i] = Head(mail[i]).value]
        /\ built' = IF gen[i] # Head(mail[i]).value THEN None ELSE built
    BY <1>7 DEF ApplyGeneration, Reading, Marks, lists
  <2>2. CASE gen[i] # Head(mail[i]).value
    BY <2>1, <2>2
  <2>3. CASE gen[i] = Head(mail[i]).value
    <3> DEFINE v == Head(mail[i]).value
    <3>1. gen[i] = v /\ gen' = [gen EXCEPT ![i] = v]
      BY <2>1, <2>3
    <3> HIDE DEF v
    <3>2. gen' = gen
      BY <3>1
    <3> QED
      BY <1>1, <2>1, <2>3, <3>2
  <2> QED
    BY <2>2, <2>3
<1>8. ASSUME NEW i \in Impls, Release(i) PROVE CurrentInv'
  BY <1>8 DEF Release, Visit
<1>9. ASSUME NEW i \in Impls, Setup(i) PROVE CurrentInv'
  BY <1>1, <1>9 DEF Setup, lists, graph
<1>10. CASE UNCHANGED vars
  BY <1>1, <1>10 DEF vars, lists, graph
<1> QED
  BY <1>2, <1>3, <1>4, <1>5, <1>6, <1>7, <1>8, <1>9, <1>10 DEF Next, AudioThread, Sync

\* While blocks are rendered, the counts that the tasks start with are the
\* arrivals that will come: whatever changes them marks the graph dirty.
THEOREM GraphIsCurrent == Spec => []GraphCurrent
<1>1. Init => CurrentInv
  BY DEF Init, CurrentInv
<1>2. CurrentInv /\ [Next]_vars => CurrentInv'
  BY CurrentStep
<1>3. CurrentInv => GraphCurrent
  BY DEF CurrentInv, GraphCurrent
<1> QED
  BY <1>1, <1>2, <1>3, PTL DEF Spec

(***************************************************************************)
(* What a mailbox says                                                     *)
(***************************************************************************)

\* No message is one of S; m is the last message that is.
NoneIn(q, S) == \A n \in DOMAIN q : q[n] \notin S
LastIn(q, S, m) ==
  \E n \in DOMAIN q : q[n] = m /\ m \in S /\ \A k \in DOMAIN q : k > n => q[k] \notin S

\* A new message is the last one.
LEMMA SaysAppend ==
  ASSUME NEW T, NEW q \in Seq(T), NEW S, NEW x \in T
  PROVE  /\ NoneIn(Append(q, x), S) <=> NoneIn(q, S) /\ x \notin S
         /\ x \in S => \A m : LastIn(Append(q, x), S, m) => m = x
         /\ x \notin S => \A m : LastIn(Append(q, x), S, m) => LastIn(q, S, m)
<1> DEFINE p == Append(q, x)
<1>1. /\ p \in Seq(T) /\ Len(p) = Len(q) + 1 /\ Len(q) \in Nat /\ p[Len(q) + 1] = x
      /\ \A n \in 1..Len(q) : p[n] = q[n]
      /\ DOMAIN q = 1..Len(q) /\ DOMAIN p = 1..(Len(q) + 1)
  OBVIOUS
<1> HIDE DEF p
<1>2. NoneIn(p, S) <=> NoneIn(q, S) /\ x \notin S
  BY <1>1 DEF NoneIn
<1>3. ASSUME x \in S, NEW m, LastIn(p, S, m) PROVE m = x
  BY <1>1, <1>3 DEF LastIn
<1>4. ASSUME x \notin S, NEW m, LastIn(p, S, m) PROVE LastIn(q, S, m)
  BY <1>1, <1>4 DEF LastIn
<1> QED
  BY <1>2, <1>3, <1>4 DEF p

\* Reading the first message.
LEMMA SaysTail ==
  ASSUME NEW T, NEW q \in Seq(T), q # <<>>, NEW S
  PROVE  /\ NoneIn(q, S) <=> NoneIn(Tail(q), S) /\ Head(q) \notin S
         /\ \A m : LastIn(Tail(q), S, m) => LastIn(q, S, m)
         /\ Head(q) \in S /\ NoneIn(Tail(q), S) => LastIn(q, S, Head(q))
<1> DEFINE p == Tail(q)
<1>1. /\ p \in Seq(T) /\ Len(p) = Len(q) - 1 /\ Len(q) \in Nat \ {0} /\ q[1] = Head(q)
      /\ \A n \in 1..(Len(q) - 1) : p[n] = q[n + 1]
      /\ DOMAIN q = 1..Len(q) /\ DOMAIN p = 1..(Len(q) - 1)
  OBVIOUS
<1> HIDE DEF p
<1>a. \A k \in 1..Len(q) : k # 1 => k - 1 \in 1..(Len(q) - 1) /\ q[k] = p[k - 1]
  BY <1>1
<1>2. NoneIn(q, S) <=> NoneIn(p, S) /\ Head(q) \notin S
  <2>1. ASSUME NoneIn(q, S) PROVE NoneIn(p, S) /\ Head(q) \notin S
    <3>1. ASSUME NEW n \in DOMAIN p PROVE p[n] \notin S
      <4>1. n + 1 \in DOMAIN q /\ p[n] = q[n + 1]
        BY <1>1, <3>1
      <4> QED
        BY <2>1, <4>1 DEF NoneIn
    <3>2. 1 \in DOMAIN q
      BY <1>1
    <3> QED
      BY <1>1, <2>1, <3>1, <3>2 DEF NoneIn
  <2>2. ASSUME NoneIn(p, S), Head(q) \notin S, NEW k \in DOMAIN q PROVE q[k] \notin S
    BY <1>1, <1>a, <2>2 DEF NoneIn
  <2> QED
    BY <2>1, <2>2 DEF NoneIn
<1>3. ASSUME NEW m, LastIn(p, S, m) PROVE LastIn(q, S, m)
  <2>1. PICK n \in DOMAIN p : p[n] = m /\ m \in S /\ \A k \in DOMAIN p : k > n => p[k] \notin S
    BY <1>3 DEF LastIn
  <2>2. n + 1 \in DOMAIN q /\ q[n + 1] = m
    BY <1>1, <2>1
  <2>3. ASSUME NEW k \in DOMAIN q, k > n + 1 PROVE q[k] \notin S
    <3>1. k # 1 /\ k - 1 \in DOMAIN p /\ k - 1 > n /\ q[k] = p[k - 1]
      BY <1>1, <1>a, <2>3
    <3> QED
      BY <2>1, <3>1
  <2> QED
    BY <2>1, <2>2, <2>3 DEF LastIn
<1>4. ASSUME Head(q) \in S, NoneIn(p, S) PROVE LastIn(q, S, Head(q))
  <2>1. ASSUME NEW k \in DOMAIN q, k > 1 PROVE q[k] \notin S
    BY <1>1, <1>4, <1>a, <2>1 DEF NoneIn
  <2> QED
    BY <1>1, <1>4, <2>1 DEF LastIn
<1> QED
  BY <1>2, <1>3, <1>4 DEF p


(***************************************************************************)
(* What the host has done                                                  *)
(***************************************************************************)

GenMail == [id : {"generation"}, value : Values]

\* A step of the host that posts generations to some returns, at most.
Generates ==
  \A i \in Impls :
    \/ mail'[i] = mail[i] /\ (i \in nodes' => posted'[i] = posted[i])
    \/ i \in nodes' /\ \E v \in Values :
         mail'[i] = Append(mail[i], SetGeneration(v)) /\ posted'[i] = v

\* recomputeAndPostGenerations() is such a step.
LEMMA RecomputeGenerates ==
  ASSUME NEW N \in SUBSET Returns, NEW E \in [Returns \X Returns -> Nat], Recompute(N, E)
  PROVE  Generates /\ (\A r \in Returns \ N : posted'[r] = 0) /\ nodes' = N
<1> DEFINE g == Generations(N, E)
<1>1. ASSUME NEW i \in Returns PROVE g[i] \in Values
  <2>1. g \in Layerings BY DEF Layerings
  <2> HIDE DEF g
  <2> QED BY <2>1 DEF Values
<1>2. /\ nodes' = N
      /\ posted' = [r \in Returns |-> IF r \in N THEN g[r] ELSE 0]
      /\ mail' = [i \in Impls |->
           IF i \in N /\ posted[i] # g[i] THEN Append(mail[i], SetGeneration(g[i])) ELSE mail[i]]
  BY DEF Recompute, Posts
<1> HIDE DEF g
<1>3. ASSUME NEW i \in Impls
      PROVE  \/ mail'[i] = mail[i] /\ (i \in nodes' => posted'[i] = posted[i])
             \/ i \in nodes' /\ \E v \in Values :
                  mail'[i] = Append(mail[i], SetGeneration(v)) /\ posted'[i] = v
  <2>1. CASE i \in N /\ posted[i] # g[i]
    BY <1>1, <1>2, <2>1
  <2>2. CASE ~(i \in N /\ posted[i] # g[i])
    BY <1>2, <2>2
  <2> QED
    BY <2>1, <2>2
<1> QED
  BY <1>2, <1>3 DEF Generates

\* So is dropping an edge.
LEMMA DropEdgeGenerates ==
  ASSUME Typed, NEW c, NEW s, DropEdge(c, s)
  PROVE  Generates /\ nodes' = nodes /\ (\A r \in Returns \ nodes : posted'[r] \in {0, posted[r]})
<1>1. CASE mirror[c][s].edge
  <2>1. Without(edges, c, mirror[c][s].to) \in [Returns \X Returns -> Nat]
    BY WithoutTyped DEF Typed
  <2>2. nodes \in SUBSET Returns
    BY DEF Typed
  <2>3. Recompute(nodes, Without(edges, c, mirror[c][s].to))
    BY <1>1 DEF DropEdge
  <2> QED
    BY <2>1, <2>2, <2>3, RecomputeGenerates
<1>2. CASE ~mirror[c][s].edge
  BY <1>2 DEF DropEdge, wiring, Generates
<1> QED
  BY <1>1, <1>2

\* Every step of the host is, except the one that posts a send.
LEMMA HostGenerates ==
  ASSUME Typed, Host, ~Post
  PROVE  Generates /\ (\A r \in Returns \ nodes' : posted[r] = 0 => posted'[r] = 0)
<1> DEFINE Goal == Generates /\ (\A r \in Returns \ nodes' : posted[r] = 0 => posted'[r] = 0)
<1> SUFFICES Goal
  OBVIOUS
<1>0. ASSUME UNCHANGED <<mail, posted>> PROVE Goal
  BY <1>0 DEF Generates
<1> HIDE DEF Goal
<1>1. ASSUME NEW c \in Channels, Create(c) \/ RemoveInterface(c) PROVE Goal
  BY <1>0, <1>1 DEF Create, RemoveInterface, wiring
<1>2. ASSUME NEW c \in Channels, Unregister(c) PROVE Goal
  <2>1. Unregistered(c) \in SUBSET Returns
    BY DEF Unregistered, Typed
  <2>2. WithoutReturn(c) \in [Returns \X Returns -> Nat]
    BY DEF WithoutReturn, Typed
  <2>3. Recompute(Unregistered(c), WithoutReturn(c))
    BY <1>2 DEF Unregister
  <2> QED
    BY <2>1, <2>2, <2>3, RecomputeGenerates DEF Goal
<1>3. ASSUME NEW c \in Channels, NEW s \in Slots, ClearSend(c, s) PROVE Goal
  BY <1>3, DropEdgeGenerates DEF ClearSend, Goal
<1>4. ASSUME NEW c \in Channels, NEW s \in Slots, NEW r \in Returns, Send(c, s, r) PROVE Goal
  <2>1. CASE UNCHANGED <<wiring, mail>>
    BY <1>0, <2>1 DEF wiring
  <2>2. CASE c \in Returns /\ Recompute(nodes, [edges EXCEPT ![<<c, r>>] = @ + 1])
    <3>1. edges[<<c, r>>] + 1 \in Nat
      BY <2>2 DEF Typed
    <3>2. [edges EXCEPT ![<<c, r>>] = @ + 1] \in [Returns \X Returns -> Nat]
      BY <3>1 DEF Typed
    <3>3. nodes \in SUBSET Returns
      BY DEF Typed
    <3> QED
      BY <2>2, <3>2, <3>3, RecomputeGenerates DEF Goal
  <2> QED
    BY <1>4, <2>1, <2>2 DEF Send
<1>5. CASE SendDrops
  BY <1>5, DropEdgeGenerates DEF SendDrops, Goal
<1> QED
  BY <1>1, <1>2, <1>3, <1>4, <1>5 DEF Host

\* A call is made on channels that live, and the mirror has its outcome before
\* the message goes out.
Mirrors == [to : Returns \union {None}, edge : BOOLEAN]
HostInv ==
  /\ mirror \in [Channels -> [Slots -> Mirrors]]
  /\ call.at \in {"drop", "post"} => Alive(call.from) /\ (call.to # None => Alive(call.to))
  /\ call.at = "post" => mirror[call.from][call.slot].to = call.to
  /\ call.at = "release" => Alive(call.from)
  /\ \A i \in Channels, s \in Slots : mirror[i][s].to # None => life[mirror[i][s].to] # "absent"

\* What was not created has nothing.
AbsentInv ==
  /\ gen \in [Returns -> Nat \union Values]
  /\ \A r \in Returns \ nodes : posted[r] = 0
  /\ \A r \in Returns : life[r] = "absent" => gen[r] = 0
  /\ \A i \in Channels : life[i] = "absent" => mail[i] = <<>>
  /\ \A i \in Channels, s \in Slots :
       life[i] = "absent" => target[i][s] = None /\ mirror[i][s].to = None

\* The mirror and the call are the host's alone.
LEMMA HostInvStep ==
  ASSUME LifeInv, Typed, HostInv, [Next]_vars
  PROVE  HostInv'
<1> USE SendAssumption
<1>1. ASSUME UNCHANGED <<life, mirror, call>> PROVE HostInv'
  BY <1>1 DEF HostInv, Alive
<1>2. ASSUME NEW c \in Channels, Create(c) PROVE HostInv'
  BY <1>2 DEF Create, HostInv, Alive, Idle, LifeInv
<1>3. ASSUME NEW c \in Channels, Unregister(c) PROVE HostInv'
  BY <1>3 DEF Unregister, HostInv, Alive, Idle, Calling
<1>4. ASSUME NEW c \in Channels, RemoveInterface(c) PROVE HostInv'
  <2>1. NoSend \in Mirrors /\ NoSend.to = None
    BY DEF NoSend, Mirrors
  <2>2. /\ mirror' = [mirror EXCEPT ![c] = [s \in Slots |-> NoSend]] /\ call' = Idle
        /\ life' = [life EXCEPT ![c] = "gone"]
    BY <1>4 DEF RemoveInterface
  <2>3. mirror' \in [Channels -> [Slots -> Mirrors]]
    BY <2>1, <2>2 DEF HostInv
  <2>4. ASSUME NEW i \in Channels, NEW s \in Slots, mirror'[i][s].to # None
        PROVE  life'[mirror'[i][s].to] # "absent"
    <3>1. mirror'[i] = IF i = c THEN [u \in Slots |-> NoSend] ELSE mirror[i]
      BY <2>2 DEF HostInv
    <3>2. i # c /\ mirror'[i][s] = mirror[i][s]
      BY <2>1, <2>4, <3>1
    <3>3. \A d : life[d] # "absent" => life'[d] # "absent"
      BY <2>2 DEF LifeInv
    <3> QED
      BY <2>4, <3>2, <3>3 DEF HostInv
  <2> QED
    BY <2>2, <2>3, <2>4 DEF HostInv, Idle
<1>5. ASSUME NEW c \in Channels, NEW s \in Slots, NEW r \in Returns, Send(c, s, r)
      PROVE  HostInv'
  BY <1>5 DEF Send, HostInv, Alive, Idle, Calling
<1>6. ASSUME NEW c \in Channels, NEW s \in Slots, NEW m \in Mirrors, Alive(c),
             m.to # None => Alive(m.to),
             mirror' = [mirror EXCEPT ![c][s] = m],
             call' = [at |-> "post", from |-> c, slot |-> s, to |-> m.to],
             life' = life
      PROVE  HostInv'
  <2>1. mirror' \in [Channels -> [Slots -> Mirrors]]
    BY <1>6 DEF HostInv
  <2>2. ASSUME NEW i \in Channels, NEW u \in Slots
        PROVE  mirror'[i][u] = IF i = c /\ u = s THEN m ELSE mirror[i][u]
    BY <1>6 DEF HostInv
  <2> QED
    BY <1>6, <2>1, <2>2 DEF HostInv, Alive
<1>7. ASSUME NEW c \in Channels, NEW s \in Slots, ClearSend(c, s) PROVE HostInv'
  <2>1. NoSend \in Mirrors /\ NoSend.to = None
    BY DEF NoSend, Mirrors
  <2> QED
    BY <1>6, <1>7, <2>1 DEF ClearSend, Calling
<1>8. CASE SendDrops
  <2> DEFINE m == [to |-> call.to, edge |-> call.from \in Returns]
  <2>1. m \in Mirrors /\ m.to = call.to
    BY <1>8 DEF SendDrops, Typed, Mirrors
  <2>2. call.from \in Channels /\ call.slot \in Slots /\ call.at = "drop"
    BY <1>8 DEF SendDrops, Typed
  <2>3. /\ mirror' = [mirror EXCEPT ![call.from][call.slot] = m] /\ life' = life
        /\ call' = [at |-> "post", from |-> call.from, slot |-> call.slot, to |-> call.to]
    BY <1>8 DEF SendDrops, Calling
  <2> HIDE DEF m
  <2> QED
    BY <1>6, <2>1, <2>2, <2>3 DEF HostInv
<1>9. CASE Post
  BY <1>9 DEF Post, HostInv, Alive, Idle
<1>10. CASE AudioThread \/ \E i \in Impls : Setup(i)
  BY <1>1, <1>10 DEF AudioThread, BeginUpdate, Promote, NotReady, BeginSync, Render, Sync,
     ReadsHead, ApplyAdd, ApplyRemove, ApplyGeneration, Synced, Release, Setup, control
<1>11. CASE UNCHANGED vars
  BY <1>1, <1>11 DEF vars, control
<1> QED
  BY <1>2, <1>3, <1>4, <1>5, <1>7, <1>8, <1>9, <1>10, <1>11 DEF Next, Host


\* Only makeReturn() adds a return to the wiring graph.
LEMMA NodesGrow ==
  ASSUME Typed, Host, NEW r \in nodes', r \notin nodes
  PROVE  Create(r)
<1>1. ASSUME NEW c \in Channels, Create(c) PROVE r = c
  BY <1>1 DEF Create
<1>2. ASSUME NEW c \in Channels, Unregister(c) PROVE r \in nodes
  BY <1>2 DEF Unregister, Unregistered, Recompute
<1>3. ASSUME NEW c \in Channels, NEW s \in Slots, ClearSend(c, s) PROVE r \in nodes
  BY <1>3, DropEdgeGenerates DEF ClearSend
<1>4. ASSUME NEW c \in Channels, NEW s \in Slots, NEW t \in Returns, Send(c, s, t)
      PROVE  r \in nodes
  BY <1>4 DEF Send, Recompute, wiring
<1>5. CASE SendDrops
  BY <1>5, DropEdgeGenerates DEF SendDrops
<1>6. CASE Post \/ \E c \in Channels : RemoveInterface(c)
  BY <1>6 DEF Post, RemoveInterface, wiring
<1> QED
  BY <1>1, <1>2, <1>3, <1>4, <1>5, <1>6 DEF Host

\* Nobody gives anything to what was not created.
LEMMA HostKeepsAbsent ==
  ASSUME LifeInv, Typed, HostInv, AbsentInv, Host
  PROVE  AbsentInv'
<1> USE SendAssumption
<1>1. UNCHANGED <<gen, target>>
  BY HostLeavesAudio
<1>2. \A c \in Channels : life'[c] = "absent" => life[c] = "absent"
  BY DEF LifeInv, Host, Create, Unregister, RemoveInterface, ClearSend, Send, SendDrops, Post
<1>3. \A r \in Returns \ nodes' : posted'[r] = 0
  <2>1. CASE Post
    BY <2>1 DEF Post, wiring, AbsentInv
  <2>2. CASE ~Post
    <3>1. \A r \in Returns \ nodes' : posted[r] = 0 => posted'[r] = 0
      BY <2>2, HostGenerates
    <3>2. ASSUME NEW r \in Returns \ nodes' PROVE posted'[r] = 0
      <4>1. CASE r \notin nodes
        BY <3>1, <3>2, <4>1 DEF AbsentInv
      <4>2. CASE r \in nodes
        <5>1. PICK c \in Channels : Unregister(c)
          <6>1. nodes' # nodes BY <3>2, <4>2
          <6>2. ASSUME NEW c \in Channels, NEW s \in Slots, NEW d \in Returns, Send(c, s, d)
                PROVE  nodes' = nodes
            BY <6>2 DEF Send, Recompute, wiring
          <6>3. ASSUME NEW c \in Channels, NEW s \in Slots, ClearSend(c, s)
                PROVE  nodes' = nodes
            BY <6>3 DEF ClearSend, DropEdge, Recompute, wiring
          <6>4. SendDrops => nodes' = nodes
            BY DEF SendDrops, DropEdge, Recompute, wiring
          <6>5. ASSUME NEW c \in Channels, Create(c) \/ RemoveInterface(c)
                PROVE  nodes \subseteq nodes'
            BY <6>5 DEF Create, RemoveInterface, wiring
          <6> QED BY <2>2, <3>2, <4>2, <6>1, <6>2, <6>3, <6>4, <6>5 DEF Host
        <5>2. nodes' = nodes \ {c} /\ r = c
          BY <3>2, <4>2, <5>1 DEF Unregister, Recompute, Unregistered
        <5> QED
          BY <5>1, <5>2, <3>2 DEF Unregister, Recompute, Unregistered
      <4> QED
        BY <4>1, <4>2
    <3> QED
      BY <3>2
  <2> QED
    BY <2>1, <2>2
<1>4. ASSUME NEW i \in Channels, life'[i] = "absent" PROVE mail'[i] = <<>>
  <2>0. life[i] = "absent" /\ mail[i] = <<>>
    BY <1>2, <1>4 DEF AbsentInv
  <2>1. CASE Post
    BY <2>0, <2>1 DEF Post, HostInv, Alive, Typed, Impls
  <2>2. CASE ~Post
    <3>1. Generates
      BY <2>2, HostGenerates
    <3>2. CASE i \in nodes'
      <4>1. i \in nodes
        BY <1>4, <3>2, NodesGrow DEF Create, LifeInv
      <4> QED
        BY <2>0, <4>1 DEF LifeInv
    <3>3. CASE i \notin nodes'
      BY <2>0, <3>1, <3>3 DEF Generates, Impls
    <3> QED
      BY <3>2, <3>3
  <2> QED
    BY <2>1, <2>2
<1>5. ASSUME NEW i \in Channels, NEW s \in Slots, life'[i] = "absent"
      PROVE  mirror'[i][s].to = None
  <2>0. life[i] = "absent" /\ mirror[i][s].to = None
    BY <1>2, <1>5 DEF AbsentInv
  <2>1. CASE mirror' = mirror
    BY <2>0, <2>1
  <2>2. ASSUME NEW c \in Channels, RemoveInterface(c) PROVE mirror'[i][s].to = None
    BY <2>0, <2>2 DEF RemoveInterface, HostInv, NoSend
  <2>3. ASSUME NEW c \in Channels, NEW u \in Slots, ClearSend(c, u) PROVE mirror'[i][s].to = None
    BY <2>0, <2>3 DEF ClearSend, HostInv, NoSend
  <2>4. CASE SendDrops
    BY <2>0, <2>4 DEF SendDrops, HostInv, Alive
  <2> QED
    BY <2>1, <2>2, <2>3, <2>4 DEF Host, Create, Unregister, Send, Post
<1> QED
  BY <1>1, <1>2, <1>3, <1>4, <1>5 DEF AbsentInv

\* Neither does the audio thread.
LEMMA AudioKeepsAbsent ==
  ASSUME LifeInv, Typed, AbsentInv, AudioThread
  PROVE  AbsentInv'
<1>1. UNCHANGED <<life, nodes, posted, mirror>>
  BY DEF AudioThread, BeginUpdate, Promote, NotReady, BeginSync, Render, Sync, ReadsHead,
     ApplyAdd, ApplyRemove, ApplyGeneration, Synced, Release, control, wiring
<1>2. CASE UNCHANGED <<mail, gen, target>>
  BY <1>1, <1>2 DEF AbsentInv
<1>3. ASSUME NEW i \in Impls, ApplyAdd(i) \/ ApplyRemove(i) PROVE AbsentInv'
  <2>1. mail[i] # <<>> /\ mail' = [mail EXCEPT ![i] = Tail(@)] /\ gen' = gen
    BY <1>3 DEF ApplyAdd, ApplyRemove, graph
  <2>2. life[i] # "absent"
    BY <2>1 DEF AbsentInv, Impls
  <2>3. \A j \in Impls : j # i => mail'[j] = mail[j] /\ target'[j] = target[j]
    BY <1>3, <2>1 DEF ApplyAdd, ApplyRemove, Retargets, Typed
  <2> QED
    BY <1>1, <2>1, <2>2, <2>3 DEF AbsentInv, Impls
<1>4. ASSUME NEW i \in Impls, ApplyGeneration(i) PROVE AbsentInv'
  <2> DEFINE m == Head(mail[i])
  <2>1. mail[i] # <<>> /\ mail' = [mail EXCEPT ![i] = Tail(@)] /\ target' = target
        /\ m.id = "generation" /\ gen' = [gen EXCEPT ![i] = m.value]
    BY <1>4 DEF ApplyGeneration, sends
  <2>2. life[i] # "absent"
    BY <2>1 DEF AbsentInv, Impls
  <2>3. m.value \in Values
    <3>1. m \in Messages
      BY <2>1, MailTail DEF Typed
    <3> HIDE DEF m
    <3> QED
      BY <2>1, <3>1 DEF Messages
  <2> HIDE DEF m
  <2>4. \A j \in Impls : j # i => mail'[j] = mail[j]
    BY <2>1 DEF Typed
  <2>5. gen' \in [Returns -> Nat \union Values] /\ \A r \in Returns : r # i => gen'[r] = gen[r]
    BY <2>1, <2>3 DEF AbsentInv
  <2> QED
    BY <1>1, <2>1, <2>2, <2>4, <2>5 DEF AbsentInv, Impls
<1>5. ASSUME NEW i \in Impls, Release(i) PROVE AbsentInv'
  <2>1. /\ mail' = [mail EXCEPT ![i] = <<>>]
        /\ gen' = [r \in Returns |-> IF r = i THEN 0 ELSE gen[r]]
        /\ \A j \in Impls, s \in Slots : target'[j][s] \in {None, target[j][s]}
    BY <1>5 DEF Release, DetachSends
  <2>2. \A j \in Impls : mail'[j] = IF j = i THEN <<>> ELSE mail[j]
    BY <2>1 DEF Typed
  <2>3. gen' \in [Returns -> Nat \union Values] /\ \A r \in Returns : gen'[r] \in {0, gen[r]}
    BY <2>1 DEF AbsentInv
  <2> QED
    BY <1>1, <2>1, <2>2, <2>3 DEF AbsentInv, Impls
<1> QED
  BY <1>2, <1>3, <1>4, <1>5 DEF AudioThread, BeginUpdate, Promote, NotReady, BeginSync, Render,
     Sync, ReadsHead, Synced, sends, graph

\* Every behaviour keeps all this.
LEMMA HostInvariant == Spec => [](LifeInv /\ Typed /\ Agree /\ HostInv /\ AbsentInv)
<1>1. Init => HostInv /\ AbsentInv
  <2> SUFFICES ASSUME Init PROVE HostInv /\ AbsentInv
    OBVIOUS
  <2>1. NoSend \in Mirrors /\ NoSend.to = None
    BY DEF NoSend, Mirrors
  <2> QED
    BY SendAssumption, <2>1 DEF Init, HostInv, AbsentInv, Idle, Alive, Impls
<1>2. LifeInv /\ Typed /\ HostInv /\ AbsentInv /\ [Next]_vars => (HostInv /\ AbsentInv)'
  <2> SUFFICES ASSUME LifeInv, Typed, HostInv, AbsentInv, [Next]_vars PROVE HostInv' /\ AbsentInv'
    OBVIOUS
  <2>1. HostInv' BY HostInvStep
  <2>2. CASE Host BY <2>1, <2>2, HostKeepsAbsent
  <2>3. CASE AudioThread BY <2>1, <2>3, AudioKeepsAbsent
  <2>4. CASE (\E i \in Impls : Setup(i)) \/ UNCHANGED vars
    <3>1. UNCHANGED <<life, nodes, posted, mirror, mail, gen, target>>
      BY <2>4 DEF Setup, vars, control, wiring, sends, graph
    <3> QED BY <2>1, <3>1 DEF AbsentInv
  <2> QED BY <2>2, <2>3, <2>4 DEF Next
<1> QED
  BY <1>1, <1>2, LifeInvariant, RegistryInvariant, PTL DEF Spec


(***************************************************************************)
(* Nothing dangles, when a return outlives the mail that names it          *)
(***************************************************************************)

AddsTo(r) == {AddSend(s, r) : s \in Slots}
PatientInv ==
  /\ NoDanglingSend
  /\ audio.at = "read" => First \in Impls /\ Live(First)
  /\ \A i \in Impls, r \in Returns :
       Reads(i) /\ ~NoneIn(mail[i], AddsTo(r)) =>
         Alive(r) /\ ~(call.at = "release" /\ call.from = r)

\* InMail in these words
LEMMA MailedTo ==
  ASSUME NEW r \in Returns
  PROVE  InMail(r) <=> \E i \in Impls : Reads(i) /\ ~NoneIn(mail[i], AddsTo(r))
BY DEF InMail, NoneIn, AddsTo

\* The host ends the life of no implementation,
LEMMA HostKeepsLive ==
  ASSUME LifeInv, Host, NEW j \in Impls, Live(j)
  PROVE  Live(j)'
BY DEF LifeInv, Live, Impls, Host, Create, Unregister, RemoveInterface, ClearSend, Send, SendDrops,
   Post

\* and only a release does.
LEMMA LiveStays ==
  ASSUME LifeInv, [Next]_vars, \A i \in Impls : ~Release(i), NEW j \in Impls, Live(j)
  PROVE  Live(j)'
<1> USE DEF LifeInv, Live, Impls, control
<1>1. CASE Host
  BY <1>1, HostKeepsLive
<1>2. CASE AudioThread
  BY <1>2 DEF AudioThread, BeginUpdate, Promote, NotReady, BeginSync, Render, Sync, ReadsHead,
     ApplyAdd, ApplyRemove, ApplyGeneration, Synced
<1>3. CASE \E i \in Impls : Setup(i)
  BY <1>3 DEF Setup
<1>4. CASE UNCHANGED vars
  BY <1>4 DEF vars
<1> QED
  BY <1>1, <1>2, <1>3, <1>4 DEF Next

\* What goes to a mailbox that is no send leaves the sends in it as they are.
LEMMA GeneratesNoSends ==
  ASSUME Typed, Generates, NEW i \in Impls, NEW S, \A m \in GenMail : m \notin S
  PROVE  /\ NoneIn(mail'[i], S) <=> NoneIn(mail[i], S)
         /\ \A m : LastIn(mail'[i], S, m) => LastIn(mail[i], S, m)
<1>1. CASE mail'[i] = mail[i]
  BY <1>1
<1>2. ASSUME NEW v \in Values, mail'[i] = Append(mail[i], SetGeneration(v))
      PROVE  /\ NoneIn(mail'[i], S) <=> NoneIn(mail[i], S)
             /\ \A m : LastIn(mail'[i], S, m) => LastIn(mail[i], S, m)
  <2>1. SetGeneration(v) \in Messages /\ SetGeneration(v) \in GenMail
    BY DEF SetGeneration, Messages, GenMail
  <2>2. SetGeneration(v) \notin S /\ mail[i] \in Seq(Messages)
    BY <2>1 DEF Typed
  <2> QED
    BY <1>2, <2>1, <2>2, SaysAppend
<1> QED
  BY <1>1, <1>2 DEF Generates

\* Whom the audio thread reads changes with the head and its place only.
LEMMA ReadsFewer ==
  ASSUME NEW i \in Impls, Reads(i)', head'[i] => head[i],
         audio' = audio \/ audio'.at # "read"
  PROVE  Reads(i)
BY DEF Reads

\* A host that waits for its mail keeps what its mail names.
LEMMA HostKeepsPatient ==
  ASSUME ~Prompt, LifeInv, Typed, Agree, HostInv, AbsentInv, PatientInv, Host
  PROVE  PatientInv'
<1> USE SendAssumption
<1>1. UNCHANGED <<target, audio>>
  BY DEF Host, Create, Unregister, RemoveInterface, ClearSend, Send, SendDrops, Post, sends
<1>2. \A j \in Impls : Live(j) => Live(j)'
  BY HostKeepsLive
<1>3. NoDanglingSend'
  BY <1>1, <1>2 DEF PatientInv, NoDanglingSend, Typed, Impls
<1>4. (audio.at = "read" => First \in Impls /\ Live(First))'
  BY <1>1, <1>2 DEF PatientInv, First, Live
<1>5. ASSUME NEW i \in Impls, NEW r \in Returns, Reads(i)', ~NoneIn(mail'[i], AddsTo(r))
      PROVE  Alive(r)' /\ ~(call'.at = "release" /\ call'.from = r)
  <2> DEFINE Goal == Alive(r)' /\ ~(call'.at = "release" /\ call'.from = r)
             Named == Reads(i) /\ ~NoneIn(mail[i], AddsTo(r))
  <2> SUFFICES Goal
    OBVIOUS
  <2>1. Named => Alive(r) /\ ~(call.at = "release" /\ call.from = r)
    BY DEF PatientInv
  <2>g. \A m \in GenMail : m \notin AddsTo(r)
    BY DEF GenMail, AddsTo, AddSend
  <2>2. ASSUME ~Post, i \in Channels, ~Create(i) PROVE Named
    <3>1. head'[i] => head[i]
      <4>1. ASSUME NEW c \in Channels, Create(c) PROVE head'[i] = head[i]
        BY <2>2, <4>1 DEF Create, LifeInv
      <4>2. ASSUME NEW c \in Channels, RemoveInterface(c) PROVE head'[i] => head[i]
        BY <4>2 DEF RemoveInterface, LifeInv
      <4> QED
        BY <2>2, <4>1, <4>2 DEF Host, Unregister, ClearSend, Send, SendDrops
    <3>2. Reads(i)
      BY <1>1, <1>5, <3>1, ReadsFewer
    <3>3. NoneIn(mail'[i], AddsTo(r)) <=> NoneIn(mail[i], AddsTo(r))
      BY <2>2, <2>g, HostGenerates, GeneratesNoSends
    <3> QED
      BY <1>5, <3>2, <3>3
  <2>3. ASSUME NEW c \in Channels, Create(c) PROVE Goal
    <3>1. i # c
      <4>1. mail'[c] = <<>>
        BY <2>3 DEF Create, AbsentInv
      <4> QED
        BY <1>5, <4>1 DEF NoneIn
    <3>2. ~Create(i) /\ ~Post
      BY <2>3, <3>1 DEF Create, Post, Idle, LifeInv, Impls
    <3>3. Named
      BY <2>2, <3>2 DEF Impls
    <3> HIDE DEF Named
    <3> QED
      BY <2>1, <2>3, <3>3 DEF Create, Idle, Alive, LifeInv
  <2>4. ASSUME ~Post, \A c \in Channels : ~Create(c) PROVE Named
    BY <2>2, <2>4 DEF Impls
  <2> HIDE DEF Named, Goal
  <2>5. ASSUME NEW c \in Channels, Unregister(c) PROVE Goal
    <3>1. Named
      BY <2>4, <2>5 DEF Unregister, Post, Idle, Create, Alive, Calling
    <3>2. ~InMail(c) /\ c \in Returns
      BY <2>5 DEF Unregister
    <3>3. r # c
      BY <3>1, <3>2, MailedTo DEF Named
    <3> QED
      BY <2>1, <2>5, <3>1, <3>3 DEF Goal, Unregister, Calling, Alive
  <2>6. ASSUME NEW c \in Channels, RemoveInterface(c) PROVE Goal
    <3>1. Named
      BY <2>4, <2>6 DEF RemoveInterface, Post, Idle, Create, Alive
    <3>2. r # c
      BY <2>1, <2>6, <3>1 DEF RemoveInterface
    <3> QED
      BY <2>1, <2>6, <3>1, <3>2 DEF Goal, RemoveInterface, Idle, Alive, LifeInv
  <2>7. ASSUME UNCHANGED life, call'.at # "release", ~Post, \A c \in Channels : ~Create(c)
        PROVE  Goal
    BY <2>1, <2>4, <2>7 DEF Goal, Alive
  <2>8. ASSUME NEW c \in Channels, NEW s \in Slots, ClearSend(c, s) PROVE Goal
    BY <2>7, <2>8 DEF ClearSend, Calling, Post, Create, Idle
  <2>9. ASSUME NEW c \in Channels, NEW s \in Slots, NEW t \in Returns, Send(c, s, t) PROVE Goal
    BY <2>7, <2>9 DEF Send, Calling, Post, Create, Idle
  <2>10. CASE SendDrops
    BY <2>7, <2>10 DEF SendDrops, Calling, Post, Create, Idle
  <2>11. CASE Post
    <3> DEFINE x == IF call.to = None THEN RemoveSend(call.slot) ELSE AddSend(call.slot, call.to)
    <3>1. /\ call.at = "post" /\ call.from \in Channels /\ x \in Messages
      BY <2>11 DEF Post, Typed, Messages, RemoveSend, AddSend
    <3>2. /\ mail' = [mail EXCEPT ![call.from] = Append(@, x)] /\ call'.at = "idle"
          /\ UNCHANGED <<life, head>>
      BY <2>11 DEF Post, Idle
    <3>3. x \in AddsTo(r) => r = call.to /\ call.to # None
      BY DEF AddsTo, AddSend, RemoveSend
    <3> HIDE DEF x
    <3>4. Reads(i)
      BY <1>1, <1>5, <3>2, ReadsFewer
    <3>5. CASE x \in AddsTo(r) /\ i = call.from
      BY <3>1, <3>2, <3>3, <3>5 DEF HostInv, Goal, Alive
    <3>6. CASE x \notin AddsTo(r) /\ i = call.from
      <4>1. mail[i] \in Seq(Messages) /\ mail'[i] = Append(mail[i], x)
        BY <3>2, <3>6 DEF Typed
      <4>2. ~NoneIn(mail[i], AddsTo(r))
        BY <1>5, <3>1, <3>6, <4>1, SaysAppend
      <4> QED
        BY <2>1, <3>2, <3>4, <4>2 DEF Named, Goal, Alive
    <3>7. CASE i # call.from
      BY <1>5, <2>1, <3>2, <3>4, <3>7 DEF Named, Goal, Alive, Typed
    <3> QED
      BY <3>5, <3>6, <3>7
  <2> QED
    BY <2>3, <2>5, <2>6, <2>8, <2>9, <2>10, <2>11 DEF Host
<1> QED
  BY <1>3, <1>4, <1>5 DEF PatientInv


\* The audio thread links only what its mail names, and cuts off what it releases.
LEMMA AudioKeepsPatient ==
  ASSUME LifeInv, Typed, Agree, HostInv, PatientInv, AudioThread
  PROVE  PatientInv'
<1> USE SendAssumption
<1>1. UNCHANGED <<life, call, head>>
  BY DEF AudioThread, BeginUpdate, Promote, NotReady, BeginSync, Render, Sync, ReadsHead,
     ApplyAdd, ApplyRemove, ApplyGeneration, Synced, Release, control
<1>2. ASSUME NEW i \in Impls, NEW r \in Returns, Reads(i), ~NoneIn(mail[i], AddsTo(r))
      PROVE  Alive(r)' /\ ~(call'.at = "release" /\ call'.from = r)
  BY <1>1, <1>2 DEF PatientInv, Alive
<1>3. ASSUME NEW i \in Impls, Release(i) PROVE PatientInv'
  <2>1. /\ target' = [j \in Impls |-> [s \in Slots |->
             IF j = i \/ <<j, s>> \in registry[i] THEN None ELSE target[j][s]]]
        /\ status' = [status EXCEPT ![i] = "delete"] /\ audio'.at = "sync"
        /\ mail' = [mail EXCEPT ![i] = <<>>] /\ ~head[i]
    BY <1>3 DEF Release, DetachSends, CutOff, Visit
  <2>2. NoDanglingSend'
    <3> SUFFICES ASSUME NEW j \in Impls, NEW s \in Slots, target'[j][s] # None
                 PROVE  (Live(j) /\ Live(target[j][s]))'
      BY DEF NoDanglingSend
    <3>1. j # i /\ target'[j][s] = target[j][s] /\ target[j][s] # i
      BY <2>1 DEF Agree
    <3>2. Live(j) /\ Live(target[j][s]) /\ target[j][s] \in Impls
      BY <3>1 DEF PatientInv, NoDanglingSend, Typed, Impls
    <3> QED
      BY <2>1, <3>1, <3>2 DEF Live, LifeInv, Impls
  <2>3. ASSUME NEW j \in Impls, NEW r \in Returns, Reads(j)', ~NoneIn(mail'[j], AddsTo(r))
        PROVE  Alive(r)' /\ ~(call'.at = "release" /\ call'.from = r)
    <3>1. Reads(j)
      BY <1>1, <2>1, <2>3, ReadsFewer
    <3>2. j # i
      BY <2>1, <2>3, <1>1 DEF Reads
    <3> QED
      BY <1>2, <2>1, <2>3, <3>1, <3>2 DEF Typed
  <2> QED
    BY <2>1, <2>2, <2>3 DEF PatientInv
<1>4. ASSUME \A i \in Impls : ~Release(i) PROVE \A j \in Impls : Live(j) => Live(j)'
  BY <1>4, LiveStays DEF Next
<1>5. ASSUME NEW i \in Impls, ApplyAdd(i) \/ ApplyRemove(i) \/ ApplyGeneration(i)
      PROVE  PatientInv'
  <2>1. /\ audio.at = "read" /\ First = i /\ mail[i] # <<>> /\ audio' = audio
        /\ mail' = [mail EXCEPT ![i] = Tail(@)] /\ Reads(i) /\ status' = status
    BY <1>5 DEF ApplyAdd, ApplyRemove, ApplyGeneration, Reading, Reads, First
  <2>2. mail[i] \in Seq(Messages) /\ Head(mail[i]) \in Messages
    BY <2>1, MailTail DEF Typed
  <2>3. ASSUME NEW j \in Impls, NEW r \in Returns, Reads(j)', ~NoneIn(mail'[j], AddsTo(r))
        PROVE  Alive(r)' /\ ~(call'.at = "release" /\ call'.from = r)
    <3>1. Reads(j)
      BY <1>1, <2>1, <2>3, ReadsFewer
    <3>2. ~NoneIn(mail[j], AddsTo(r))
      <4>1. CASE j = i
        <5>1. mail'[i] = Tail(mail[i])
          BY <2>1 DEF Typed
        <5>2. NoneIn(mail[i], AddsTo(r)) => NoneIn(Tail(mail[i]), AddsTo(r))
          BY <2>1, <2>2, SaysTail
        <5> QED
          BY <2>3, <4>1, <5>1, <5>2
      <4>2. CASE j # i
        BY <2>1, <2>3, <4>2 DEF Typed
      <4> QED
        BY <4>1, <4>2
    <3> QED
      BY <1>2, <3>1, <3>2
  <2>4. NoDanglingSend'
    <3>1. ASSUME NEW j \in Impls, NEW s \in Slots,
                 \/ target'[j][s] \in {None, target[j][s]}
                 \/ j = i /\ target'[j][s] \in Impls /\ Live(target[j][s])',
                 target'[j][s] # None
          PROVE  (Live(j) /\ Live(target[j][s]))'
      <4>1. Live(i)
        BY <2>1 DEF PatientInv
      <4> QED
        BY <2>1, <3>1, <4>1 DEF PatientInv, NoDanglingSend, Live
    <3>2. CASE ApplyAdd(i)
      <4> DEFINE r == Head(mail[i]).to
                 s == Head(mail[i]).slot
      <4>1. Head(mail[i]).id = "add" /\ target' = [target EXCEPT ![i][s] = r]
        BY <3>2 DEF ApplyAdd, Retargets
      <4>2. r \in Returns /\ s \in Slots /\ Head(mail[i]) \in AddsTo(r)
        BY <2>2, <4>1 DEF Messages, AddsTo, AddSend
      <4>3. ~NoneIn(mail[i], AddsTo(r))
        BY <2>1, <2>2, <4>2, SaysTail
      <4> HIDE DEF r, s
      <4>4. Alive(r)
        BY <2>1, <4>2, <4>3 DEF PatientInv
      <4>5. Live(r)
        BY <4>2, <4>4 DEF LifeInv, Alive
      <4>6. \A j \in Impls, u \in Slots :
              target'[j][u] = IF j = i /\ u = s THEN r ELSE target[j][u]
        BY <4>1, <4>2 DEF Typed
      <4>7. \A j \in Impls, u \in Slots :
              target'[j][u] = r => Live(target[j][u])'
        BY <2>1, <4>5 DEF Live
      <4> QED
        BY <3>1, <4>2, <4>6, <4>7 DEF NoDanglingSend, Impls
    <3>3. CASE ApplyRemove(i)
      <4> DEFINE s == Head(mail[i]).slot
      <4>1. target' = [target EXCEPT ![i][s] = None]
        BY <3>3 DEF ApplyRemove
      <4> HIDE DEF s
      <4>2. \A j \in Impls, u \in Slots : target'[j][u] \in {None, target[j][u]}
        BY <4>1 DEF Typed
      <4> QED
        BY <3>1, <4>2 DEF NoDanglingSend
    <3>4. CASE ApplyGeneration(i)
      <4>1. target' = target
        BY <3>4 DEF ApplyGeneration, sends
      <4> QED
        BY <3>1, <4>1 DEF NoDanglingSend
    <3> QED
      BY <1>5, <3>2, <3>3, <3>4
  <2>5. (audio.at = "read" => First \in Impls /\ Live(First))'
    BY <2>1 DEF PatientInv, First, Live
  <2> QED
    BY <2>3, <2>4, <2>5 DEF PatientInv
<1>6. ASSUME UNCHANGED <<mail, target>>, \A i \in Impls : ~Release(i),
             audio'.at = "read" => First' \in Impls /\ head[First'],
             \A j \in Impls : Reads(j)' => Reads(j)
      PROVE  PatientInv'
  <2>1. NoDanglingSend' BY <1>4, <1>6 DEF PatientInv, NoDanglingSend, Typed, Impls
  <2>2. (audio.at = "read" => First \in Impls /\ Live(First))'
    BY <1>4, <1>6 DEF LifeInv, Impls, Live
  <2>3. ASSUME NEW j \in Impls, NEW r \in Returns, Reads(j)', ~NoneIn(mail'[j], AddsTo(r))
        PROVE  Alive(r)' /\ ~(call'.at = "release" /\ call'.from = r)
    BY <1>2, <1>6, <2>3
  <2> QED
    BY <2>1, <2>2, <2>3 DEF PatientInv
<1>7. ASSUME UNCHANGED <<mail, target>>, \A i \in Impls : ~Release(i), audio'.at # "read"
      PROVE  PatientInv'
  <2>1. \A j \in Impls : Reads(j)' => Reads(j)
    BY <1>1, <1>7, ReadsFewer
  <2> QED
    BY <1>6, <1>7, <2>1
<1>8. CASE BeginUpdate \/ Promote \/ NotReady \/ BeginSync \/ Render
  <2>1. UNCHANGED <<mail, target>> /\ audio'.at # "read"
    BY <1>8 DEF BeginUpdate, Promote, NotReady, BeginSync, Render, Visit, sends
  <2>2. CASE \E i \in Impls : Release(i)
    BY <1>3, <2>2
  <2> QED
    BY <1>7, <2>1, <2>2
<1>9. ASSUME NEW i \in Impls, Synced(i) PROVE PatientInv'
  <2>1. UNCHANGED <<mail, target>> /\ audio'.at # "read"
    BY <1>9 DEF Synced, Visit, sends
  <2>2. CASE \E j \in Impls : Release(j)
    BY <1>3, <2>2
  <2> QED
    BY <1>7, <2>1, <2>2
<1>10. ASSUME NEW i \in Impls, ReadsHead(i) PROVE PatientInv'
  <2>1. UNCHANGED <<mail, target>> /\ First' = i /\ head[i]
    BY <1>10 DEF ReadsHead, Visit, sends, Syncing, First
  <2>2. \A j \in Impls : Reads(j)' => Reads(j)
    BY <1>1, <2>1 DEF Reads, First
  <2>3. CASE \E j \in Impls : Release(j)
    BY <1>3, <2>3
  <2> QED
    BY <1>6, <2>1, <2>2, <2>3
<1> QED
  BY <1>3, <1>5, <1>8, <1>9, <1>10 DEF AudioThread, Sync

\* Every behaviour keeps it.
LEMMA PatientInvariant ==
  ASSUME ~Prompt
  PROVE  Spec => []PatientInv
<1>1. Init => PatientInv
  BY SendAssumption DEF Init, PatientInv, NoDanglingSend, NoneIn, Impls
<1>2. LifeInv /\ Typed /\ Agree /\ HostInv /\ AbsentInv /\ PatientInv /\ [Next]_vars => PatientInv'
  <2> SUFFICES ASSUME LifeInv, Typed, Agree, HostInv, AbsentInv, PatientInv, [Next]_vars
               PROVE  PatientInv'
    OBVIOUS
  <2>1. CASE Host BY <2>1, HostKeepsPatient
  <2>2. CASE AudioThread BY <2>2, AudioKeepsPatient
  <2>3. CASE (\E i \in Impls : Setup(i)) \/ UNCHANGED vars
    <3>1. UNCHANGED <<life, head, mail, call, target, audio>>
      BY <2>3 DEF Setup, vars, control, sends
    <3>2. \A j \in Impls : Live(j) => Live(j)'
      BY <2>3 DEF Setup, vars, Live, LifeInv, Impls
    <3> QED
      BY <3>1, <3>2, SendAssumption DEF PatientInv, NoDanglingSend, Typed, Impls, Reads, Alive,
         First
  <2> QED BY <2>1, <2>2, <2>3 DEF Next
<1> QED
  BY <1>1, <1>2, HostInvariant, PTL DEF Spec

\* No send leads from or to a released channel, if no host destroys a return
\* that mail still names: registries and mailboxes then tell release of every
\* sender there is.
THEOREM SendsReachTheLiving ==
  ASSUME ~Prompt
  PROVE  Spec => []NoDanglingSend
<1>1. PatientInv => NoDanglingSend
  BY DEF PatientInv
<1> QED
  BY <1>1, PatientInvariant, PTL


(***************************************************************************)
(* The audio thread arrives where the host is                              *)
(***************************************************************************)

\* The generation last posted is the last one in the mail, or in force.
GenInv ==
  \A r \in nodes :
    /\ NoneIn(mail[r], GenMail) => gen[r] = posted[r]
    /\ \A m : LastIn(mail[r], GenMail, m) => m.value = posted[r]

\* What mail[i] says of the generations of i, read one message later
LEMMA GenRead ==
  ASSUME GenInv, Typed, NEW i \in Impls, mail[i] # <<>>, NEW r \in nodes, nodes' = nodes,
         posted' = posted, mail' = [mail EXCEPT ![i] = Tail(@)], r # i => gen'[r] = gen[r],
         r = i => gen'[r] = IF Head(mail[i]) \in GenMail THEN Head(mail[i]).value ELSE gen[r]
  PROVE  /\ NoneIn(mail'[r], GenMail) => gen'[r] = posted'[r]
         /\ \A m : LastIn(mail'[r], GenMail, m) => m.value = posted'[r]
<1>0. r \in Impls
  BY SendAssumption DEF Typed, Impls
<1>1. CASE r # i
  <2>1. mail'[r] = mail[r]
    BY <1>0, <1>1 DEF Typed
  <2> QED
    BY <1>1, <2>1 DEF GenInv
<1>2. CASE r = i
  <2> DEFINE p == Tail(mail[i])
             h == Head(mail[i])
  <2>1. mail'[r] = p /\ mail[i] \in Seq(Messages)
    BY <1>2 DEF Typed
  <2>2. /\ NoneIn(mail[i], GenMail) <=> NoneIn(p, GenMail) /\ h \notin GenMail
        /\ \A m : LastIn(p, GenMail, m) => LastIn(mail[i], GenMail, m)
        /\ h \in GenMail /\ NoneIn(p, GenMail) => LastIn(mail[i], GenMail, h)
    BY <2>1, SaysTail
  <2>3. /\ NoneIn(mail[i], GenMail) => gen[r] = posted[r]
        /\ \A m : LastIn(mail[i], GenMail, m) => m.value = posted[r]
    BY <1>2 DEF GenInv
  <2>4. gen'[r] = IF h \in GenMail THEN h.value ELSE gen[r]
    BY <1>2
  <2> HIDE DEF p, h
  <2> QED
    BY <2>1, <2>2, <2>3, <2>4
<1> QED
  BY <1>1, <1>2

\* A step of the host keeps it,
LEMMA HostKeepsGen ==
  ASSUME LifeInv, Typed, HostInv, AbsentInv, GenInv, Host
  PROVE  GenInv'
<1> USE SendAssumption
<1>1. gen' = gen
  BY DEF Host, Create, Unregister, RemoveInterface, ClearSend, Send, SendDrops, Post, graph
<1> SUFFICES ASSUME NEW r \in nodes'
             PROVE  /\ NoneIn(mail'[r], GenMail) => gen'[r] = posted'[r]
                    /\ \A m : LastIn(mail'[r], GenMail, m) => m.value = posted'[r]
  BY DEF GenInv
<1>2. CASE r \notin nodes
  <2>1. Create(r) /\ r \in Returns
    BY <1>2, NodesGrow, HostKeepsTyped DEF Typed
  <2>2. mail'[r] = <<>> /\ gen[r] = 0 /\ posted'[r] = 0
    BY <1>2, <2>1 DEF Create, AbsentInv
  <2> QED
    BY <1>1, <2>2 DEF LastIn
<1>3. CASE r \in nodes
  <2>0. r \in Impls /\ mail[r] \in Seq(Messages)
    BY <1>3 DEF Typed, Impls
  <2>1. /\ NoneIn(mail[r], GenMail) => gen[r] = posted[r]
        /\ \A m : LastIn(mail[r], GenMail, m) => m.value = posted[r]
    BY <1>3 DEF GenInv
  <2>2. CASE Post
    <3> DEFINE x == IF call.to = None THEN RemoveSend(call.slot) ELSE AddSend(call.slot, call.to)
    <3>1. /\ call.at = "post" /\ call.from \in Channels /\ x \in Messages /\ x \notin GenMail
      BY <2>2 DEF Post, Typed, Messages, RemoveSend, AddSend, GenMail
    <3>2. mail' = [mail EXCEPT ![call.from] = Append(@, x)] /\ posted' = posted
      BY <2>2 DEF Post, wiring
    <3> HIDE DEF x
    <3>3. mail'[r] = mail[r] \/ mail'[r] = Append(mail[r], x)
      BY <2>0, <3>2 DEF Typed
    <3>4. /\ NoneIn(mail'[r], GenMail) => NoneIn(mail[r], GenMail)
          /\ \A m : LastIn(mail'[r], GenMail, m) => LastIn(mail[r], GenMail, m)
      <4>1. CASE mail'[r] = Append(mail[r], x)
        <5>1. /\ NoneIn(Append(mail[r], x), GenMail)
                   <=> NoneIn(mail[r], GenMail) /\ x \notin GenMail
              /\ \A m : LastIn(Append(mail[r], x), GenMail, m) => LastIn(mail[r], GenMail, m)
          BY <2>0, <3>1, SaysAppend
        <5> QED
          BY <4>1, <5>1
      <4> QED
        BY <3>3, <4>1
    <3> QED
      BY <1>1, <2>1, <3>2, <3>4
  <2>3. CASE ~Post
    <3>1. \/ mail'[r] = mail[r] /\ posted'[r] = posted[r]
          \/ \E v \in Values : mail'[r] = Append(mail[r], SetGeneration(v)) /\ posted'[r] = v
      BY <2>0, <2>3, HostGenerates DEF Generates
    <3>2. ASSUME NEW v \in Values, mail'[r] = Append(mail[r], SetGeneration(v)), posted'[r] = v
          PROVE  /\ NoneIn(mail'[r], GenMail) => gen'[r] = posted'[r]
                 /\ \A m : LastIn(mail'[r], GenMail, m) => m.value = posted'[r]
      <4> DEFINE x == SetGeneration(v)
      <4>1. x \in GenMail /\ x \in Messages /\ x.value = v
        BY DEF SetGeneration, GenMail, Messages
      <4>2. mail'[r] = Append(mail[r], x)
        BY <3>2
      <4> HIDE DEF x
      <4>3. ~NoneIn(mail'[r], GenMail) /\ \A m : LastIn(mail'[r], GenMail, m) => m = x
        BY <2>0, <4>1, <4>2, SaysAppend
      <4> QED
        BY <3>2, <4>1, <4>3
    <3> QED
      BY <1>1, <2>1, <3>1, <3>2
  <2> QED
    BY <2>2, <2>3
<1> QED
  BY <1>2, <1>3

\* and a step of the audio thread.
LEMMA AudioKeepsGen ==
  ASSUME LifeInv, Typed, AbsentInv, GenInv, AudioThread
  PROVE  GenInv'
<1> USE SendAssumption
<1>1. UNCHANGED <<nodes, posted>>
  BY DEF AudioThread, BeginUpdate, Promote, NotReady, BeginSync, Render, Sync, ReadsHead,
     ApplyAdd, ApplyRemove, ApplyGeneration, Synced, Release, control, wiring
<1>2. CASE UNCHANGED <<mail, gen>>
  BY <1>1, <1>2 DEF GenInv
<1>3. ASSUME NEW i \in Impls, ApplyAdd(i) \/ ApplyRemove(i) PROVE GenInv'
  <2>1. /\ mail[i] # <<>> /\ mail' = [mail EXCEPT ![i] = Tail(@)] /\ gen' = gen
        /\ Head(mail[i]) \notin GenMail
    BY <1>3 DEF ApplyAdd, ApplyRemove, graph, GenMail
  <2> QED
    BY <1>1, <2>1, GenRead DEF GenInv
<1>4. ASSUME NEW i \in Impls, ApplyGeneration(i) PROVE GenInv'
  <2>1. /\ mail[i] # <<>> /\ mail' = [mail EXCEPT ![i] = Tail(@)]
        /\ gen' = [gen EXCEPT ![i] = Head(mail[i]).value] /\ Head(mail[i]).id = "generation"
    BY <1>4 DEF ApplyGeneration
  <2>2. Head(mail[i]) \in GenMail
    <3>1. Head(mail[i]) \in Messages
      BY <2>1, MailTail DEF Typed
    <3> QED
      BY <2>1, <3>1 DEF Messages, GenMail
  <2>3. \A r \in nodes : gen'[r] = IF r = i THEN Head(mail[i]).value ELSE gen[r]
    BY <2>1 DEF Typed, AbsentInv
  <2> QED
    <3>1. ASSUME NEW r \in nodes
          PROVE  /\ NoneIn(mail'[r], GenMail) => gen'[r] = posted'[r]
                 /\ \A m : LastIn(mail'[r], GenMail, m) => m.value = posted'[r]
      <4>1. /\ r # i => gen'[r] = gen[r]
            /\ r = i => gen'[r] = IF Head(mail[i]) \in GenMail THEN Head(mail[i]).value ELSE gen[r]
        BY <2>2, <2>3
      <4> QED
        BY <1>1, <2>1, <4>1, GenRead
    <3> QED
      BY <1>1, <3>1 DEF GenInv
<1>5. ASSUME NEW i \in Impls, Release(i) PROVE GenInv'
  <2>1. /\ mail' = [mail EXCEPT ![i] = <<>>] /\ ~head[i]
        /\ gen' = [r \in Returns |-> IF r = i THEN 0 ELSE gen[r]]
    BY <1>5 DEF Release
  <2>2. ASSUME NEW r \in nodes PROVE mail'[r] = mail[r] /\ gen'[r] = gen[r]
    BY <2>1 DEF LifeInv, Typed, Impls
  <2> QED
    BY <1>1, <2>2 DEF GenInv
<1> QED
  BY <1>2, <1>3, <1>4, <1>5 DEF AudioThread, BeginUpdate, Promote, NotReady, BeginSync, Render,
     Sync, ReadsHead, Synced, graph


\* The last word on a slot in the mail is what the mirror has; when there is no
\* word, the slot has it, or was cut off from a return that is gone.  A call that
\* has still to post is ahead of both.
SlotMail(s) == {AddSend(s, r) : r \in Returns} \union {RemoveSend(s)}
Says(m) == IF m.id = "add" THEN m.to ELSE None
Pending(i, s) == call.at = "post" /\ call.from = i /\ call.slot = s
Chosen(to, choice) ==
  to = choice \/ (to = None /\ choice # None /\ life[choice] = "gone")
SlotFollows(i, s) ==
  /\ NoneIn(mail[i], SlotMail(s)) => Chosen(target[i][s], mirror[i][s].to)
  /\ \A m : LastIn(mail[i], SlotMail(s), m) => mirror[i][s].to = Says(m)
SlotInv ==
  \A i \in Channels, s \in Slots : Alive(i) /\ ~Pending(i, s) => SlotFollows(i, s)

\* What a message says of another slot, or of none, is nothing.
LEMMA SlotMailIds ==
  ASSUME NEW s \in Slots, NEW m \in Messages
  PROVE  m \in SlotMail(s) <=> m.id \in {"add", "remove"} /\ m.slot = s
<1>1. CASE m \in [id : {"add"}, slot : Slots, to : Returns]
  BY <1>1 DEF SlotMail, AddSend, RemoveSend
<1>2. CASE m \in [id : {"remove"}, slot : Slots]
  BY <1>2 DEF SlotMail, AddSend, RemoveSend
<1>3. CASE m \in [id : {"generation"}, value : Values]
  BY <1>3 DEF SlotMail, AddSend, RemoveSend
<1> QED
  BY <1>1, <1>2, <1>3 DEF Messages

\* Generations say nothing of slots.
LEMMA NoSlotMail == ASSUME NEW s PROVE \A m \in GenMail : m \notin SlotMail(s)
BY DEF GenMail, SlotMail, AddSend, RemoveSend

\* A step of the host keeps it,
LEMMA HostKeepsSlots ==
  ASSUME LifeInv, Typed, HostInv, AbsentInv, SlotInv, Host
  PROVE  SlotInv'
<1> USE SendAssumption
<1>1. target' = target
  BY DEF Host, Create, Unregister, RemoveInterface, ClearSend, Send, SendDrops, Post, sends
<1>2. \A c \in Channels : life[c] = "gone" => life'[c] = "gone"
  BY DEF LifeInv, Host, Create, Unregister, RemoveInterface, ClearSend, Send, SendDrops, Post
<1> SUFFICES ASSUME NEW i \in Channels, NEW s \in Slots, Alive(i)', ~Pending(i, s)'
             PROVE  SlotFollows(i, s)'
  BY DEF SlotInv
<1>3. mirror[i][s].to \in Returns \union {None}
  BY DEF HostInv, Mirrors
<1>4. CASE Post
  <2> DEFINE x == IF call.to = None THEN RemoveSend(call.slot) ELSE AddSend(call.slot, call.to)
  <2>1. /\ call.at = "post" /\ call.from \in Channels /\ x \in Messages
        /\ x.id \in {"add", "remove"} /\ x.slot = call.slot /\ Says(x) = call.to
    BY <1>4 DEF Post, Typed, Messages, RemoveSend, AddSend, Says
  <2>2. /\ mail' = [mail EXCEPT ![call.from] = Append(@, x)]
        /\ mirror' = mirror /\ life' = life
    BY <1>4 DEF Post
  <2>3. mirror[call.from][call.slot].to = call.to
    BY <2>1 DEF HostInv
  <2> HIDE DEF x
  <2>4. Alive(i)
    BY <2>2 DEF Alive
  <2>5. mail[i] \in Seq(Messages) /\ (x \in SlotMail(s) <=> call.slot = s)
    BY <2>1, SlotMailIds DEF Typed, Impls
  <2>6. CASE i # call.from
    <3>1. mail'[i] = mail[i] /\ SlotFollows(i, s)
      BY <2>2, <2>4, <2>6 DEF Typed, Impls, SlotInv, Pending
    <3> QED
      BY <1>1, <2>2, <3>1 DEF SlotFollows, Chosen
  <2>7. CASE i = call.from
    <3>1. mail'[i] = Append(mail[i], x)
      BY <2>2, <2>7 DEF Typed, Impls
    <3>2. CASE call.slot = s
      <4>1. ~NoneIn(mail'[i], SlotMail(s)) /\ \A m : LastIn(mail'[i], SlotMail(s), m) => m = x
        BY <2>1, <2>5, <3>1, <3>2, SaysAppend
      <4> QED
        BY <2>1, <2>2, <2>3, <2>7, <3>2, <4>1 DEF SlotFollows
    <3>3. CASE call.slot # s
      <4>1. /\ NoneIn(mail'[i], SlotMail(s)) <=> NoneIn(mail[i], SlotMail(s))
            /\ \A m : LastIn(mail'[i], SlotMail(s), m) => LastIn(mail[i], SlotMail(s), m)
        BY <2>1, <2>5, <3>1, <3>3, SaysAppend
      <4>2. SlotFollows(i, s)
        BY <2>4, <3>3 DEF SlotInv, Pending
      <4> QED
        BY <1>1, <2>2, <4>1, <4>2 DEF SlotFollows, Chosen
    <3> QED
      BY <3>2, <3>3
  <2> QED
    BY <2>6, <2>7
<1>5. CASE Create(i)
  <2>1. /\ mail'[i] = <<>> /\ target'[i][s] = None /\ mirror'[i][s].to = None
    BY <1>1, <1>5 DEF Create, AbsentInv
  <2> QED
    BY <2>1 DEF SlotFollows, Chosen, LastIn
<1>6. CASE ~Post /\ ~Create(i)
  <2>1. Alive(i)
    <3>1. ASSUME NEW c \in Channels, Create(c) PROVE life'[i] = life[i]
      <4>1. c # i
        BY <1>6, <3>1
      <4> QED
        BY <3>1, <4>1 DEF Create, LifeInv
    <3>2. ASSUME NEW c \in Channels, RemoveInterface(c) PROVE life'[i] \in {life[i], "gone"}
      BY <3>2 DEF RemoveInterface, LifeInv
    <3> QED
      BY <1>6, <3>1, <3>2 DEF Alive, Host, Unregister, ClearSend, Send, SendDrops
  <2>2. call.at # "post"
    <3>1. ASSUME NEW c \in Channels, Create(c) \/ Unregister(c) \/ RemoveInterface(c)
          PROVE  call.at # "post"
      BY <3>1 DEF Create, Unregister, RemoveInterface, Idle
    <3>2. ASSUME NEW c \in Channels, NEW u \in Slots, ClearSend(c, u) PROVE call.at # "post"
      BY <3>2 DEF ClearSend, Idle
    <3>3. ASSUME NEW c \in Channels, NEW u \in Slots, NEW r \in Returns, Send(c, u, r)
          PROVE  call.at # "post"
      BY <3>3 DEF Send, Idle
    <3> QED
      BY <1>6, <3>1, <3>2, <3>3 DEF Host, SendDrops
  <2>3. SlotFollows(i, s)
    BY <2>1, <2>2 DEF SlotInv, Pending
  <2>4. mirror'[i][s] = mirror[i][s]
    <3>1. CASE mirror' = mirror
      BY <3>1
    <3>2. ASSUME NEW c \in Channels, RemoveInterface(c) PROVE mirror'[i][s] = mirror[i][s]
      <4>1. i # c
        BY <3>2 DEF RemoveInterface, Alive, LifeInv
      <4> QED
        BY <3>2, <4>1 DEF RemoveInterface, HostInv
    <3>3. ASSUME NEW c \in Channels, NEW u \in Slots, ClearSend(c, u)
          PROVE  mirror'[i][s] = mirror[i][s]
      <4>1. ~(c = i /\ u = s)
        BY <3>3 DEF ClearSend, Calling, Pending
      <4> QED
        BY <3>3, <4>1 DEF ClearSend, HostInv
    <3>4. CASE SendDrops
      <4>1. ~(call.from = i /\ call.slot = s)
        BY <3>4 DEF SendDrops, Calling, Pending
      <4> QED
        BY <3>4, <4>1 DEF SendDrops, HostInv
    <3> QED
      BY <1>6, <3>1, <3>2, <3>3, <3>4 DEF Host, Create, Unregister, Send
  <2>5. /\ NoneIn(mail'[i], SlotMail(s)) <=> NoneIn(mail[i], SlotMail(s))
        /\ \A m : LastIn(mail'[i], SlotMail(s), m) => LastIn(mail[i], SlotMail(s), m)
    BY <1>6, HostGenerates, GeneratesNoSends, NoSlotMail DEF Impls
  <2>6. Chosen(target[i][s], mirror[i][s].to) => Chosen(target[i][s], mirror[i][s].to)'
    BY <1>1, <1>2, <1>3, <2>4 DEF Chosen
  <2> QED
    BY <1>1, <2>3, <2>4, <2>5, <2>6 DEF SlotFollows
<1> QED
  BY <1>4, <1>5, <1>6


\* A slot written or kept, and the message that said so read.
LEMMA SlotRead ==
  ASSUME Typed, HostInv, SlotInv, NEW i \in Impls, mail[i] # <<>>,
         mail' = [mail EXCEPT ![i] = Tail(@)], UNCHANGED <<life, mirror, call>>,
         NEW c \in Channels, NEW s \in Slots, Alive(c), ~Pending(c, s),
         ~(c = i /\ Head(mail[i]) \in SlotMail(s)) => target'[c][s] = target[c][s],
         c = i /\ Head(mail[i]) \in SlotMail(s) => target'[c][s] = Says(Head(mail[i]))
  PROVE  SlotFollows(c, s)'
<1>1. SlotFollows(c, s)
  BY DEF SlotInv
<1>2. CASE c # i
  <2>1. mail'[c] = mail[c]
    BY <1>2 DEF Typed, Impls
  <2> QED
    BY <1>1, <1>2, <2>1 DEF SlotFollows, Chosen
<1>3. CASE c = i
  <2> DEFINE p == Tail(mail[i])
             h == Head(mail[i])
             S == SlotMail(s)
  <2>1. mail'[c] = p /\ mail[i] \in Seq(Messages)
    BY <1>3 DEF Typed
  <2>2. /\ NoneIn(mail[i], S) <=> NoneIn(p, S) /\ h \notin S
        /\ \A m : LastIn(p, S, m) => LastIn(mail[i], S, m)
        /\ h \in S /\ NoneIn(p, S) => LastIn(mail[i], S, h)
    BY <2>1, SaysTail
  <2>3. /\ NoneIn(mail[i], S) => Chosen(target[c][s], mirror[c][s].to)
        /\ \A m : LastIn(mail[i], S, m) => mirror[c][s].to = Says(m)
    BY <1>1, <1>3 DEF SlotFollows
  <2>4. /\ h \notin S => target'[c][s] = target[c][s]
        /\ h \in S => target'[c][s] = Says(h)
    BY <1>3
  <2> HIDE DEF p, h, S
  <2>5. NoneIn(p, S) => Chosen(target[c][s], mirror[c][s].to)'
    BY <2>2, <2>3, <2>4 DEF Chosen
  <2>6. \A m : LastIn(p, S, m) => mirror'[c][s].to = Says(m)
    BY <2>2, <2>3
  <2> QED
    BY <2>1, <2>5, <2>6 DEF SlotFollows, S
<1> QED
  BY <1>2, <1>3

\* and a step of the audio thread.
LEMMA AudioKeepsSlots ==
  ASSUME LifeInv, Typed, Agree, HostInv, AbsentInv, SlotInv, AudioThread
  PROVE  SlotInv'
<1> USE SendAssumption
<1>1. UNCHANGED <<life, mirror, call>>
  BY DEF AudioThread, BeginUpdate, Promote, NotReady, BeginSync, Render, Sync, ReadsHead,
     ApplyAdd, ApplyRemove, ApplyGeneration, Synced, Release, control
<1>2. CASE UNCHANGED <<mail, target>>
  BY <1>1, <1>2 DEF SlotInv, SlotFollows, Alive, Pending, Chosen
<1> SUFFICES ASSUME NEW c \in Channels, NEW s \in Slots, Alive(c), ~Pending(c, s)
             PROVE  SlotFollows(c, s)'
  BY <1>1 DEF SlotInv, Alive, Pending
<1>3. ASSUME NEW i \in Impls, ApplyAdd(i) PROVE SlotFollows(c, s)'
  <2> DEFINE h == Head(mail[i])
  <2>1. /\ mail[i] # <<>> /\ mail' = [mail EXCEPT ![i] = Tail(@)]
        /\ h.id = "add" /\ target' = [target EXCEPT ![i][h.slot] = h.to]
    BY <1>3 DEF ApplyAdd, Retargets
  <2>2. h \in Messages
    BY <2>1, MailTail DEF Typed
  <2>3. h.slot \in Slots /\ Says(h) = h.to /\ (h \in SlotMail(s) <=> h.slot = s)
    BY <2>1, <2>2, SlotMailIds DEF Messages, Says
  <2> HIDE DEF h
  <2>4. target'[c][s] = IF c = i /\ s = h.slot THEN h.to ELSE target[c][s]
    BY <2>1, <2>3 DEF Typed, Impls
  <2> QED
    BY <1>1, <2>1, <2>3, <2>4, SlotRead DEF h
<1>4. ASSUME NEW i \in Impls, ApplyRemove(i) PROVE SlotFollows(c, s)'
  <2> DEFINE h == Head(mail[i])
  <2>1. /\ mail[i] # <<>> /\ mail' = [mail EXCEPT ![i] = Tail(@)]
        /\ h.id = "remove" /\ target' = [target EXCEPT ![i][h.slot] = None]
    BY <1>4 DEF ApplyRemove
  <2>2. h \in Messages
    BY <2>1, MailTail DEF Typed
  <2>3. h.slot \in Slots /\ Says(h) = None /\ (h \in SlotMail(s) <=> h.slot = s)
    BY <2>1, <2>2, SlotMailIds DEF Messages, Says
  <2> HIDE DEF h
  <2>4. target'[c][s] = IF c = i /\ s = h.slot THEN None ELSE target[c][s]
    BY <2>1, <2>3 DEF Typed, Impls
  <2> QED
    BY <1>1, <2>1, <2>3, <2>4, SlotRead DEF h
<1>5. ASSUME NEW i \in Impls, ApplyGeneration(i) PROVE SlotFollows(c, s)'
  <2> DEFINE h == Head(mail[i])
  <2>1. /\ mail[i] # <<>> /\ mail' = [mail EXCEPT ![i] = Tail(@)]
        /\ h.id = "generation" /\ target' = target
    BY <1>5 DEF ApplyGeneration, sends
  <2>2. h \in Messages
    BY <2>1, MailTail DEF Typed
  <2>3. h \notin SlotMail(s)
    BY <2>1, <2>2, SlotMailIds
  <2> HIDE DEF h
  <2> QED
    BY <1>1, <2>1, <2>3, SlotRead DEF h
<1>6. ASSUME NEW i \in Impls, Release(i) PROVE SlotFollows(c, s)'
  <2>1. /\ mail' = [mail EXCEPT ![i] = <<>>] /\ ~head[i]
        /\ target' = [j \in Impls |-> [u \in Slots |->
             IF j = i \/ <<j, u>> \in registry[i] THEN None ELSE target[j][u]]]
    BY <1>6 DEF Release, DetachSends, CutOff
  <2>2. c # i /\ mail'[c] = mail[c]
    BY <2>1 DEF LifeInv, Alive, Typed, Impls
  <2>3. target'[c][s] = IF target[c][s] = i THEN None ELSE target[c][s]
    BY <2>1, <2>2 DEF Agree, Impls
  <2>4. SlotFollows(c, s)
    BY DEF SlotInv
  <2>5. ASSUME target[c][s] = i, i = mirror[c][s].to PROVE life[i] = "gone"
    <3>1. life[i] # "absent"
      BY <2>5 DEF HostInv, Impls
    <3>2. life[i] # "alive"
      BY <2>1 DEF LifeInv, Impls
    <3> QED
      BY <3>1, <3>2 DEF LifeInv, Lifetimes, Impls
  <2>6. i # None
    BY DEF Impls
  <2>7. Chosen(target[c][s], mirror[c][s].to) => Chosen(target[c][s], mirror[c][s].to)'
    BY <1>1, <2>3, <2>5, <2>6 DEF Chosen
  <2> QED
    BY <1>1, <2>2, <2>4, <2>7 DEF SlotFollows
<1>7. UNCHANGED <<mail, target>> => SlotFollows(c, s)'
  BY <1>1 DEF SlotInv, SlotFollows, Chosen
<1> QED
  BY <1>3, <1>4, <1>5, <1>6, <1>7 DEF AudioThread, BeginUpdate, Promote, NotReady, BeginSync,
     Render, Sync, ReadsHead, Synced, sends

\* Every behaviour keeps both.
LEMMA FollowInvariant == Spec => [](GenInv /\ SlotInv)
<1>1. Init => GenInv /\ SlotInv
  BY SendAssumption DEF Init, GenInv, SlotInv, Alive
<1>2. /\ LifeInv /\ Typed /\ Agree /\ HostInv /\ AbsentInv /\ GenInv /\ SlotInv /\ [Next]_vars
      => (GenInv /\ SlotInv)'
  <2> SUFFICES ASSUME LifeInv, Typed, Agree, HostInv, AbsentInv, GenInv, SlotInv, [Next]_vars
               PROVE  GenInv' /\ SlotInv'
    OBVIOUS
  <2>1. CASE Host BY <2>1, HostKeepsGen, HostKeepsSlots
  <2>2. CASE AudioThread BY <2>2, AudioKeepsGen, AudioKeepsSlots
  <2>3. CASE (\E i \in Impls : Setup(i)) \/ UNCHANGED vars
    <3>1. UNCHANGED <<life, nodes, posted, mirror, call, mail, gen, target>>
      BY <2>3 DEF Setup, vars, control, wiring, sends, graph
    <3> QED
      BY <3>1 DEF GenInv, SlotInv, SlotFollows, Alive, Pending, Chosen
  <2> QED BY <2>1, <2>2, <2>3 DEF Next
<1> QED
  BY <1>1, <1>2, HostInvariant, PTL DEF Spec

(***************************************************************************)
(* Generations                                                             *)
(***************************************************************************)

\* A set of numbers that holds the least of them and the next of each holds all.
LEMMA AllNumbers ==
  ASSUME NEW S \in SUBSET Nat, 0 \in S, \A n \in S : n + 1 \in S
  PROVE  S = Nat
<1> SUFFICES ASSUME Nat \ S # {} PROVE FALSE OBVIOUS
<1> DEFINE R == OpToRel(<, Nat)
<1>1. \A x, y \in Nat : <<x, y>> \in R <=> x < y BY DEF OpToRel
<1>2. IsWellFoundedOn(R, Nat) BY NatLessThanWellFounded
<1> HIDE DEF R
<1>3. PICK x \in Nat \ S : \A y \in Nat \ S : ~(<<y, x>> \in R) BY <1>2, WFMin
<1>4. x # 0 /\ x - 1 \in Nat OBVIOUS
<1>5. x - 1 \in S
  <2>1. x \in Nat /\ x - 1 < x BY <1>3
  <2>2. <<x - 1, x>> \in R BY <1>1, <1>4, <2>1
  <2> QED BY <1>3, <1>4, <2>2
<1>6. (x - 1) + 1 = x BY <1>3
<1> QED BY <1>3, <1>5, <1>6

\* Numbers that have a bound have a largest one.
LEMMA MaxIs ==
  ASSUME NEW S \in SUBSET Nat, S # {}, NEW b \in Nat, \A y \in S : y <= b
  PROVE  Max(S) \in S /\ \A y \in S : y <= Max(S)
<1>1. \E x \in S : \A y \in S : x >= y
  <2> SUFFICES ASSUME \A x \in S : \E y \in S : ~(x >= y) PROVE FALSE OBVIOUS
  <2> DEFINE T == {n \in Nat : \E y \in S : y >= n}
  <2>1. 0 \in T
    <3>1. PICK y \in S : TRUE OBVIOUS
    <3>2. y >= 0 OBVIOUS
    <3> QED BY <3>2
  <2>2. ASSUME NEW n \in T PROVE n + 1 \in T
    <3>1. PICK y \in S : y >= n OBVIOUS
    <3>2. PICK z \in S : ~(y >= z) OBVIOUS
    <3> QED BY <3>1, <3>2
  <2>3. T = Nat
    <3>1. T \in SUBSET Nat OBVIOUS
    <3> HIDE DEF T
    <3> QED BY ONLY <2>1, <2>2, <3>1, AllNumbers
  <2>4. b + 1 \in T BY <2>3
  <2> QED BY <2>4
<1> QED BY <1>1 DEF Max

\* One pass of the relaxation, and what the passes are.
Zero == [t \in Returns |-> 0]
Offers(N, E, v, t) == {v[t]} \union {v[f] + 1 : f \in {f \in N : E[<<f, t>>] > 0}}
Relax(N, E, v) == [t \in Returns |-> Max(Offers(N, E, v, t))]
Passes(N, E, p) ==
  [k \in 0..Cardinality(N) |-> IF k = 0 THEN Zero ELSE Relax(N, E, p[k - 1])]

LEMMA GenerationsUnfold ==
  ASSUME NEW N, NEW E
  PROVE  Generations(N, E) = (CHOOSE p : p = Passes(N, E, p))[Cardinality(N)]
BY DEF Generations, Passes, Relax, Offers, Zero

\* There are such passes.
LEMMA PassesAre ==
  ASSUME NEW N, NEW E, Cardinality(N) \in Nat
  PROVE  \E p : p = Passes(N, E, p) /\ Generations(N, E) = p[Cardinality(N)]
<1> DEFINE Upto(m, p) ==
      p = [k \in 0..m |-> IF k = 0 THEN Zero ELSE Relax(N, E, p[k - 1])]
    D == {m \in Nat : \E p : Upto(m, p)}
<1>1. 0 \in D
  <2>1. Upto(0, [k \in 0..0 |-> Zero]) OBVIOUS
  <2> QED BY <2>1
<1>2. ASSUME NEW m \in D PROVE m + 1 \in D
  <2>1. PICK p : Upto(m, p) OBVIOUS
  <2> DEFINE q == [k \in 0..(m + 1) |-> IF k = 0 THEN Zero ELSE Relax(N, E, p[k - 1])]
  <2>2. \A k \in 0..m : q[k] = p[k] BY <2>1
  <2>3. ASSUME NEW k \in 0..(m + 1), k # 0 PROVE q[k - 1] = p[k - 1]
    <3>1. k - 1 \in 0..m BY <2>3
    <3> QED BY <2>2, <3>1
  <2>4. \A k \in 0..(m + 1) : q[k] = IF k = 0 THEN Zero ELSE Relax(N, E, q[k - 1]) BY <2>3
  <2>5. q = [k \in 0..(m + 1) |-> q[k]] OBVIOUS
  <2>6. Upto(m + 1, q)
    <3> HIDE DEF q
    <3> QED BY ONLY <2>4, <2>5
  <2>7. m + 1 \in Nat OBVIOUS
  <2> HIDE DEF q, Upto
  <2> QED BY <2>6, <2>7
<1>3. D = Nat
  <2>1. D \in SUBSET Nat OBVIOUS
  <2> HIDE DEF D
  <2> QED BY ONLY <1>1, <1>2, <2>1, AllNumbers
<1>4. \E p : p = Passes(N, E, p)
  <2>1. Cardinality(N) \in D BY <1>3
  <2> QED BY <2>1 DEF Passes
<1> QED BY <1>4, GenerationsUnfold

\* A pass takes the largest of what it is offered.
LEMMA RelaxIs ==
  ASSUME NEW N \in SUBSET Returns, NEW E, NEW b \in Nat, NEW v \in [Returns -> 0..b]
  PROVE  /\ Relax(N, E, v) \in [Returns -> 0..(b + 1)]
         /\ \A t \in Returns :
              /\ Relax(N, E, v)[t] \in Offers(N, E, v, t)
              /\ \A y \in Offers(N, E, v, t) : y <= Relax(N, E, v)[t]
<1>1. ASSUME NEW t \in Returns
      PROVE  /\ Max(Offers(N, E, v, t)) \in Offers(N, E, v, t)
             /\ \A y \in Offers(N, E, v, t) : y <= Max(Offers(N, E, v, t))
             /\ Max(Offers(N, E, v, t)) \in 0..(b + 1)
  <2> DEFINE O == Offers(N, E, v, t)
  <2>1. O # {} /\ \A y \in O : y \in 0..(b + 1)
    <3>1. v[t] \in 0..(b + 1) /\ v[t] \in O BY DEF Offers
    <3>2. \A f \in N : v[f] + 1 \in 0..(b + 1) OBVIOUS
    <3> QED BY <3>1, <3>2 DEF Offers
  <2> HIDE DEF O
  <2>2. O \in SUBSET Nat /\ b + 1 \in Nat /\ \A y \in O : y <= b + 1 BY <2>1
  <2>3. Max(O) \in O /\ \A y \in O : y <= Max(O) BY <2>1, <2>2, MaxIs
  <2> QED BY <2>1, <2>3 DEF O
<1> QED BY <1>1 DEF Relax

\* After k passes nothing is above k.
LEMMA PassBounds ==
  ASSUME NEW N \in SUBSET Returns, NEW E, Cardinality(N) \in Nat, NEW p, p = Passes(N, E, p)
  PROVE  \A k \in 0..Cardinality(N) : p[k] \in [Returns -> 0..k]
<1> DEFINE n == Cardinality(N)
           D == {k \in Nat : k <= n => p[k] \in [Returns -> 0..k]}
<1>1. 0 \in D
  <2>1. p[0] = Zero BY DEF Passes
  <2> QED BY <2>1 DEF Zero
<1>2. ASSUME NEW k \in D PROVE k + 1 \in D
  <2>1. CASE k + 1 <= n
    <3>1. k + 1 \in 0..n /\ (k + 1) - 1 = k /\ k + 1 # 0 /\ k <= n BY <2>1
    <3>2. p[k + 1] = Relax(N, E, p[k]) BY <3>1 DEF Passes
    <3>3. p[k] \in [Returns -> 0..k] BY <3>1
    <3>4. Relax(N, E, p[k]) \in [Returns -> 0..(k + 1)]
      <4>1. k \in Nat OBVIOUS
      <4> QED BY ONLY <3>3, <4>1, RelaxIs, N \in SUBSET Returns
    <3> QED BY <3>2, <3>4
  <2>2. CASE ~(k + 1 <= n) BY <2>2
  <2> QED BY <2>1, <2>2
<1>3. D = Nat
  <2>1. D \in SUBSET Nat OBVIOUS
  <2> HIDE DEF D
  <2> QED BY ONLY <1>1, <1>2, <2>1, AllNumbers
<1> QED BY <1>3

\* Where edges raise a rank, what ranks k changes no more after k passes.
LEMMA PassesSettle ==
  ASSUME NEW N \in SUBSET Returns, NEW E, Cardinality(N) \in Nat, NEW p, p = Passes(N, E, p),
         NEW s \in [Returns -> Nat], \A f, t \in N : E[<<f, t>>] > 0 => s[f] < s[t]
  PROVE  \A k \in 0..(Cardinality(N) - 1) : \A t \in N : s[t] <= k => p[k + 1][t] = p[k][t]
<1> DEFINE n == Cardinality(N)
           Still(k) == \A t \in N : s[t] <= k => p[k + 1][t] = p[k][t]
           D == {k \in Nat : k < n => Still(k)}
<1>0. \A k \in 0..n : p[k] \in [Returns -> 0..k] BY PassBounds
<1>1. ASSUME NEW k \in 0..(n - 1)
      PROVE  /\ k \in Nat /\ k \in 0..n /\ k + 1 \in 0..n
             /\ p[k + 1] = Relax(N, E, p[k]) /\ p[k] \in [Returns -> 0..k]
  <2>1. k + 1 \in 0..n /\ (k + 1) - 1 = k /\ k + 1 # 0 /\ k \in 0..n /\ k \in Nat OBVIOUS
  <2>2. p[k + 1] = Relax(N, E, p[k]) BY <2>1 DEF Passes
  <2> QED BY <1>0, <2>1, <2>2
<1>2. 0 \in D
  <2> SUFFICES ASSUME 0 < n, NEW t \in N, s[t] <= 0 PROVE p[1][t] = p[0][t] OBVIOUS
  <2>1. 0 \in 0..(n - 1) /\ 0 + 1 = 1 OBVIOUS
  <2>2. p[1] = Relax(N, E, p[0]) /\ p[0] \in [Returns -> 0..0] BY <1>1, <2>1
  <2>3. {f \in N : E[<<f, t>>] > 0} = {} OBVIOUS
  <2>4. Offers(N, E, p[0], t) = {p[0][t]} BY <2>3 DEF Offers
  <2>5. Relax(N, E, p[0])[t] \in Offers(N, E, p[0], t)
    <3>1. t \in Returns /\ 0 \in Nat OBVIOUS
    <3> QED BY ONLY <2>2, <3>1, RelaxIs, N \in SUBSET Returns
  <2> QED BY <2>2, <2>4, <2>5
<1>3. ASSUME NEW k \in D PROVE k + 1 \in D
  <2> SUFFICES ASSUME k + 1 < n, NEW t \in N, s[t] <= k + 1
               PROVE  p[k + 1 + 1][t] = p[k + 1][t]
    OBVIOUS
  <2>1. k \in 0..(n - 1) /\ k + 1 \in 0..(n - 1) /\ Still(k) OBVIOUS
  <2> DEFINE u == p[k]
             v == p[k + 1]
             w == p[k + 1 + 1]
  <2>2. v = Relax(N, E, u) /\ u \in [Returns -> 0..k] /\ k \in Nat BY <1>1, <2>1
  <2>3. w = Relax(N, E, v) /\ v \in [Returns -> 0..(k + 1)] /\ k + 1 \in Nat BY <1>1, <2>1
  <2>4. \A f \in N : E[<<f, t>>] > 0 => v[f] = u[f]
    <3> SUFFICES ASSUME NEW f \in N, E[<<f, t>>] > 0 PROVE v[f] = u[f] OBVIOUS
    <3>1. s[f] < s[t] OBVIOUS
    <3>2. s[f] <= k BY <2>2, <3>1
    <3> QED BY <2>1, <3>2
  <2> HIDE DEF u, v, w
  <2>5. t \in Returns OBVIOUS
  <2>6. \A y \in Offers(N, E, u, t) : y <= v[t]
    BY ONLY <2>2, <2>5, RelaxIs, N \in SUBSET Returns
  <2>7. /\ w[t] \in Offers(N, E, v, t)
        /\ \A y \in Offers(N, E, v, t) : y <= w[t]
    BY ONLY <2>3, <2>5, RelaxIs, N \in SUBSET Returns
  <2>8. v[t] \in 0..(k + 1) /\ \A y \in Offers(N, E, v, t) : y <= v[t]
    <3>1. v[t] \in 0..(k + 1) BY <2>3
    <3>2. \A f \in N : E[<<f, t>>] > 0 => u[f] + 1 <= v[t] BY <2>6 DEF Offers
    <3>3. \A f \in N : E[<<f, t>>] > 0 => v[f] + 1 <= v[t] BY <2>4, <3>2
    <3>4. ASSUME NEW y \in Offers(N, E, v, t) PROVE y <= v[t]
      <4>1. CASE y = v[t] BY <3>1, <4>1
      <4>2. CASE y # v[t] BY <3>3, <4>2 DEF Offers
      <4> QED BY <4>1, <4>2
    <3> QED BY <3>1, <3>4
  <2>9. v[t] <= w[t] /\ w[t] <= v[t] BY <2>7, <2>8 DEF Offers
  <2>10. w[t] \in 0..(k + 2)
    <3>1. w \in [Returns -> 0..(k + 1 + 1)] BY ONLY <2>3, RelaxIs, N \in SUBSET Returns
    <3> QED BY <2>5, <3>1
  <2>11. w[t] = v[t] BY <2>8, <2>9, <2>10
  <2> QED BY <2>11 DEF v, w
<1>4. D = Nat
  <2>1. D \in SUBSET Nat OBVIOUS
  <2> HIDE DEF D
  <2> QED BY ONLY <1>2, <1>3, <2>1, AllNumbers
<1> QED BY <1>4

\* How many rank below a node is a rank, and less than there are nodes.
LEMMA RanksPacked ==
  ASSUME NEW N \in SUBSET Returns, IsFiniteSet(N), NEW r \in [Returns -> Nat]
  PROVE  \E s \in [Returns -> Nat] :
           /\ \A f, t \in N : r[f] < r[t] => s[f] < s[t]
           /\ \A t \in N : s[t] < Cardinality(N)
<1> DEFINE Below(t) == {u \in N : r[u] < r[t]}
           s == [t \in Returns |-> Cardinality(Below(t))]
<1>0. \A t \in N : s[t] = Cardinality(Below(t)) OBVIOUS
<1>1. ASSUME NEW t \in Returns PROVE IsFiniteSet(Below(t)) /\ Cardinality(Below(t)) \in Nat
  BY FS_Subset, FS_CardinalityType
<1>2. s \in [Returns -> Nat] BY <1>1
<1>3. ASSUME NEW f \in N, NEW t \in N, r[f] < r[t] PROVE s[f] < s[t]
  <2>1. Below(f) \subseteq Below(t) BY <1>3
  <2>2. f \in Below(t) /\ f \notin Below(f) BY <1>3
  <2>3. /\ Cardinality(Below(f)) <= Cardinality(Below(t))
        /\ Cardinality(Below(f)) # Cardinality(Below(t))
    BY <1>1, <2>1, <2>2, FS_Subset
  <2>4. s[f] = Cardinality(Below(f)) /\ s[t] = Cardinality(Below(t)) BY <1>0
  <2>5. s[f] \in Nat /\ s[t] \in Nat BY <1>2
  <2> HIDE DEF s, Below
  <2> QED BY ONLY <2>3, <2>4, <2>5
<1>4. ASSUME NEW t \in N PROVE s[t] < Cardinality(N)
  <2>1. Below(t) \subseteq N /\ t \notin Below(t) OBVIOUS
  <2>2. Cardinality(Below(t)) <= Cardinality(N) /\ Cardinality(Below(t)) # Cardinality(N)
    BY <2>1, FS_Subset
  <2>3. s[t] = Cardinality(Below(t)) /\ s[t] \in Nat BY <1>0, <1>2
  <2>4. Cardinality(N) \in Nat BY FS_CardinalityType
  <2> HIDE DEF s, Below
  <2> QED BY ONLY <2>2, <2>3, <2>4
<1> HIDE DEF s
<1> QED BY <1>2, <1>3, <1>4

\* Where edges raise some rank, they raise the generation.
LEMMA GenerationsRise ==
  ASSUME NEW N \in SUBSET Returns, IsFiniteSet(N), NEW E, NEW r \in [Returns -> Nat],
         \A f, t \in N : E[<<f, t>>] > 0 => r[f] < r[t]
  PROVE  /\ Generations(N, E) \in [Returns -> Nat]
         /\ \A f, t \in N : E[<<f, t>>] > 0 => Generations(N, E)[f] < Generations(N, E)[t]
<1> DEFINE n == Cardinality(N)
<1>1. n \in Nat BY FS_CardinalityType
<1>2. PICK p : p = Passes(N, E, p) /\ Generations(N, E) = p[n] BY <1>1, PassesAre
<1>3. \A k \in 0..n : p[k] \in [Returns -> 0..k] BY <1>1, <1>2, PassBounds
<1>4. Generations(N, E) \in [Returns -> Nat]
  <2>1. p[n] \in [Returns -> 0..n] BY <1>1, <1>3
  <2> QED BY <1>1, <1>2, <2>1
<1>5. ASSUME NEW f \in N, NEW t \in N, E[<<f, t>>] > 0 PROVE p[n][f] < p[n][t]
  <2>1. PICK s \in [Returns -> Nat] :
           /\ \A x, y \in N : r[x] < r[y] => s[x] < s[y]
           /\ \A x \in N : s[x] < n
    BY RanksPacked
  <2>2. \A x, y \in N : E[<<x, y>>] > 0 => s[x] < s[y] BY <2>1
  <2>3. n # 0 /\ n - 1 \in Nat /\ n - 1 \in 0..(n - 1) /\ (n - 1) + 1 = n
    <3>1. s[f] < n /\ s[f] \in Nat BY <2>1
    <3> QED BY <1>1, <3>1
  <2>4. \A k \in 0..(n - 1) : \A x \in N : s[x] <= k => p[k + 1][x] = p[k][x]
    <3> QED BY ONLY <1>1, <1>2, <2>2, PassesSettle, N \in SUBSET Returns, s \in [Returns -> Nat]
  <2>5. p[n][f] = p[n - 1][f]
    <3>1. s[f] <= n - 1 BY <1>1, <2>1
    <3> QED BY <2>3, <2>4, <3>1
  <2> DEFINE v == p[n - 1]
  <2>6. p[n] = Relax(N, E, v) /\ v \in [Returns -> 0..(n - 1)]
    <3>1. n \in 0..n /\ n - 1 \in 0..n BY <1>1, <2>3
    <3>2. p[n] = Relax(N, E, v) BY <1>2, <2>3, <3>1 DEF Passes
    <3> QED BY <1>3, <3>1, <3>2
  <2> HIDE DEF v
  <2>7. \A y \in Offers(N, E, v, t) : y <= Relax(N, E, v)[t]
    <3>1. t \in Returns OBVIOUS
    <3> QED BY ONLY <2>3, <2>6, <3>1, RelaxIs, N \in SUBSET Returns
  <2>8. v[f] + 1 \in Offers(N, E, v, t) BY <1>5 DEF Offers
  <2>9. v[f] + 1 <= p[n][t] BY <2>6, <2>7, <2>8
  <2>10. v[f] \in Nat /\ p[n][t] \in Nat BY <1>2, <1>4, <2>6
  <2> QED BY <2>5, <2>9, <2>10 DEF v
<1> QED BY <1>2, <1>4, <1>5

\* Every return that is alive and not being destroyed is in the wiring graph.
LayerInv ==
  /\ \A r \in Returns : Alive(r) /\ ~(call.at = "release" /\ call.from = r) => r \in nodes
  /\ posted \in [Returns -> Nat]
  /\ EdgesRise

\* Generations computed anew layer any wiring that some rank layers.
LEMMA RecomputeLayers ==
  ASSUME NEW N \in SUBSET Returns, NEW E, NEW r \in [Returns -> Nat], Recompute(N, E),
         \A f, t \in Returns : E[<<f, t>>] > 0 => {f, t} \subseteq N /\ r[f] < r[t]
  PROVE  posted' \in [Returns -> Nat] /\ EdgesRise'
<1> DEFINE g == Generations(N, E)
<1>1. IsFiniteSet(N)
  BY SendAssumption, FS_Subset
<1>2. g \in [Returns -> Nat] /\ \A f, t \in N : E[<<f, t>>] > 0 => g[f] < g[t]
  BY <1>1, GenerationsRise
<1>3. nodes' = N /\ edges' = E /\ posted' = [x \in Returns |-> IF x \in N THEN g[x] ELSE 0]
  BY DEF Recompute
<1> HIDE DEF g
<1> QED
  BY <1>2, <1>3 DEF EdgesRise

\* A removed edge leaves the rest of the wiring as it was.
LEMMA WithoutEdges ==
  ASSUME NEW E \in [Returns \X Returns -> Nat], NEW c, NEW d,
         NEW f \in Returns, NEW t \in Returns, Without(E, c, d)[<<f, t>>] > 0
  PROVE  E[<<f, t>>] > 0
<1>1. CASE <<f, t>> = <<c, d>>
  BY <1>1 DEF Without
<1>2. CASE <<f, t>> # <<c, d>>
  <2>1. Without(E, c, d)[<<f, t>>] = E[<<f, t>>] BY <1>2 DEF Without
  <2> QED BY <2>1
<1> QED BY <1>1, <1>2

\* Dropping a slot's edge, or having none to drop, keeps the layers.
LEMMA DropEdgeLayers ==
  ASSUME Typed, LayerInv, NEW c, NEW s, DropEdge(c, s)
  PROVE  posted' \in [Returns -> Nat] /\ EdgesRise' /\ nodes' = nodes
<1>1. CASE mirror[c][s].edge
  <2> DEFINE E == Without(edges, c, mirror[c][s].to)
  <2>1. Recompute(nodes, E) BY <1>1 DEF DropEdge
  <2>2. \A f, t \in Returns : E[<<f, t>>] > 0 => edges[<<f, t>>] > 0 BY WithoutEdges DEF Typed
  <2>3. nodes \in SUBSET Returns BY DEF Typed
  <2> HIDE DEF E
  <2>4. posted' \in [Returns -> Nat] /\ EdgesRise'
    BY <2>1, <2>2, <2>3, RecomputeLayers DEF LayerInv, EdgesRise
  <2> QED BY <2>1, <2>4 DEF Recompute
<1>2. CASE ~mirror[c][s].edge
  BY <1>2 DEF DropEdge, wiring, LayerInv, EdgesRise
<1> QED BY <1>1, <1>2

\* An edge between returns that are not linked the other way closes no cycle.
LEMMA SendLayers ==
  ASSUME Typed, LayerInv, NEW c \in nodes, NEW r \in nodes, ~Reachable(r, c),
         Recompute(nodes, [edges EXCEPT ![<<c, r>>] = @ + 1])
  PROVE  posted' \in [Returns -> Nat] /\ EdgesRise'
<1> DEFINE E == [edges EXCEPT ![<<c, r>>] = @ + 1]
           top == posted[c] + 1
           rank == [u \in Returns |-> posted[u] + (IF Reachable(r, u) THEN top ELSE 0)]
<1>1. nodes \in SUBSET Returns /\ edges \in [Returns \X Returns -> Nat] BY DEF Typed
<1>2. posted \in [Returns -> Nat] /\ top \in Nat BY <1>1 DEF LayerInv
<1>3. Reachable(r, r) BY DEF Reachable
<1>4. \A f, t \in Returns : Reachable(r, f) /\ edges[<<f, t>>] > 0 => Reachable(r, t)
  BY DEF Reachable, Closed
<1>5. \A f, t \in Returns : E[<<f, t>>] > 0 => <<f, t>> = <<c, r>> \/ edges[<<f, t>>] > 0
  BY <1>1
<1>6. rank \in [Returns -> Nat]
  <2> HIDE DEF top
  <2> QED BY <1>2
<1>7. ASSUME NEW f \in Returns, NEW t \in Returns, E[<<f, t>>] > 0
      PROVE  {f, t} \subseteq nodes /\ rank[f] < rank[t]
  <2>1. CASE <<f, t>> = <<c, r>>
    <3>1. f = c /\ t = r BY <2>1
    <3>2. rank[f] = posted[c] /\ rank[t] = posted[r] + top BY <1>2, <1>3, <3>1
    <3> QED BY <1>1, <1>2, <3>1, <3>2
  <2>2. CASE edges[<<f, t>>] > 0
    <3>1. {f, t} \subseteq nodes /\ posted[f] < posted[t] BY <2>2 DEF LayerInv, EdgesRise
    <3>2. Reachable(r, f) => Reachable(r, t) BY <1>4, <2>2
    <3>3. posted[f] \in Nat /\ posted[t] \in Nat BY <1>2
    <3>4. /\ rank[f] = posted[f] + (IF Reachable(r, f) THEN top ELSE 0)
          /\ rank[t] = posted[t] + (IF Reachable(r, t) THEN top ELSE 0)
      OBVIOUS
    <3> HIDE DEF rank, top
    <3> QED BY <1>2, <3>1, <3>2, <3>3, <3>4
  <2> QED BY <1>5, <1>7, <2>1, <2>2
<1>8. Recompute(nodes, E) OBVIOUS
<1> HIDE DEF E, rank
<1> QED BY <1>1, <1>6, <1>7, <1>8, RecomputeLayers

\* Only the host changes the wiring.
LEMMA HostKeepsLayers ==
  ASSUME LifeInv, Typed, HostInv, LayerInv, Host
  PROVE  LayerInv'
<1> USE SendAssumption
<1>1. ASSUME NEW c \in Channels, Create(c) PROVE LayerInv'
  BY <1>1 DEF Create, LayerInv, EdgesRise, Alive, LifeInv, Idle
<1>2. ASSUME NEW c \in Channels, Unregister(c) PROVE LayerInv'
  <2> DEFINE N == Unregistered(c)
             E == WithoutReturn(c)
  <2>1. Recompute(N, E) /\ life' = life /\ call'.at = "release" /\ call'.from = c /\ call = Idle
    BY <1>2 DEF Unregister, Calling
  <2>2. N \in SUBSET Returns BY DEF Unregistered, Typed
  <2>3. ASSUME NEW f \in Returns, NEW t \in Returns, E[<<f, t>>] > 0
        PROVE  edges[<<f, t>>] > 0 /\ f # c /\ t # c
    <3>1. E[<<f, t>>] = IF c \in {f, t} THEN 0 ELSE edges[<<f, t>>] BY DEF WithoutReturn
    <3> QED BY <2>3, <3>1
  <2>4. \A f, t \in Returns : E[<<f, t>>] > 0 => {f, t} \subseteq N /\ posted[f] < posted[t]
    BY <2>3 DEF Unregistered, LayerInv, EdgesRise
  <2> HIDE DEF E
  <2>5. posted' \in [Returns -> Nat] /\ EdgesRise'
    BY <2>1, <2>2, <2>4, RecomputeLayers DEF LayerInv
  <2>6. nodes' = nodes \ {c} BY <2>1 DEF Recompute, Unregistered
  <2> QED BY <2>1, <2>5, <2>6 DEF LayerInv, Alive, Idle
<1>3. ASSUME NEW c \in Channels, RemoveInterface(c) PROVE LayerInv'
  BY <1>3 DEF RemoveInterface, LayerInv, EdgesRise, Alive, LifeInv, Idle, wiring
<1>4. ASSUME NEW c \in Channels, NEW s \in Slots, ClearSend(c, s) PROVE LayerInv'
  <2>1. posted' \in [Returns -> Nat] /\ EdgesRise' /\ nodes' = nodes
    BY <1>4, DropEdgeLayers DEF ClearSend
  <2> QED BY <1>4, <2>1 DEF ClearSend, LayerInv, Alive, Idle, Calling
<1>5. ASSUME NEW c \in Channels, NEW s \in Slots, NEW r \in Returns, Send(c, s, r) PROVE LayerInv'
  <2>1. call = Idle /\ Alive(c) /\ Alive(r) /\ life' = life /\ call'.at = "drop"
      BY <1>5 DEF Send, Calling
  <2>2. posted' \in [Returns -> Nat] /\ EdgesRise' /\ nodes' = nodes
    <3>1. CASE c \notin Returns BY <1>5, <3>1 DEF Send, wiring, LayerInv, EdgesRise
    <3>2. CASE c \in Returns
      <4>1. c \in nodes /\ r \in nodes BY <2>1, <3>2 DEF LayerInv, Idle
      <4>2. ~Reachable(r, c) /\ Recompute(nodes, [edges EXCEPT ![<<c, r>>] = @ + 1])
        BY <1>5, <3>2 DEF Send
      <4> QED BY <4>1, <4>2, SendLayers DEF Recompute
    <3> QED BY <3>1, <3>2
  <2> QED BY <2>1, <2>2 DEF LayerInv, Alive, Idle
<1>6. CASE SendDrops
  <2>1. posted' \in [Returns -> Nat] /\ EdgesRise' /\ nodes' = nodes
    BY <1>6, DropEdgeLayers DEF SendDrops
  <2> QED BY <1>6, <2>1 DEF SendDrops, LayerInv, Alive, Calling
<1>7. CASE Post
  BY <1>7 DEF Post, LayerInv, EdgesRise, Alive, Idle, wiring
<1> QED
  BY <1>1, <1>2, <1>3, <1>4, <1>5, <1>6, <1>7 DEF Host

\* A slot's edge leads from a return, and a return's send is an edge.
EdgeInv ==
  /\ EdgesAreSends
  /\ \A c \in Channels, s \in Slots :
       mirror[c][s].edge <=> c \in Returns /\ mirror[c][s].to # None

\* Two sets of slots that differ in one slot at most
LEMMA OneSlotApart ==
  ASSUME NEW A \in SUBSET Slots, NEW B \in SUBSET Slots, NEW s, A \ {s} = B \ {s}
  PROVE  /\ Cardinality(A) \in Nat /\ Cardinality(B) \in Nat
         /\ s \in A => Cardinality(A) > 0
         /\ Cardinality(B) =
               Cardinality(A) - (IF s \in A THEN 1 ELSE 0) + (IF s \in B THEN 1 ELSE 0)
<1> DEFINE both == Cardinality(A \ {s})
           a == Cardinality(A)
           b == Cardinality(B)
<1>1. IsFiniteSet(A) /\ IsFiniteSet(B) /\ IsFiniteSet(A \ {s})
  BY SendAssumption, FS_Subset
<1>2. a \in Nat /\ b \in Nat /\ both \in Nat
  BY <1>1, FS_CardinalityType
<1>3. (s \notin A => A \ {s} = A) /\ (s \notin B => B \ {s} = B)
  OBVIOUS
<1>4. /\ s \in A => both = a - 1
      /\ s \in B => Cardinality(B \ {s}) = b - 1
  BY <1>1, FS_RemoveElement
<1>5. /\ s \notin A => both = a
      /\ s \notin B => Cardinality(B \ {s}) = b
  BY <1>3
<1>6. Cardinality(B \ {s}) = both
  OBVIOUS
<1> HIDE DEF both, a, b
<1>7. /\ s \in A => a > 0
      /\ b = a - (IF s \in A THEN 1 ELSE 0) + (IF s \in B THEN 1 ELSE 0)
  BY <1>2, <1>4, <1>5, <1>6
<1> QED
  BY <1>2, <1>7 DEF a, b

\* The edge a slot drops is one of those that were counted.
LEMMA DropEdgeCounts ==
  ASSUME Typed, HostInv, EdgeInv, NEW c \in Channels, NEW s \in Slots, DropEdge(c, s),
         NEW f \in nodes, NEW t \in nodes,
         f = c /\ mirror[c][s] = Edge(t) => edges[<<f, t>>] > 0
  PROVE  edges'[<<f, t>>] =
           edges[<<f, t>>] - (IF f = c /\ mirror[c][s] = Edge(t) THEN 1 ELSE 0)
<1>1. edges[<<f, t>>] \in Nat /\ <<f, t>> \in Returns \X Returns
  BY DEF Typed
<1>2. mirror[c][s] \in Mirrors
  BY DEF HostInv
<1>3. mirror[c][s] = Edge(t) <=> mirror[c][s].edge /\ mirror[c][s].to = t
  <2> SUFFICES ASSUME NEW m \in Mirrors PROVE m = Edge(t) <=> m.edge /\ m.to = t
    BY <1>2
  <2>1. PICK x \in Returns \union {None}, b \in BOOLEAN : m = [to |-> x, edge |-> b]
    BY DEF Mirrors
  <2>2. CASE b = TRUE BY <2>1, <2>2 DEF Edge
  <2>3. CASE b = FALSE BY <2>1, <2>3 DEF Edge
  <2> QED BY <2>2, <2>3
<1>4. CASE mirror[c][s].edge
  <2>1. edges' = Without(edges, c, mirror[c][s].to)
    BY <1>4 DEF DropEdge, Recompute
  <2>2. CASE f = c /\ t = mirror[c][s].to
    <3>1. edges[<<f, t>>] > 0 BY <1>3, <1>4, <2>2
    <3>2. edges'[<<f, t>>] = edges[<<f, t>>] - 1 BY <1>1, <2>1, <2>2, <3>1 DEF Without, Typed
    <3> QED BY <1>3, <1>4, <2>2, <3>2
  <2>3. CASE ~(f = c /\ t = mirror[c][s].to)
    <3>1. <<f, t>> # <<c, mirror[c][s].to>> BY <2>3
    <3>2. edges'[<<f, t>>] = edges[<<f, t>>] BY <1>1, <2>1, <3>1 DEF Without, Typed
    <3> QED BY <1>1, <1>3, <2>3, <3>2
  <2> QED BY <2>2, <2>3
<1>5. CASE ~mirror[c][s].edge
  <2>1. edges' = edges BY <1>5 DEF DropEdge, wiring
  <2> QED BY <1>1, <1>3, <1>5, <2>1
<1> QED BY <1>4, <1>5

\* Only the host changes the wiring and what it believes of it.
LEMMA HostKeepsEdges ==
  ASSUME LifeInv, Typed, HostInv, AbsentInv, LayerInv, EdgeInv, Host
  PROVE  EdgeInv'
<1> USE SendAssumption
<1>1. nodes \subseteq Returns /\ nodes \subseteq Channels /\ \A n \in nodes : life[n] = "alive"
  BY DEF LifeInv
<1>2. ASSUME NEW c \in Channels, Create(c) PROVE EdgeInv'
  <2>1. /\ call = Idle /\ life[c] = "absent" /\ UNCHANGED <<mirror, edges, call>>
        /\ nodes' = IF c \in Returns THEN nodes \union {c} ELSE nodes
    BY <1>2 DEF Create
  <2>2. ASSUME NEW f \in nodes', NEW t \in nodes', c \in {f, t}
        PROVE  edges[<<f, t>>] = 0 /\ SlotsTo(f, t) = {} /\ ~Adding(f, t)
    <3>1. f \in Returns /\ t \in Returns /\ c \notin nodes BY <1>1, <2>1
    <3>2. edges[<<f, t>>] \in Nat BY <3>1 DEF Typed
    <3>3. edges[<<f, t>>] = 0 BY <2>2, <3>1, <3>2 DEF LayerInv, EdgesRise
    <3>4. \A s \in Slots : mirror[f][s].to # t
      <4>1. t # None BY <3>1
      <4>2. CASE c = f BY <2>1, <4>1, <4>2 DEF AbsentInv
      <4>3. CASE c = t BY <2>1, <3>1, <4>1, <4>3 DEF HostInv
      <4> QED BY <2>2, <4>2, <4>3
    <3> QED BY <2>1, <3>3, <3>4 DEF SlotsTo, Edge, Adding, Idle
  <2>3. EdgesAreSends'
    <3> SUFFICES ASSUME NEW f \in nodes', NEW t \in nodes'
                 PROVE  edges'[<<f, t>>] =
                          Cardinality(SlotsTo(f, t)') + (IF Adding(f, t)' THEN 1 ELSE 0)
      BY DEF EdgesAreSends
    <3>1. SlotsTo(f, t)' = SlotsTo(f, t) BY <2>1 DEF SlotsTo, Edge
    <3>2. Adding(f, t)' <=> Adding(f, t) BY <2>1 DEF Adding
    <3>3. CASE c \in {f, t}
      <4>1. Cardinality({}) = 0 BY FS_EmptySet
      <4>2. edges[<<f, t>>] = 0 /\ SlotsTo(f, t) = {} /\ ~Adding(f, t) BY <2>2, <3>3
      <4> QED BY <2>1, <3>1, <3>2, <4>1, <4>2
    <3>4. CASE c \notin {f, t}
      <4>1. f \in nodes /\ t \in nodes BY <2>1, <3>4
      <4>2. edges[<<f, t>>] = Cardinality(SlotsTo(f, t)) + (IF Adding(f, t) THEN 1 ELSE 0)
        BY <4>1 DEF EdgeInv, EdgesAreSends
      <4> QED BY <2>1, <3>1, <3>2, <4>2
    <3> QED BY <3>3, <3>4
  <2> QED BY <2>1, <2>3 DEF EdgeInv
<1>3. ASSUME NEW c \in Channels, Unregister(c) PROVE EdgeInv'
  <2>1. /\ call.at = "idle" /\ call'.at = "release" /\ mirror' = mirror
        /\ nodes' = nodes \ {c} /\ edges' = WithoutReturn(c)
    BY <1>3 DEF Unregister, Recompute, Unregistered, Calling, Idle
  <2>2. ASSUME NEW f \in nodes', NEW t \in nodes' PROVE edges'[<<f, t>>] = edges[<<f, t>>]
    <3>1. <<f, t>> \in Returns \X Returns /\ f # c /\ t # c BY <1>1, <2>1
    <3> QED BY <2>1, <3>1 DEF WithoutReturn
  <2>3. EdgesAreSends'
    <3> SUFFICES ASSUME NEW f \in nodes', NEW t \in nodes'
                 PROVE  edges'[<<f, t>>] =
                          Cardinality(SlotsTo(f, t)') + (IF Adding(f, t)' THEN 1 ELSE 0)
      BY DEF EdgesAreSends
    <3>1. SlotsTo(f, t)' = SlotsTo(f, t) BY <2>1 DEF SlotsTo, Edge
    <3>2. ~Adding(f, t) /\ ~Adding(f, t)' BY <2>1 DEF Adding
    <3>3. f \in nodes /\ t \in nodes BY <2>1
    <3>4. edges[<<f, t>>] = Cardinality(SlotsTo(f, t)) + 0
      BY <3>2, <3>3 DEF EdgeInv, EdgesAreSends
    <3> QED BY <2>2, <3>1, <3>2, <3>4
  <2> QED BY <2>1, <2>3 DEF EdgeInv
<1>4. ASSUME NEW c \in Channels, RemoveInterface(c) PROVE EdgeInv'
  <2>1. /\ UNCHANGED <<nodes, edges>> /\ call' = Idle /\ call.at \in {"idle", "release"}
        /\ mirror' = [mirror EXCEPT ![c] = [s \in Slots |-> NoSend]]
    BY <1>4 DEF RemoveInterface, wiring, Idle
  <2>2. c \notin nodes
    BY <1>1, <1>4 DEF RemoveInterface, LifeInv
  <2>3. \A f \in Channels : mirror'[f] = IF f = c THEN [s \in Slots |-> NoSend] ELSE mirror[f]
    BY <2>1 DEF HostInv
  <2>4. EdgesAreSends'
    <3> SUFFICES ASSUME NEW f \in nodes', NEW t \in nodes'
                 PROVE  edges'[<<f, t>>] =
                          Cardinality(SlotsTo(f, t)') + (IF Adding(f, t)' THEN 1 ELSE 0)
      BY DEF EdgesAreSends
    <3>1. f \in nodes /\ t \in nodes BY <2>1
    <3>2. mirror'[f] = mirror[f] BY <1>1, <2>2, <2>3, <3>1
    <3>3. SlotsTo(f, t)' = SlotsTo(f, t) BY <3>2 DEF SlotsTo, Edge
    <3>4. ~Adding(f, t) /\ ~Adding(f, t)' BY <2>1 DEF Adding, Idle
    <3>5. edges[<<f, t>>] = Cardinality(SlotsTo(f, t)) + 0
      BY <3>1, <3>4 DEF EdgeInv, EdgesAreSends
    <3> QED BY <2>1, <3>3, <3>4, <3>5
  <2> QED BY <2>3, <2>4 DEF EdgeInv, NoSend
<1>5. ASSUME NEW c \in Channels, NEW s \in Slots, NEW r \in Returns, Send(c, s, r)
      PROVE  EdgeInv'
  <2>1. /\ call.at = "idle" /\ mirror' = mirror /\ nodes' = nodes /\ Alive(c)
        /\ call' = [at |-> "drop", from |-> c, slot |-> s, to |-> r]
    BY <1>5 DEF Send, Calling, Recompute, wiring, Idle
  <2>2. ASSUME NEW f \in nodes, NEW t \in nodes
        PROVE  edges'[<<f, t>>] = edges[<<f, t>>] + (IF f = c /\ t = r THEN 1 ELSE 0)
    <3>1. edges[<<f, t>>] \in Nat /\ <<f, t>> \in Returns \X Returns BY <1>1 DEF Typed
    <3>2. CASE c \in Returns
      <4>1. edges' = [edges EXCEPT ![<<c, r>>] = @ + 1] BY <1>5, <3>2 DEF Send, Recompute
      <4>2. CASE f = c /\ t = r BY <3>1, <4>1, <4>2 DEF Typed
      <4>3. CASE ~(f = c /\ t = r)
        <5>1. <<f, t>> # <<c, r>> BY <4>3
        <5> QED BY <3>1, <4>1, <4>3, <5>1 DEF Typed
      <4> QED BY <4>2, <4>3
    <3>3. CASE c \notin Returns
      <4>1. edges' = edges /\ f # c BY <1>1, <1>5, <3>3 DEF Send, wiring
      <4> QED BY <3>1, <4>1
    <3> QED BY <3>2, <3>3
  <2>3. EdgesAreSends'
    <3> SUFFICES ASSUME NEW f \in nodes', NEW t \in nodes'
                 PROVE  edges'[<<f, t>>] =
                          Cardinality(SlotsTo(f, t)') + (IF Adding(f, t)' THEN 1 ELSE 0)
      BY DEF EdgesAreSends
    <3>1. f \in nodes /\ t \in nodes BY <2>1
    <3>2. SlotsTo(f, t)' = SlotsTo(f, t) BY <2>1 DEF SlotsTo, Edge
    <3>3. ~Adding(f, t) /\ (Adding(f, t)' <=> f = c /\ t = r) BY <2>1 DEF Adding
    <3>4. Cardinality(SlotsTo(f, t)) \in Nat BY FS_Subset, FS_CardinalityType DEF SlotsTo
    <3>5. edges[<<f, t>>] = Cardinality(SlotsTo(f, t)) + 0
      BY <3>1, <3>3 DEF EdgeInv, EdgesAreSends
    <3> QED BY <2>2, <3>1, <3>2, <3>3, <3>4, <3>5
  <2> QED BY <2>1, <2>3 DEF EdgeInv
<1>6. ASSUME NEW c \in Channels, NEW s \in Slots, DropEdge(c, s), nodes' = nodes, NEW m,
             mirror' = [mirror EXCEPT ![c][s] = m], m.edge <=> c \in Returns /\ m.to # None,
             call'.at = "post",
             \A f, t \in nodes : f = c /\ m = Edge(t) <=> Adding(f, t)
      PROVE  EdgeInv'
  <2>1. EdgesAreSends'
    <3> SUFFICES ASSUME NEW f \in nodes', NEW t \in nodes'
                 PROVE  edges'[<<f, t>>] =
                          Cardinality(SlotsTo(f, t)') + (IF Adding(f, t)' THEN 1 ELSE 0)
      BY DEF EdgesAreSends
    <3>0. f \in nodes /\ t \in nodes /\ f \in Channels /\ ~Adding(f, t)'
      BY <1>1, <1>6 DEF Adding
    <3> DEFINE drops == f = c /\ mirror[c][s] = Edge(t)
               adds == f = c /\ m = Edge(t)
    <3> HIDE DEF drops, adds
    <3>1. /\ Cardinality(SlotsTo(f, t)) \in Nat /\ Cardinality(SlotsTo(f, t)') \in Nat
          /\ drops => Cardinality(SlotsTo(f, t)) > 0
          /\ Cardinality(SlotsTo(f, t)') = Cardinality(SlotsTo(f, t))
               - (IF drops THEN 1 ELSE 0) + (IF adds THEN 1 ELSE 0)
      <4>1. \A u \in Slots : mirror'[f][u] = IF f = c /\ u = s THEN m ELSE mirror[f][u]
        BY <1>6, <3>0 DEF HostInv
      <4>2. /\ Cardinality(SlotsTo(f, t)) \in Nat /\ Cardinality(SlotsTo(f, t)') \in Nat
            /\ f = c /\ mirror[c][s] = Edge(t) => Cardinality(SlotsTo(f, t)) > 0
            /\ Cardinality(SlotsTo(f, t)') =
                 Cardinality(SlotsTo(f, t))
                   - (IF f = c /\ mirror[c][s] = Edge(t) THEN 1 ELSE 0)
                   + (IF f = c /\ m = Edge(t) THEN 1 ELSE 0)
        <5> DEFINE Old == SlotsTo(f, t)
                   New == {u \in Slots : mirror'[f][u] = Edge(t)}
        <5>1. SlotsTo(f, t)' = New BY DEF SlotsTo, Edge
        <5>2. Old = SlotsTo(f, t) OBVIOUS
        <5>3. New \in SUBSET Slots /\ Old \in SUBSET Slots BY DEF SlotsTo
        <5>4. f # c => New = Old BY <4>1 DEF SlotsTo
        <5>5. f = c => /\ New \ {s} = Old \ {s}
                       /\ s \in Old <=> mirror[c][s] = Edge(t)
                       /\ s \in New <=> m = Edge(t)
          BY <4>1 DEF SlotsTo
        <5> HIDE DEF Old, New
        <5>6. /\ Cardinality(Old) \in Nat /\ Cardinality(New) \in Nat
              /\ f # c => Cardinality(New) = Cardinality(Old)
          BY <5>3, <5>4, OneSlotApart
        <5>7. f = c => /\ s \in Old => Cardinality(Old) > 0
                       /\ Cardinality(New) = Cardinality(Old) - (IF s \in Old THEN 1 ELSE 0)
                                             + (IF s \in New THEN 1 ELSE 0)
          BY <5>3, <5>5, OneSlotApart
        <5>8. CASE f = c BY <5>1, <5>2, <5>5, <5>6, <5>7, <5>8
        <5>9. CASE f # c BY <5>1, <5>2, <5>6, <5>9
        <5> QED BY <5>8, <5>9
      <4> QED BY <4>2 DEF drops, adds
    <3>2. edges[<<f, t>>] = Cardinality(SlotsTo(f, t)) + (IF adds THEN 1 ELSE 0)
      BY <1>6, <3>0 DEF EdgeInv, EdgesAreSends, drops, adds
    <3>3. drops => edges[<<f, t>>] > 0
      BY <3>1, <3>2
    <3>4. edges'[<<f, t>>] = edges[<<f, t>>] - (IF drops THEN 1 ELSE 0)
      BY <1>6, <3>0, <3>3, DropEdgeCounts DEF drops
    <3> QED BY <3>0, <3>1, <3>2, <3>4
  <2>2. \A i \in Channels, u \in Slots :
          mirror'[i][u] = IF i = c /\ u = s THEN m ELSE mirror[i][u]
    BY <1>6 DEF HostInv
  <2> QED BY <1>6, <2>1, <2>2 DEF EdgeInv
<1>7. ASSUME NEW c \in Channels, NEW s \in Slots, ClearSend(c, s) PROVE EdgeInv'
  <2>1. /\ DropEdge(c, s) /\ mirror' = [mirror EXCEPT ![c][s] = NoSend] /\ call'.at = "post"
        /\ call.at = "idle"
    BY <1>7 DEF ClearSend, Calling, Idle
  <2>2. nodes' = nodes BY <2>1, DropEdgeLayers
  <2>3. (NoSend.edge <=> c \in Returns /\ NoSend.to # None) /\ \A t : NoSend # Edge(t)
    BY DEF NoSend, Edge
  <2> QED BY <1>6, <2>1, <2>2, <2>3 DEF Adding
<1>8. CASE SendDrops
  <2> DEFINE m == [to |-> call.to, edge |-> call.from \in Returns]
  <2>1. /\ DropEdge(call.from, call.slot) /\ call'.at = "post" /\ call.at = "drop"
        /\ mirror' = [mirror EXCEPT ![call.from][call.slot] = m]
    BY <1>8 DEF SendDrops, Calling
  <2>2. call.from \in Channels /\ call.slot \in Slots /\ call.to \in Returns
    BY <2>1 DEF Typed
  <2>3. nodes' = nodes BY <2>1, DropEdgeLayers
  <2>4. m.edge <=> call.from \in Returns /\ m.to # None BY <2>2
  <2>5. \A f, t \in nodes : f = call.from /\ m = Edge(t) <=> Adding(f, t)
    BY <1>1, <2>1 DEF Adding, Edge
  <2> HIDE DEF m
  <2> QED BY <1>6, <2>1, <2>2, <2>3, <2>4, <2>5
<1>9. CASE Post
  <2>1. UNCHANGED <<mirror, nodes, edges>> /\ call.at = "post" /\ call' = Idle
    BY <1>9 DEF Post, wiring
  <2> QED BY <2>1 DEF EdgeInv, EdgesAreSends, SlotsTo, Edge, Adding, Idle
<1> QED
  BY <1>2, <1>3, <1>4, <1>5, <1>7, <1>8, <1>9 DEF Host

\* Both invariants hold of every behaviour.
LEMMA WiringInvariant == Spec => [](LayerInv /\ EdgeInv)
<1>1. Init => LayerInv /\ EdgeInv
  BY SendAssumption DEF Init, LayerInv, EdgesRise, EdgeInv, EdgesAreSends, NoSend, Alive
<1>2. /\ LifeInv /\ Typed /\ HostInv /\ AbsentInv /\ LayerInv /\ EdgeInv /\ [Next]_vars
      => (LayerInv /\ EdgeInv)'
  <2> SUFFICES ASSUME LifeInv, Typed, HostInv, AbsentInv, LayerInv, EdgeInv, [Next]_vars
               PROVE  LayerInv' /\ EdgeInv'
    OBVIOUS
  <2>1. CASE Host BY <2>1, HostKeepsLayers, HostKeepsEdges
  <2>2. CASE ~Host
    <3>1. UNCHANGED <<life, mirror, call, nodes, edges, posted>>
      BY <2>2 DEF Next, AudioThread, BeginUpdate, Promote, NotReady, BeginSync, Render, Sync,
         ReadsHead, ApplyAdd, ApplyRemove, ApplyGeneration, Synced, Release, Setup, vars, control,
         wiring
    <3>2. LayerInv' BY <3>1 DEF LayerInv, EdgesRise, Alive
    <3>3. EdgeInv' BY <3>1 DEF EdgeInv, EdgesAreSends, SlotsTo, Edge, Adding
    <3> QED BY <3>2, <3>3
  <2> QED BY <2>1, <2>2
<1> QED
  BY <1>1, <1>2, HostInvariant, PTL DEF Spec

\* Along every edge between returns the generation rises, and the edges are those
\* of the sends the host believes in: tryAddReturnEdge() refuses what would close
\* a circle and nothing else.
THEOREM SendsAreLayered == Spec => []Layered
<1>1. LayerInv /\ EdgeInv => Layered
  BY DEF LayerInv, EdgeInv, Layered
<1> QED
  BY <1>1, WiringInvariant, PTL


(***************************************************************************)
(* What arrives, and that it is heard                                      *)
(***************************************************************************)

\* Once the host rests and its mail is read, the audio thread has the host's
\* generations, and in every slot the return last chosen, if it still exists: no
\* order of calls, rewiring and releases loses a send or keeps an old one.  And no
\* send of a return is silent, since the return it leads to is rendered later.
THEOREM AudioArrives ==
  ASSUME ~Prompt
  PROVE  Spec => []AudioFollowsHost
<1>1. ASSUME LifeInv, Typed, HostInv, GenInv, SlotInv, LayerInv, EdgeInv, NoDanglingSend
      PROVE  AudioFollowsHost
  <2> DEFINE Detached == \A r \in Returns : ~Alive(r) => status[r] \in {"absent", "delete"}
  <2> SUFFICES ASSUME Settled
               PROVE  /\ \A r \in nodes : gen[r] = posted[r]
                      /\ Detached =>
                           /\ \A c \in Channels, s \in Slots :
                                Alive(c) => target[c][s] = InForce(c, s)
                           /\ \A r \in nodes, s \in Slots :
                                target[r][s] # None => gen[r] < gen[target[r][s]]
    BY DEF AudioFollowsHost
  <2>1. \A i \in Channels : Alive(i) => mail[i] = <<>>
    BY <1>1 DEF Settled, Reads, LifeInv, Alive, Impls
  <2>2. ASSUME NEW r \in nodes PROVE gen[r] = posted[r]
    <3>1. mail[r] = <<>>
      BY <1>1, <2>1, SendAssumption DEF LifeInv, Alive
    <3>2. NoneIn(mail[r], GenMail)
      BY <3>1 DEF NoneIn
    <3> QED
      BY <1>1, <3>2 DEF GenInv
  <2>3. ASSUME NEW c \in Channels, NEW s \in Slots, Alive(c), Detached
        PROVE  target[c][s] = InForce(c, s)
    <3>1. NoneIn(mail[c], SlotMail(s))
      BY <2>1, <2>3 DEF NoneIn
    <3>2. ~Pending(c, s)
      BY DEF Settled, Idle, Pending
    <3>3. Chosen(target[c][s], mirror[c][s].to)
      BY <1>1, <2>3, <3>1, <3>2 DEF SlotInv, SlotFollows
    <3>4. target[c][s] # None => Alive(target[c][s])
      BY <1>1, <2>3 DEF NoDanglingSend, Typed, Live, Impls
    <3> QED
      BY <3>3, <3>4 DEF Chosen, InForce, Alive
  <2>4. ASSUME NEW r \in nodes, NEW s \in Slots, Detached, target[r][s] # None
        PROVE  gen[r] < gen[target[r][s]]
    <3> DEFINE t == target[r][s]
    <3>1. r \in Returns /\ r \in Channels /\ Alive(r)
      BY <1>1, SendAssumption DEF LifeInv, Alive
    <3>2. t = InForce(r, s)
      BY <2>3, <2>4, <3>1
    <3>3. mirror[r][s].to = t /\ Alive(t) /\ t # None
      BY <2>4, <3>2 DEF InForce
    <3>4. mirror[r][s] \in Mirrors
      BY <1>1, <3>1 DEF HostInv
    <3>5. mirror[r][s] = Edge(t) /\ t \in Returns
      BY <1>1, <3>1, <3>3, <3>4 DEF EdgeInv, Mirrors, Edge
    <3> HIDE DEF t
    <3>6. t \in nodes
      BY <1>1, <3>3, <3>5 DEF LayerInv, Settled, Idle
    <3>7. IsFiniteSet(SlotsTo(r, t)) /\ SlotsTo(r, t) # {}
      BY <3>5, SendAssumption, FS_Subset DEF SlotsTo
    <3>8. Cardinality(SlotsTo(r, t)) \in Nat /\ Cardinality(SlotsTo(r, t)) # 0
      BY <3>7, FS_CardinalityType, FS_EmptySet
    <3>9. edges[<<r, t>>] > 0
      BY <1>1, <3>6, <3>8 DEF EdgeInv, EdgesAreSends
    <3>10. posted[r] < posted[t]
      BY <1>1, <3>1, <3>5, <3>9 DEF LayerInv, EdgesRise
    <3> QED
      BY <2>2, <3>6, <3>10 DEF t
  <2> QED
    BY <2>2, <2>3, <2>4
<1> QED
  BY <1>1, HostInvariant, FollowInvariant, WiringInvariant, SendsReachTheLiving, PTL

=============================================================================
