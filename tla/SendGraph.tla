------------------------------ MODULE SendGraph ------------------------------
(***************************************************************************)
(* Sends and return buses of the channel component (channel/).  A host     *)
(* thread creates channels and returns, wires their send slots, rewires    *)
(* and destroys them.  It keeps a graph of the return->return sends, in    *)
(* which it refuses cycles and layers the returns by generation, and posts *)
(* what it decided to the mailboxes of the implementations.  The audio     *)
(* thread applies the mail between blocks, one implementation at a time,   *)
(* links and unlinks what has become ready or lost its interface, and      *)
(* rebuilds the render graph when a change marked it dirty.  The slow pool *)
(* sets implementations up and frees them.                                 *)
(*                                                                         *)
(* Every source channel is a child of the master here; moves and sounds    *)
(* are left out, and so are levels and meters.  How the manager's two jobs *)
(* are asked for is in SoundLifecycle, which has the same manager: here    *)
(* setup happens at any time after it may, and what is marked for deletion *)
(* counts as freed.  The address of a freed implementation is not used     *)
(* again.                                                                  *)
(***************************************************************************)
EXTENDS Integers, Sequences, FiniteSets, FiniteSetsExt

CONSTANTS
  Channels,  \* interface objects; each is created and destroyed at most once
  Returns,   \* those made by makeReturn()
  Slots,     \* send slots of every channel
  MaxCalls,  \* bound on send() and clearSend(), refused ones aside
  Prompt,    \* may a host destroy a return whose ADD_SEND is still in the mail?
  None

ASSUME SendAssumption ==
  /\ Returns \subseteq Channels /\ IsFiniteSet(Channels) /\ None \notin Channels
  /\ IsFiniteSet(Slots)
  /\ MaxCalls \in Nat /\ Prompt \in BOOLEAN

VARIABLES
  life,      \* channel -> absent, alive, gone
  mirror,    \* channel -> slot -> SendMirror: the target, and whether it is an edge
  nodes,     \* returnNodes
  edges,     \* returnEdges: pairs of returns -> multiplicity
  posted,    \* return -> the generation last posted, returnGenPosted
  call,      \* the host's send(), clearSend() or destructor under way
  calls,
  status,    \* implementation -> objectStatus, or absent
  head,      \* implementation -> does it have its interface?
  mail,      \* implementation -> messages
  inbox,     \* toLoadInbox
  toLoad, inUse,
  audio,     \* where update() is, and the implementations it still visits
  children, returns,      \* the master's children, the manager's returns
  target,    \* implementation -> slot -> sendSlot::target
  registry,  \* implementation -> sendRegistry, the slots that target it
  gen,       \* return -> generation
  built      \* the dependency counts of the render graph, None while it is dirty

\* An implementation is named by the channel it was made for.
Impls == Channels

wiring == <<nodes, edges, posted>>
control == <<life, mirror, wiring, call, calls>>
lists == <<toLoad, inUse, children, returns>>
sends == <<target, registry>>
graph == <<gen, built>>
vars == <<control, status, head, mail, inbox, lists, audio, sends, graph>>

SlotRefs == Impls \X Slots
NoSend == [to |-> None, edge |-> FALSE]
Idle == [at |-> "idle", from |-> None, slot |-> None, to |-> None]
Calling(at, c, s, r) == call' = [at |-> at, from |-> c, slot |-> s, to |-> r]
Alive(c) == life[c] = "alive"

\* the messages that matter here: ADD_SEND, REMOVE_SEND, SET_GENERATION
AddSend(s, r) == [id |-> "add", slot |-> s, to |-> r]
RemoveSend(s) == [id |-> "remove", slot |-> s]
SetGeneration(g) == [id |-> "generation", value |-> g]

Init ==
  /\ life = [c \in Channels |-> "absent"]
  /\ mirror = [c \in Channels |-> [s \in Slots |-> NoSend]]
  /\ nodes = {} /\ edges = [p \in Returns \X Returns |-> 0] /\ posted = [r \in Returns |-> 0]
  /\ call = Idle /\ calls = 0
  /\ status = [i \in Impls |-> "absent"] /\ head = [i \in Impls |-> FALSE]
  /\ mail = [i \in Impls |-> <<>>] /\ inbox = <<>>
  /\ toLoad = <<>> /\ inUse = <<>> /\ children = {} /\ returns = {}
  /\ audio = [at |-> "sync", todo |-> <<>>]
  /\ target = [i \in Impls |-> [s \in Slots |-> None]] /\ registry = [i \in Impls |-> {}]
  /\ gen = [r \in Returns |-> 0]
  /\ built = None

----------------------------------------------------------------------------
\* The wiring graph, under returnGraphMutex.

\* returnReachable(): every set that holds `from` and is closed under edges
\* holds `to`.
Closed(S) == \A f \in S, t \in Returns : edges[<<f, t>>] > 0 => t \in S
ReachableBack(from, to) == \A S \in SUBSET Returns : to \in S /\ Closed(S) => from \in S
Reachable(from, to) == \A S \in SUBSET Returns : from \in S /\ Closed(S) => to \in S

\* The relaxation: after as many passes as there are returns, the longest path.
Generations(N, E) ==
  LET Before(t) == {f \in N : E[<<f, t>>] > 0}
      pass[k \in 0..Cardinality(N)] ==
        IF k = 0 THEN [t \in Returns |-> 0]
        ELSE [t \in Returns |->
               Max({pass[k - 1][t]} \union {pass[k - 1][f] + 1 : f \in Before(t)})]
  IN pass[Cardinality(N)]

\* recomputeAndPostGenerations(): mail for the returns whose generation changed.
PostsRises(i, g) == posted[i] < g
Posts(i, g) == posted[i] # g
Recompute(N, E) ==
  LET g == Generations(N, E) IN
  /\ nodes' = N /\ edges' = E
  /\ posted' = [r \in Returns |-> IF r \in N THEN g[r] ELSE 0]
  /\ mail' = [i \in Impls |->
       IF i \in N /\ Posts(i, g[i]) THEN Append(mail[i], SetGeneration(g[i])) ELSE mail[i]]

\* removeReturnEdge(): an edge that is gone already stays gone.
Without(E, f, t) == [E EXCEPT ![<<f, t>>] = IF @ > 0 THEN @ - 1 ELSE 0]

\* returnNodes.erase()
UnregisterKeeps(r) == nodes
Unregistered(r) == nodes \ {r}
WithoutReturn(r) == [p \in Returns \X Returns |-> IF r \in {p[1], p[2]} THEN 0 ELSE edges[p]]

----------------------------------------------------------------------------
\* The host thread.

Create(c) ==
  /\ call = Idle /\ life[c] = "absent"
  /\ life' = [life EXCEPT ![c] = "alive"]
  /\ status' = [status EXCEPT ![c] = "created"] /\ head' = [head EXCEPT ![c] = TRUE]
  /\ inbox' = Append(inbox, c)
  /\ nodes' = IF c \in Returns THEN nodes \union {c} ELSE nodes
  /\ UNCHANGED <<mirror, edges, posted, call, calls, mail, lists, audio, sends, graph>>

\* send() of a return first tries the edge, and gives up on a cycle: then nothing
\* has happened.
Send(c, s, r) ==
  /\ call = Idle /\ calls < MaxCalls /\ Alive(c) /\ Alive(r) /\ r \in Returns \ {c}
  /\ calls' = calls + 1 /\ Calling("drop", c, s, r)
  /\ IF c \notin Returns THEN UNCHANGED <<wiring, mail>>
     ELSE ~Reachable(r, c) /\ Recompute(nodes, [edges EXCEPT ![<<c, r>>] = @ + 1])
  /\ UNCHANGED <<life, mirror, status, head, inbox, lists, audio, sends, graph>>

\* Then the slot's previous edge is dropped and the mirror rewritten.
DropEdge(c, s) ==
  IF mirror[c][s].edge THEN Recompute(nodes, Without(edges, c, mirror[c][s].to))
                       ELSE UNCHANGED <<wiring, mail>>

SendDrops ==
  /\ call.at = "drop"
  /\ DropEdge(call.from, call.slot)
  /\ mirror' = [mirror EXCEPT ![call.from][call.slot] =
                  [to |-> call.to, edge |-> call.from \in Returns]]
  /\ Calling("post", call.from, call.slot, call.to)
  /\ UNCHANGED <<life, calls, status, head, inbox, lists, audio, sends, graph>>

ClearSend(c, s) ==
  /\ call = Idle /\ calls < MaxCalls /\ Alive(c) /\ mirror[c][s] # NoSend
  /\ calls' = calls + 1
  /\ DropEdge(c, s)
  /\ mirror' = [mirror EXCEPT ![c][s] = NoSend]
  /\ Calling("post", c, s, None)
  /\ UNCHANGED <<life, status, head, inbox, lists, audio, sends, graph>>

\* And last the message goes out.
Post ==
  /\ call.at = "post"
  /\ mail' = [mail EXCEPT ![call.from] =
       Append(@, IF call.to = None THEN RemoveSend(call.slot) ELSE AddSend(call.slot, call.to))]
  /\ call' = Idle
  /\ UNCHANGED <<life, mirror, wiring, calls, status, head, inbox, lists, audio, sends, graph>>

\* mail that will still be read
Reads(i) == head[i] \/ (audio.at = "read" /\ Head(audio.todo) = i)
InMail(r) ==
  \E i \in Impls, s \in Slots :
    Reads(i) /\ \E n \in DOMAIN mail[i] : mail[i][n] = AddSend(s, r)

\* ~channel(): a return leaves the wiring graph, then the head is cleared.
Unregister(r) ==
  /\ call = Idle /\ Alive(r) /\ r \in Returns /\ (Prompt \/ ~InMail(r))
  /\ Calling("release", r, None, None)
  /\ Recompute(Unregistered(r), WithoutReturn(r))
  /\ UNCHANGED <<life, mirror, calls, status, head, inbox, lists, audio, sends, graph>>

RemoveInterface(c) ==
  /\ IF c \in Returns THEN call.at = "release" /\ call.from = c ELSE call = Idle /\ Alive(c)
  /\ head' = [head EXCEPT ![c] = FALSE]
  /\ life' = [life EXCEPT ![c] = "gone"]
  /\ mirror' = [mirror EXCEPT ![c] = [s \in Slots |-> NoSend]]
  /\ call' = Idle
  /\ UNCHANGED <<wiring, calls, status, mail, inbox, lists, audio, sends, graph>>

Host ==
  \/ \E c \in Channels : Create(c) \/ Unregister(c) \/ RemoveInterface(c)
  \/ \E c \in Channels, s \in Slots : ClearSend(c, s) \/ \E r \in Returns : Send(c, s, r)
  \/ SendDrops \/ Post

----------------------------------------------------------------------------
\* The slow pool.

Setup(i) ==
  /\ status[i] = "created"
  /\ status' = [status EXCEPT ![i] = "setup"]
  /\ UNCHANGED <<control, head, mail, inbox, lists, audio, sends, graph>>

----------------------------------------------------------------------------
\* The audio thread: update() between blocks, then the block.

Remove(list, i) == SelectSeq(list, LAMBDA j : j # i)
Reversed(list) == [n \in 1..Len(list) |-> list[Len(list) + 1 - n]]
Visit(at, todo) == audio' = [at |-> at, todo |-> todo]
First == Head(audio.todo)

\* The inbox is drained into toLoad.
BeginUpdate ==
  /\ audio.at = "rendered"
  /\ toLoad' = Reversed(inbox) \o toLoad /\ inbox' = <<>>
  /\ Visit("promote", toLoad')
  /\ UNCHANGED <<control, status, head, mail, inUse, children, returns, sends, graph>>

\* readyCheck(), and doThisWhenReady() for what is ready.
Promote ==
  /\ audio.at = "promote" /\ audio.todo # <<>> /\ status[First] = "setup"
  /\ status' = [status EXCEPT ![First] = "ready"]
  /\ toLoad' = Remove(toLoad, First) /\ inUse' = <<First>> \o inUse
  /\ IF First \in Returns THEN returns' = returns \union {First} /\ UNCHANGED children
                          ELSE children' = children \union {First} /\ UNCHANGED returns
  /\ built' = None
  /\ Visit("promote", Tail(audio.todo))
  /\ UNCHANGED <<control, head, mail, inbox, sends, gen>>

\* readyCheck() of one that is not set up stores OBJECT_CREATED: also over a setup
\* that ends under the check, and over one made for another number of outputs.
NotReady ==
  /\ audio.at = "promote" /\ audio.todo # <<>>
  /\ status' = [status EXCEPT ![First] = "created"]
  /\ Visit("promote", Tail(audio.todo))
  /\ UNCHANGED <<control, head, mail, inbox, lists, sends, graph>>

BeginSync ==
  /\ audio.at = "promote" /\ audio.todo = <<>>
  /\ Visit("sync", inUse)
  /\ UNCHANGED <<control, status, head, mail, inbox, lists, sends, graph>>

Syncing(i) == audio.at = "sync" /\ audio.todo # <<>> /\ i = First

\* sync() looks at the head once, and then reads all the mail there is.
ReadsHead(i) ==
  /\ Syncing(i) /\ head[i] /\ mail[i] # <<>>
  /\ Visit("read", audio.todo)
  /\ UNCHANGED <<control, status, head, mail, inbox, lists, sends, graph>>

Reading(i) == audio.at = "read" /\ i = First

\* parseMessage(): the slot leaves its old target's registry for the new one's.
AddsToBoth(i, s, r) ==
  /\ target' = [target EXCEPT ![i][s] = r]
  /\ registry' = [registry EXCEPT ![r] = @ \union {<<i, s>>}]
Retargets(i, s, r) ==
  /\ target' = [target EXCEPT ![i][s] = r]
  /\ registry' = [t \in Impls |->
       IF t = r THEN registry[t] \union {<<i, s>>}
       ELSE IF t = target[i][s] THEN registry[t] \ {<<i, s>>}
       ELSE registry[t]]

ApplyAdd(i) ==
  /\ Reading(i) /\ mail[i] # <<>> /\ Head(mail[i]).id = "add"
  /\ Retargets(i, Head(mail[i]).slot, Head(mail[i]).to)
  /\ mail' = [mail EXCEPT ![i] = Tail(@)]
  /\ UNCHANGED <<control, status, head, inbox, lists, audio, graph>>

ApplyRemove(i) ==
  /\ Reading(i) /\ mail[i] # <<>> /\ Head(mail[i]).id = "remove"
  /\ LET s == Head(mail[i]).slot IN
       /\ registry' = [t \in Impls |-> IF t = target[i][s] THEN registry[t] \ {<<i, s>>}
                                                           ELSE registry[t]]
       /\ target' = [target EXCEPT ![i][s] = None]
  /\ mail' = [mail EXCEPT ![i] = Tail(@)]
  /\ UNCHANGED <<control, status, head, inbox, lists, audio, graph>>

\* a generation that changes marks the render graph dirty
MarksNothing(i, g) == built
Marks(i, g) == IF gen[i] # g THEN None ELSE built
ApplyGeneration(i) ==
  /\ Reading(i) /\ mail[i] # <<>> /\ Head(mail[i]).id = "generation"
  /\ LET g == Head(mail[i]).value IN
       /\ built' = Marks(i, g)
       /\ gen' = [gen EXCEPT ![i] = g]
  /\ mail' = [mail EXCEPT ![i] = Tail(@)]
  /\ UNCHANGED <<control, status, head, inbox, lists, audio, sends>>

Synced(i) ==
  /\ Reading(i) \/ (Syncing(i) /\ head[i])
  /\ mail[i] = <<>>
  /\ Visit("sync", Tail(audio.todo))
  /\ UNCHANGED <<control, status, head, mail, inbox, lists, sends, graph>>

\* detachSends(): its own slots leave their targets' registries, and the slots
\* that target it are cut off.
CutsNobody(i) == {}
CutOff(i) == registry[i]
DetachSends(i) ==
  /\ target' = [j \in Impls |-> [s \in Slots |->
       IF j = i \/ <<j, s>> \in CutOff(i) THEN None ELSE target[j][s]]]
  /\ registry' = [t \in Impls |-> IF t = i THEN {} ELSE registry[t] \ ({i} \X Slots)]

\* The interface is gone: released, unlinked and marked for the slow pool, and
\* with it go its unread mail and its generation.
Release(i) ==
  /\ Syncing(i) /\ ~head[i]
  /\ inUse' = Remove(inUse, i)
  /\ children' = children \ {i} /\ returns' = returns \ {i}
  /\ built' = None
  /\ DetachSends(i)
  /\ status' = [status EXCEPT ![i] = "delete"]
  /\ mail' = [mail EXCEPT ![i] = <<>>] /\ gen' = [r \in Returns |-> IF r = i THEN 0 ELSE gen[r]]
  /\ Visit("sync", Tail(audio.todo))
  /\ UNCHANGED <<control, head, inbox, toLoad>>

\* What finishes arrives at: every return and the master (a master's child),
\* the later returns and the master (a return).
Lower(r) == {q \in returns : gen[q] < gen[r]}
Dependencies ==
  [master |-> Cardinality(children) + Cardinality(returns),
   of |-> [r \in Returns |->
            IF r \in returns THEN Cardinality(children) + Cardinality(Lower(r)) ELSE 0]]

\* Update() is over: blocks are rendered, on a graph rebuilt before the first if
\* it is dirty.
Render ==
  /\ audio.at = "sync" /\ audio.todo = <<>>
  /\ built' = IF built = None THEN Dependencies ELSE built
  /\ Visit("rendered", <<>>)
  /\ UNCHANGED <<control, status, head, mail, inbox, lists, sends, gen>>

Sync(i) == ReadsHead(i) \/ ApplyAdd(i) \/ ApplyRemove(i) \/ ApplyGeneration(i) \/ Synced(i) \/ Release(i)
AudioThread ==
  \/ BeginUpdate \/ Promote \/ NotReady \/ BeginSync \/ Render
  \/ \E i \in Impls : Sync(i)

Next == Host \/ AudioThread \/ \E i \in Impls : Setup(i)
Spec == Init /\ [][Next]_vars

----------------------------------------------------------------------------
\* Properties.

\* The delete job frees what is marked whenever it likes: from then on it is gone.
Live(i) == status[i] \notin {"absent", "delete"}

TypeOK ==
  /\ life \in [Channels -> {"absent", "alive", "gone"}]
  /\ mirror \in [Channels -> [Slots -> [to : Returns \union {None}, edge : BOOLEAN]]]
  /\ nodes \subseteq Returns /\ edges \in [Returns \X Returns -> Nat]
  /\ posted \in [Returns -> Nat] /\ calls \in 0..MaxCalls
  /\ call.at \in {"idle", "drop", "post", "release"}
  /\ status \in [Impls -> {"absent", "created", "setup", "ready", "delete"}]
  /\ head \in [Impls -> BOOLEAN]
  /\ inbox \in Seq(Impls) /\ toLoad \in Seq(Impls) /\ inUse \in Seq(Impls)
  /\ audio.at \in {"rendered", "promote", "sync", "read"} /\ audio.todo \in Seq(Impls)
  /\ children \subseteq Impls \ Returns /\ returns \subseteq Returns
  /\ target \in [Impls -> [Slots -> Returns \union {None}]]
  /\ registry \in [Impls -> SUBSET SlotRefs]
  /\ gen \in [Returns -> Nat]
  /\ built \in [master : Nat, of : [Returns -> Nat]] \union {None}

\* No send leads from or to a channel that was released: a block follows a slot
\* to its return, whose status accumulateSend() reads, and a registry back to the
\* slots of its senders, which gatherSends() reads.  channelManager.cpp:146 "guarantees"
\* it for any host.  It holds for one that destroys no return while unread mail names it
\* (~Prompt); MCSendsPrompt.cfg shows it broken by another.
NoDanglingSend ==
  \A i \in Impls, s \in Slots : target[i][s] # None => Live(i) /\ Live(target[i][s])

\* A slot is in the registry of the return it targets and in no other: a release
\* that follows the registry cuts off every sender.
RegistryAgrees ==
  \A t \in Impls : registry[t] = {ref \in SlotRefs : target[ref[1]][ref[2]] = t}

\* The host posts generations only into implementations that still exist.
NodesAlive == \A r \in nodes : head[r] /\ Live(r)

\* Along every edge between returns the generation rises, so the wiring has no
\* cycle; and the edges are those of the sends the host believes in, counted slot
\* by slot (a call under way has added its own first), so that what is refused
\* would close a circle.
EdgesRise ==
  \A f, t \in Returns : edges[<<f, t>>] > 0 => {f, t} \subseteq nodes /\ posted[f] < posted[t]
Edge(t) == [to |-> t, edge |-> TRUE]
SlotsTo(f, t) == {s \in Slots : mirror[f][s] = Edge(t)}
Adding(f, t) == call.at = "drop" /\ call.from = f /\ call.to = t
EdgesAreSends ==
  \A f, t \in nodes :
    edges[<<f, t>>] = Cardinality(SlotsTo(f, t)) + (IF Adding(f, t) THEN 1 ELSE 0)
Layered == EdgesRise /\ EdgesAreSends

\* While blocks are rendered, the counts of the render graph are the arrivals
\* that will come: whatever changed them marked the graph dirty.
GraphCurrent == audio.at = "rendered" => built = Dependencies

\* Once the host rests and the mail is read, the audio thread has the wiring the
\* host believes in: its generations, and in every slot the return it last chose,
\* if that return still exists.  And what a return sends is heard: accumulateSend()
\* is silent along a slot whose generation does not rise.  The host is one that
\* destroys no return while unread mail names it (~Prompt).
Settled == call = Idle /\ \A i \in Impls : Reads(i) => mail[i] = <<>>
InForce(c, s) == LET r == mirror[c][s].to IN IF r # None /\ Alive(r) THEN r ELSE None
AudioFollowsHost ==
  Settled =>
    /\ \A r \in nodes : gen[r] = posted[r]
    /\ (\A r \in Returns : ~Alive(r) => status[r] \in {"absent", "delete"}) =>
         /\ \A c \in Channels, s \in Slots : Alive(c) => target[c][s] = InForce(c, s)
         /\ \A r \in nodes, s \in Slots : target[r][s] # None => gen[r] < gen[target[r][s]]

=============================================================================
