----------------------------- MODULE ChannelTree -----------------------------
(***************************************************************************)
(* The tree of channels and the sounds in it.  The host creates, moves and *)
(* destroys; what it says reaches the audio thread in one mailbox per      *)
(* implementation, and the audio thread links and unlinks between blocks:  *)
(* what has become ready joins the parent it was created under, a MOVE is  *)
(* applied when its mailbox is visited, and a channel whose interface is   *)
(* gone hands its children to its parent before it goes.                   *)
(*                                                                         *)
(* Which slice of a channel a sound is in does not matter here, and the    *)
(* return buses, which are not in the tree, are in SendGraph.  Setup may   *)
(* end at any time, and what is marked for deletion counts as freed, as    *)
(* there.  Nothing is created twice and no address is used again.          *)
(***************************************************************************)
EXTENDS Integers, Sequences, FiniteSets

CONSTANTS
  Channels, Sounds,
  Master, Nobody,
  MaxMoves,  \* bound on moveTo()
  Patient    \* TRUE: the host destroys nothing that unread mail or something
             \* not yet linked still names, or whose own mail is unread

Things == Channels \union Sounds
Parents == Channels \union {Master}

ASSUME TreeAssumption ==
  /\ Channels \intersect Sounds = {} /\ IsFiniteSet(Things)
  /\ Master \notin Things /\ Nobody \notin Things \union {Master}
  /\ MaxMoves \in Nat /\ Patient \in BOOLEAN

VARIABLES
  \* the host
  life,      \* absent, alive, gone
  under,     \* what each was last asked to be below
  moves,
  mail,      \* implementation -> targets of its unread MOVE messages
  \* the audio thread
  waiting,   \* toLoad, with its inbox
  inUse,     \* kind -> the manager's list; its members are connectedToParent
  audio,     \* where update() is, for which manager, and what it still visits
  parent,
  children,  \* channel -> the channels in its list and the sounds in its slices
  released   \* marked for the slow pool

host == <<life, under, moves, mail>>
lists == <<waiting, inUse>>
tree == <<parent, children>>
treeVars == <<host, lists, audio, tree, released>>

Kinds == {"sound", "channel"}
Kind(i) == IF i \in Sounds THEN "sound" ELSE "channel"
Alive == {i \in Things : life[i] = "alive"}

TreeInit ==
  /\ life = [i \in Things |-> "absent"] /\ under = [i \in Things |-> Nobody] /\ moves = 0
  /\ mail = [i \in Things |-> <<>>]
  /\ waiting = {} /\ inUse = [k \in Kinds |-> <<>>]
  /\ audio = [of |-> "channel", at |-> "rendered", todo |-> <<>>]
  /\ parent = [i \in Things |-> Nobody] /\ children = [p \in Parents |-> {}]
  /\ released = {}

----------------------------------------------------------------------------
\* The host.

\* Mail that will still be read.
Unread(i) == mail[i] # <<>> /\ (i \in Alive \/ (audio.at = "read" /\ Head(audio.todo) = i))

\* Something the audio thread has not linked yet, or not moved yet, names p.
Named(p) ==
  \/ \E i \in waiting : parent[i] = p
  \/ \E i \in Things : Unread(i) /\ \E n \in DOMAIN mail[i] : mail[i][n] = p

\* To the host, what was below a channel it destroys moves up.
Lasting[p \in Parents] == IF p # Master /\ life[p] = "gone" THEN Lasting[under[p]] ELSE p

\* p is i, or is below it.
Within(p, i) ==
  \A S \in SUBSET Parents : p \in S /\ (\A q \in S \ {Master} : under[q] \in S) => i \in S

Create(i, p) ==
  /\ life[i] = "absent" /\ p \in Alive \union {Master}
  /\ life' = [life EXCEPT ![i] = "alive"]
  /\ under' = [under EXCEPT ![i] = p]
  /\ parent' = [parent EXCEPT ![i] = p]
  /\ waiting' = waiting \union {i}
  /\ UNCHANGED <<moves, mail, inUse, audio, children, released>>

\* moveTo(): a sound is not asked twice.  A host that wants a tree moves no
\* channel below itself.
MoveTo(i, p) ==
  /\ i \in Alive /\ p \in Alive \union {Master} /\ moves < MaxMoves
  /\ IF i \in Sounds THEN p # under[i] ELSE ~Within(p, i)
  /\ moves' = moves + 1
  /\ under' = [under EXCEPT ![i] = p]
  /\ mail' = [mail EXCEPT ![i] = Append(@, p)]
  /\ UNCHANGED <<life, lists, audio, tree, released>>

\* removeInterface()
Destroy(i) ==
  /\ i \in Alive
  /\ Patient => ~Named(i) /\ ~Unread(i)
  /\ life' = [life EXCEPT ![i] = "gone"]
  /\ UNCHANGED <<under, moves, mail, lists, audio, tree, released>>

Host == \E i \in Things : Destroy(i) \/ \E p \in Parents : Create(i, p) \/ MoveTo(i, p)

----------------------------------------------------------------------------
\* connect() and disconnect().

\* faulty: the list of the former parent is left as it is
ConnectAgain(p, i) ==
  /\ children' = [children EXCEPT ![p] = @ \union {i}]
  /\ parent' = [parent EXCEPT ![i] = p]

\* A channel leaves the list of the parent it names, a sound the slice it is in.
\* Connected to itself, a channel only forgets its parent.
Connect(p, i) ==
  IF p = i THEN parent' = [parent EXCEPT ![i] = Nobody] /\ UNCHANGED children
  ELSE /\ children' = [q \in Parents |->
            IF q = p THEN children[q] \union {i}
            ELSE IF q = parent[i] \/ i \in Sounds THEN children[q] \ {i}
            ELSE children[q]]
       /\ parent' = [parent EXCEPT ![i] = p]

\* faulty: the list keeps it
DisconnectNothing(p, i) == UNCHANGED tree

Disconnect(p, i) == children' = [children EXCEPT ![p] = @ \ {i}] /\ UNCHANGED parent

----------------------------------------------------------------------------
\* update(), first of the sounds' manager, then of the channels'.

Visit(k, at, todo) == audio' = [of |-> k, at |-> at, todo |-> todo]
First == Head(audio.todo)

\* erase() unlinks the node the iterator is at.
Without(list, i) ==
  LET n == CHOOSE k \in DOMAIN list : list[k] = i
  IN SubSeq(list, 1, n - 1) \o SubSeq(list, n + 1, Len(list))

BeginUpdate ==
  /\ audio.at = "rendered"
  /\ Visit("sound", "promote", <<>>)
  /\ UNCHANGED <<host, lists, tree, released>>

\* doThisWhenReady()
Promote(i) ==
  /\ audio.at = "promote" /\ i \in waiting /\ Kind(i) = audio.of
  /\ waiting' = waiting \ {i}
  /\ inUse' = [inUse EXCEPT ![audio.of] = <<i>> \o @]
  /\ Connect(parent[i], i)
  /\ UNCHANGED <<host, audio, released>>

\* The setup job found a sound without its interface: it is never linked.
Scrub(s) ==
  /\ audio.at = "promote" /\ audio.of = "sound" /\ s \in waiting \intersect Sounds
  /\ life[s] = "gone"
  /\ waiting' = waiting \ {s} /\ released' = released \union {s}
  /\ UNCHANGED <<host, inUse, audio, tree>>

BeginSync ==
  /\ audio.at = "promote"
  /\ Visit(audio.of, "sync", inUse[audio.of])
  /\ UNCHANGED <<host, lists, tree, released>>

Syncing(i) == audio.at = "sync" /\ audio.todo # <<>> /\ i = First
Reading(i) == audio.at = "read" /\ i = First

\* sync() looks at the head once, and then reads all the mail there is.
ReadsHead(i) ==
  /\ Syncing(i) /\ i \in Alive /\ mail[i] # <<>>
  /\ Visit(audio.of, "read", audio.todo)
  /\ UNCHANGED <<host, lists, tree, released>>

Move(i) ==
  /\ Reading(i) /\ mail[i] # <<>>
  /\ Connect(Head(mail[i]), i)
  /\ mail' = [mail EXCEPT ![i] = Tail(@)]
  /\ UNCHANGED <<life, under, moves, lists, audio, released>>

\* A sound without its interface is kept until it has stopped.
Synced(i) ==
  /\ Reading(i) \/ (Syncing(i) /\ i \in Alive \union Sounds)
  /\ i \in Alive \/ Reading(i) => mail[i] = <<>>
  /\ Visit(audio.of, "sync", Tail(audio.todo))
  /\ UNCHANGED <<host, lists, tree, released>>

\* faulty: the children go to the master
HeirMaster(c) == Master
Heir(c) == parent[c]

\* childrenToParent(): as long as there is a first child, it goes to the parent.
MoveUp(c, i) ==
  /\ Syncing(c) /\ c \in Channels /\ life[c] = "gone"
  /\ parent[c] # Nobody /\ i \in children[c]
  /\ Connect(Heir(c), i)
  /\ UNCHANGED <<host, lists, audio, released>>

ChildrenGone(c) == parent[c] = Nobody \/ children[c] = {}

\* Then it leaves its parent's list and is marked.
Release(i) ==
  /\ Syncing(i) /\ life[i] = "gone"
  /\ i \in Channels => ChildrenGone(i)
  /\ inUse' = [inUse EXCEPT ![audio.of] = Without(@, i)]
  /\ IF parent[i] # Nobody THEN Disconnect(parent[i], i) ELSE UNCHANGED tree
  /\ released' = released \union {i}
  /\ Visit(audio.of, "sync", Tail(audio.todo))
  /\ UNCHANGED <<host, waiting>>

\* The channels' turn, and then blocks are rendered.
NextManager ==
  /\ audio.at = "sync" /\ audio.todo = <<>>
  /\ IF audio.of = "sound" THEN Visit("channel", "promote", <<>>)
                           ELSE Visit("channel", "rendered", <<>>)
  /\ UNCHANGED <<host, lists, tree, released>>

Pass ==
  \/ BeginUpdate \/ BeginSync \/ NextManager
  \/ \E i \in Things :
       Promote(i) \/ Scrub(i) \/ ReadsHead(i) \/ Move(i) \/ Synced(i) \/ Release(i)
  \/ \E c \in Channels, i \in Things : MoveUp(c, i)

TreeNext == Host \/ Pass
TreeSpec == TreeInit /\ [][TreeNext]_treeVars

\* The device asks for blocks, setup ends, and a sound without its interface stops.
Live ==
  /\ TreeSpec /\ WF_treeVars(Pass)
  /\ \A i \in Things : SF_treeVars(Promote(i)) /\ SF_treeVars(Release(i))

----------------------------------------------------------------------------
\* Properties.

TreeTypeOK ==
  /\ life \in [Things -> {"absent", "alive", "gone"}]
  /\ under \in [Things -> Parents \union {Nobody}] /\ moves \in 0..MaxMoves
  /\ mail \in [Things -> Seq(Parents)]
  /\ waiting \subseteq Things /\ inUse \in [Kinds -> Seq(Things)]
  /\ audio.of \in Kinds /\ audio.at \in {"rendered", "promote", "sync", "read"}
  /\ audio.todo \in Seq(Things)
  /\ parent \in [Things -> Parents \union {Nobody}]
  /\ children \in [Parents -> SUBSET Things]
  /\ released \subseteq Things

InUse == {i \in Things : \E n \in DOMAIN inUse[Kind(i)] : inUse[Kind(i)][n] = i}

\* The audio thread follows no pointer to what was released: a sound reads its
\* parent in every block, a channel its children, and what is linked next the
\* parent it was created under (channelImplementation.cpp:783,
\* soundImplementation.cpp:440).
PointersLive ==
  /\ \A i \in InUse \union waiting : parent[i] \notin released
  /\ \A p \in Parents \ released : children[p] \intersect released = {}

\* Both ends of a link agree: what is in use is in the list of its parent and in no
\* other.  MOVE messages are read mailbox by mailbox, so the links may form a circle
\* between two of them (Rooted below); a channel that goes then hands its children on
\* around the circle (channelImplementation.cpp:888-891), and one handed to itself
\* would forget its parent and stay in a list (84-97): MCTreeHangs.cfg shows that for a
\* host that destroys a channel whose own mail is unread, which this one does not.
ListsAgree == \A i \in InUse, p \in Parents : i \in children[p] <=> p = parent[i]

\* "forming a tree rooted at MainMix" (channelInterface.hpp:39): from what is in use
\* the parents lead to the master.  MCTreeMoves.cfg shows a circle, between the
\* reading of one mailbox and of another.
Rooted ==
  \A S \in SUBSET (Channels \intersect InUse) : S # {} => \E c \in S : parent[c] \notin S

\* Once the mail is read and what was created is linked and what was destroyed is
\* gone, the tree is the one the host asked for: what was below a destroyed
\* channel has moved up to the nearest one left.
Settled ==
  /\ waiting = {} /\ \A i \in Things : ~Unread(i)
  /\ \A i \in Things : life[i] = "gone" => i \in released
TreeFollowsHost == Settled => \A i \in Alive : parent[i] = Lasting[under[i]]

\* "Custom channels can be torn down cleanly" (03_channels.rst:75): what was
\* below leaves, and the callback gets past a channel that is gone.
TornDown == \A c \in Channels : (life[c] = "gone") ~> (c \in released)

=============================================================================
