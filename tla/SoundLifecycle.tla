--------------------------- MODULE SoundLifecycle ---------------------------
(***************************************************************************)
(* The life of a sound: the control thread creates and destroys YSE::sound *)
(* interfaces, the audio callback links and unlinks their implementations  *)
(* (SOUND::managerObject::update), and one slow-pool worker sets them up   *)
(* and frees them (managerJobs.hpp).  The three never lock one another out *)
(* of an implementation: its objectStatus, its head pointer and the        *)
(* manager's runDelete flag are all the synchronisation there is, so every *)
(* load and store of these by a thread that another can overtake is a step *)
(* of its own.  toLoad, inUse and the parent channel's list belong to the  *)
(* audio thread; implementations that are gone stay here as FREED so that  *)
(* a pointer to one can be seen.                                           *)
(***************************************************************************)
EXTENDS Naturals, Sequences, FiniteSets

CONSTANTS Impls,         \* implementations the run may create
          Sounds,        \* interface objects
          NoImpl, NoSound,
          Kinds,         \* subset of {"file", "dsp"}: what create() is given
          FileOutcomes   \* subset of {"READY", "INVALID"}: how a load may end

ASSUME SoundAssumption == /\ NoImpl \notin Impls
                          /\ NoSound \notin Sounds
                          /\ Kinds \subseteq {"file", "dsp"}
                          /\ FileOutcomes \subseteq {"READY", "INVALID"}

VARIABLES
  status,       \* objectStatus; UNBORN before and FREED after its lifetime
  head,         \* implementation -> its interface, NoSound once detached
  kind,         \* PT_FILE, or a source the sound does not load
  file,         \* state of the sound file: LOADING, READY, INVALID
  sized,        \* lastGain has one entry per output: setup() has resized it
  play,         \* status_dsp: stopped, playing, or fading (SS_WANTSTOSTOP)
  mail,         \* a play message is in the implementation's queue
  pimpl,        \* interface -> its implementation, a plain pointer
  life,         \* interface: absent, alive, gone
  inbox,        \* toLoadInbox, pushed by the control thread
  toLoad, inUse,\* the manager's lists
  connected,    \* implementations in the parent channel's list of sounds
  runDelete,    \* the request flag of the manager
  queued,       \* isQueued() of the setup and of the delete job
  ring,         \* the slow pool's queue of jobs
  audio,        \* where the audio callback is: [at, todo, cur]
  worker,       \* where the slow-pool worker is: [at, todo, claimed, cur, saw]
  ctl           \* where the control thread is: [at, s, i]

implVars == <<status, head, kind, file, sized, play, mail>>
faceVars == <<pimpl, life>>
listVars == <<inbox, toLoad, inUse, connected>>
jobVars  == <<runDelete, queued, ring>>
vars     == <<implVars, faceVars, listVars, jobVars, audio, worker, ctl>>

Status == {"UNBORN", "CONSTRUCTED", "CREATED", "SETTING_UP", "SETUP", "READY",
           "DONE", "RELEASE", "DELETE_PENDING", "DELETE", "FREED"}
Jobs == {"setup", "delete"}

Init ==
  /\ status = [i \in Impls |-> "UNBORN"]  /\ head = [i \in Impls |-> NoSound]
  /\ kind = [i \in Impls |-> "file"]      /\ file = [i \in Impls |-> "LOADING"]
  /\ sized = [i \in Impls |-> FALSE]      /\ play = [i \in Impls |-> "stopped"]
  /\ mail = [i \in Impls |-> FALSE]
  /\ pimpl = [s \in Sounds |-> NoImpl]    /\ life = [s \in Sounds |-> "absent"]
  /\ inbox = {} /\ toLoad = {} /\ inUse = {} /\ connected = {}
  /\ runDelete = FALSE /\ queued = [j \in Jobs |-> FALSE] /\ ring = <<>>
  /\ audio = [at |-> "idle", todo |-> {}, cur |-> NoImpl]
  /\ worker = [at |-> "idle", todo |-> {}, claimed |-> {}, cur |-> NoImpl,
               saw |-> "nothing"]
  /\ ctl = [at |-> "idle", s |-> NoSound, i |-> NoImpl]

\* threadPool::addJob on a job that is not queued
Enqueue(j) == queued' = [queued EXCEPT ![j] = TRUE] /\ ring' = Append(ring, j)

Audio(at, todo, cur) == audio' = [at |-> at, todo |-> todo, cur |-> cur]
Control(at, s, i) == ctl' = [at |-> at, s |-> s, i |-> i]

----------------------------------------------------------------------------
\* The control thread.

\* create(): addImplementation, then the implementation's own create().  A file
\* that is found leaves it CREATED before the manager hears of it; a dsp source
\* or patcher leaves it CONSTRUCTED.  pimpl is set before either returns.
Create(s, i, k) ==
  /\ ctl.at = "idle" /\ life[s] # "gone" /\ pimpl[s] = NoImpl
  /\ status[i] = "UNBORN" /\ k \in Kinds
  /\ worker.at \notin {"claim", "scan", "free"}         \* implementationsMutex
  /\ life' = [life EXCEPT ![s] = "alive"]
  /\ pimpl' = [pimpl EXCEPT ![s] = i]
  /\ head' = [head EXCEPT ![i] = s]
  /\ kind' = [kind EXCEPT ![i] = k]
  /\ Control("create", s, i)
  /\ status' = [status EXCEPT ![i] = "CONSTRUCTED"]
  /\ UNCHANGED <<file, sized, play, mail, listVars, jobVars, audio, worker>>

\* the implementation's create() finds its file
FileFound ==
  /\ ctl.at = "create" /\ kind[ctl.i] = "file"
  /\ status' = [status EXCEPT ![ctl.i] = "CREATED"]
  /\ Control("setup", ctl.s, ctl.i)
  /\ UNCHANGED <<head, kind, file, sized, play, mail, faceVars, listVars, jobVars,
                 audio, worker>>

SourceGiven ==
  /\ ctl.at = "create" /\ kind[ctl.i] = "dsp"
  /\ Control("setup", ctl.s, ctl.i)
  /\ UNCHANGED <<implVars, faceVars, listVars, jobVars, audio, worker>>

\* managerObject::setup stores OBJECT_CREATED (again, for a file) ...
SetupStores ==
  /\ ctl.at = "setup"
  /\ status' = [status EXCEPT ![ctl.i] = "CREATED"]
  /\ Control("push", ctl.s, ctl.i)
  /\ UNCHANGED <<head, kind, file, sized, play, mail, faceVars, listVars, jobVars,
                 audio, worker>>

\* ... and hands the implementation to the audio thread
SetupPushes ==
  /\ ctl.at = "push"
  /\ inbox' = inbox \cup {ctl.i}
  /\ Control("idle", NoSound, NoImpl)
  /\ UNCHANGED <<implVars, faceVars, toLoad, inUse, connected, jobVars, audio, worker>>

\* faulty: the refused implementation keeps its back-pointer
RefusalKeepsHead ==
  /\ ctl.at = "create" /\ Control("retire", ctl.s, ctl.i)
  /\ UNCHANGED <<implVars, faceVars, listVars, jobVars, audio, worker>>

\* create() is refused: missing file, or a patcher another sound owns.  The
\* interface is detached first (removeInterface) ...
RefusalDetaches ==
  /\ ctl.at = "create"
  /\ head' = [head EXCEPT ![ctl.i] = NoSound]
  /\ Control("retire", ctl.s, ctl.i)
  /\ UNCHANGED <<status, kind, file, sized, play, mail, faceVars, listVars, jobVars,
                 audio, worker>>

\* ... then releaseUnpublished marks it for deletion and asks for the job
RefusalMarks ==
  /\ ctl.at = "retire"
  /\ status' = [status EXCEPT ![ctl.i] = "DELETE"]
  /\ Control("ask", ctl.s, ctl.i)
  /\ UNCHANGED <<head, kind, file, sized, play, mail, faceVars, listVars, jobVars,
                 audio, worker>>

RefusalAsks ==
  /\ ctl.at = "ask"
  /\ runDelete' = TRUE
  /\ pimpl' = [pimpl EXCEPT ![ctl.s] = NoImpl]
  /\ Control("idle", NoSound, NoImpl)
  /\ UNCHANGED <<implVars, life, listVars, queued, ring, audio, worker>>

\* every mutator and ~sound: a test of pimpl, then a call through it
ChecksPimpl(s, at) ==
  /\ ctl.at = "idle" /\ life[s] = "alive" /\ pimpl[s] # NoImpl
  /\ Control(at, s, pimpl[s])
  /\ UNCHANGED <<implVars, faceVars, listVars, jobVars, audio, worker>>

Sends ==
  /\ ctl.at = "send"
  /\ mail' = [mail EXCEPT ![ctl.i] = TRUE]
  /\ Control("idle", NoSound, NoImpl)
  /\ UNCHANGED <<status, head, kind, file, sized, play, faceVars, listVars, jobVars,
                 audio, worker>>

RemovesInterface ==
  /\ ctl.at = "destroy"
  /\ head' = [head EXCEPT ![ctl.i] = NoSound]
  /\ pimpl' = [pimpl EXCEPT ![ctl.s] = NoImpl]
  /\ life' = [life EXCEPT ![ctl.s] = "gone"]
  /\ Control("idle", NoSound, NoImpl)
  /\ UNCHANGED <<status, kind, file, sized, play, mail, listVars, jobVars, audio, worker>>

ControlReturns == FileFound \/ SourceGiven \/ SetupStores \/ SetupPushes
                  \/ RefusalMarks \/ RefusalAsks \/ Sends \/ RemovesInterface
ControlNext ==
  \/ \E s \in Sounds, i \in Impls, k \in Kinds : Create(s, i, k)
  \/ \E s \in Sounds, at \in {"send", "destroy"} : ChecksPimpl(s, at)
  \/ RefusalDetaches
  \/ ControlReturns

----------------------------------------------------------------------------
\* The audio callback: one managerObject::update() and the rendering after it.

\* drain the inbox; scan toLoad unless a setup job is still queued
TickBegins ==
  /\ audio.at = "idle"
  /\ toLoad' = toLoad \cup inbox /\ inbox' = {}
  /\ IF toLoad' # {} /\ ~queued["setup"] THEN Audio("scrub", toLoad', NoImpl)
                                         ELSE Audio("exchange", {}, NoImpl)
  /\ UNCHANGED <<implVars, faceVars, inUse, connected, jobVars, worker, ctl>>

\* scrubToLoadAndScheduleSetup, an implementation whose setup did not fail
Keeps(i) ==
  /\ audio.at = "scrub" /\ i \in audio.todo /\ status[i] # "DELETE_PENDING"
  /\ toLoad' = IF status[i] \in {"READY", "RELEASE", "DELETE"} THEN toLoad \ {i} ELSE toLoad
  /\ Audio("scrub", audio.todo \ {i}, NoImpl)
  /\ UNCHANGED <<implVars, faceVars, inbox, inUse, connected, jobVars, worker, ctl>>

\* faulty: marked for deletion without being unlinked
LeavesLinked(i) ==
  /\ audio.at = "scrub" /\ i \in audio.todo /\ status[i] = "DELETE_PENDING"
  /\ Audio("mark", audio.todo \ {i}, i)
  /\ UNCHANGED <<implVars, faceVars, listVars, jobVars, worker, ctl>>

\* one whose setup failed: unlink it first, mark it for deletion second (#830)
Unlinks(i) ==
  /\ audio.at = "scrub" /\ i \in audio.todo /\ status[i] = "DELETE_PENDING"
  /\ toLoad' = toLoad \ {i}
  /\ Audio("mark", audio.todo \ {i}, i)
  /\ UNCHANGED <<implVars, faceVars, inbox, inUse, connected, jobVars, worker, ctl>>

\* the store of OBJECT_DELETE, after which the delete job may free it, and the
\* request for that job; both loops over the lists end in this pair
Marks(loop) ==
  /\ audio.at = IF loop = "scrub" THEN "mark" ELSE "release"
  /\ status' = [status EXCEPT ![audio.cur] = "DELETE"]
  /\ Audio(IF loop = "scrub" THEN "ask" ELSE "askAgain", audio.todo, audio.cur)
  /\ UNCHANGED <<head, kind, file, sized, play, mail, faceVars, listVars, jobVars,
                 worker, ctl>>
Asks(loop) ==
  /\ audio.at = IF loop = "scrub" THEN "ask" ELSE "askAgain"
  /\ runDelete' = TRUE
  /\ Audio(loop, audio.todo, NoImpl)
  /\ UNCHANGED <<implVars, faceVars, listVars, queued, ring, worker, ctl>>

SchedulesSetup ==
  /\ audio.at = "scrub" /\ audio.todo = {}
  /\ Enqueue("setup") /\ Audio("exchange", {}, NoImpl)
  /\ UNCHANGED <<implVars, faceVars, listVars, runDelete, worker, ctl>>

\* runDelete.exchange(false)
TakesRequest ==
  /\ audio.at = "exchange"
  /\ runDelete' = FALSE
  /\ IF runDelete THEN Audio("request", {}, NoImpl) ELSE Audio("promote", toLoad, NoImpl)
  /\ UNCHANGED <<implVars, faceVars, listVars, queued, ring, worker, ctl>>

\* faulty: a request that meets a queued job is dropped
DropsRequest ==
  /\ audio.at = "request"
  /\ IF queued["delete"] THEN UNCHANGED <<queued, ring>> ELSE Enqueue("delete")
  /\ Audio("promote", toLoad, NoImpl)
  /\ UNCHANGED <<implVars, faceVars, listVars, runDelete, worker, ctl>>

\* queue the delete job, or hand the request back while the last one is queued
PassesRequest ==
  /\ audio.at = "request"
  /\ IF queued["delete"] THEN runDelete' = TRUE /\ UNCHANGED <<queued, ring>>
                         ELSE Enqueue("delete") /\ UNCHANGED runDelete
  /\ Audio("promote", toLoad, NoImpl)
  /\ UNCHANGED <<implVars, faceVars, listVars, worker, ctl>>

\* promoteReadyImpls: readyCheck() loads the status and the number of outputs,
\* and stores afterwards
ReadyChecks(i) ==
  /\ audio.at = "promote" /\ i \in audio.todo
  /\ Audio(IF status[i] = "SETUP" /\ sized[i] THEN "ready" ELSE "resend",
           audio.todo \ {i}, i)
  /\ UNCHANGED <<implVars, faceVars, listVars, jobVars, worker, ctl>>

\* it succeeds: the implementation changes lists and connects to its channel
Promotes ==
  /\ audio.at = "ready"
  /\ status' = [status EXCEPT ![audio.cur] = "READY"]
  /\ toLoad' = toLoad \ {audio.cur} /\ inUse' = inUse \cup {audio.cur}
  /\ connected' = connected \cup {audio.cur}
  /\ Audio("promote", audio.todo, NoImpl)
  /\ UNCHANGED <<head, kind, file, sized, play, mail, faceVars, inbox, jobVars, worker, ctl>>

\* it fails: OBJECT_CREATED is a plain store, and overwrites whatever the worker
\* wrote since the load
SendsBack ==
  /\ audio.at = "resend"
  /\ status' = [status EXCEPT ![audio.cur] = "CREATED"]
  /\ Audio("promote", audio.todo, NoImpl)
  /\ UNCHANGED <<head, kind, file, sized, play, mail, faceVars, listVars, jobVars,
                 worker, ctl>>

PromotesAll ==
  /\ audio.at = "promote" /\ audio.todo = {}
  /\ Audio("sync", inUse, NoImpl)
  /\ UNCHANGED <<implVars, faceVars, listVars, jobVars, worker, ctl>>

\* faulty: a sound that falls silent is taken for one that was destroyed
Silent(i) == play[i] = "stopped"
Orphaned(i) == head[i] = NoSound
Releasable(i) == kind[i] = "dsp" \/ play[i] = "stopped"

\* sync() of a sound whose interface lives: its messages take effect
Syncs(i) ==
  /\ audio.at = "sync" /\ i \in audio.todo /\ ~Orphaned(i)
  /\ play' = [play EXCEPT ![i] = IF mail[i] THEN "playing" ELSE @]
  /\ mail' = [mail EXCEPT ![i] = FALSE]
  /\ Audio("sync", audio.todo \ {i}, NoImpl)
  /\ UNCHANGED <<status, head, kind, file, sized, faceVars, listVars, jobVars, worker, ctl>>

\* faulty: a playing sound is marked done but not told to stop
StopsNothing(i) ==
  /\ audio.at = "sync" /\ i \in audio.todo /\ Orphaned(i) /\ ~Releasable(i)
  /\ status' = [status EXCEPT ![i] = "DONE"]
  /\ Audio("sync", audio.todo \ {i}, NoImpl)
  /\ UNCHANGED <<head, kind, file, sized, play, mail, faceVars, listVars, jobVars, worker, ctl>>

\* sync() of one whose interface is gone: a file fades out first
Stops(i) ==
  /\ audio.at = "sync" /\ i \in audio.todo /\ Orphaned(i) /\ ~Releasable(i)
  /\ status' = [status EXCEPT ![i] = "DONE"]
  /\ play' = [play EXCEPT ![i] = "fading"]
  /\ Audio("sync", audio.todo \ {i}, NoImpl)
  /\ UNCHANGED <<head, kind, file, sized, mail, faceVars, listVars, jobVars, worker, ctl>>

\* OBJECT_RELEASE: out of inUse and out of the channel's list, then marked
Releases(i) ==
  /\ audio.at = "sync" /\ i \in audio.todo /\ Orphaned(i) /\ Releasable(i)
  /\ status' = [status EXCEPT ![i] = "RELEASE"]
  /\ inUse' = inUse \ {i} /\ connected' = connected \ {i}
  /\ Audio("release", audio.todo \ {i}, i)
  /\ UNCHANGED <<head, kind, file, sized, play, mail, faceVars, inbox, toLoad, jobVars,
                 worker, ctl>>

\* the block is rendered: a fading sound reaches silence, unless it is virtual
\* in this block and dsp() leaves it alone
Renders(heard) ==
  /\ audio.at = "sync" /\ audio.todo = {}
  /\ heard \subseteq {i \in connected : play[i] = "fading"}
  /\ play' = [i \in Impls |-> IF i \in heard THEN "stopped" ELSE play[i]]
  /\ Audio("idle", {}, NoImpl)
  /\ UNCHANGED <<status, head, kind, file, sized, mail, faceVars, listVars, jobVars,
                 worker, ctl>>

AudioSteps(i) == Keeps(i) \/ Unlinks(i) \/ ReadyChecks(i)
                 \/ Syncs(i) \/ Stops(i) \/ Releases(i)
AudioNext ==
  \/ TickBegins \/ SchedulesSetup \/ TakesRequest \/ PassesRequest
  \/ Promotes \/ SendsBack \/ PromotesAll
  \/ \E loop \in {"scrub", "sync"} : Marks(loop) \/ Asks(loop)
  \/ \E i \in Impls : AudioSteps(i)
  \/ \E heard \in SUBSET Impls : Renders(heard)

----------------------------------------------------------------------------
\* The slow-pool worker: it alone runs the manager's jobs and the file loads.

Worker(at, todo, claimed, cur, saw) ==
  worker' = [at |-> at, todo |-> todo, claimed |-> claimed, cur |-> cur, saw |-> saw]

Born == {i \in Impls : status[i] \notin {"UNBORN", "FREED"}}

TakesJob ==
  /\ worker.at = "idle" /\ ring # <<>>
  /\ ring' = Tail(ring)
  /\ Worker(IF Head(ring) = "setup" THEN "claim" ELSE "scan", Born, {}, NoImpl, "nothing")
  /\ UNCHANGED <<implVars, faceVars, listVars, runDelete, queued, audio, ctl>>

LoadsFile(i, outcome) ==
  /\ worker.at = "idle" /\ kind[i] = "file" /\ file[i] = "LOADING"
  /\ status[i] \notin {"UNBORN", "CONSTRUCTED", "DELETE", "FREED"}
  /\ outcome \in FileOutcomes
  /\ file' = [file EXCEPT ![i] = outcome]
  /\ UNCHANGED <<status, head, kind, sized, play, mail, faceVars, listVars, jobVars,
                 audio, worker, ctl>>

\* faulty: whatever is not ready yet is set up again
ClaimsUnready(i) == status[i] \in {"CREATED", "SETUP"}
\* tryClaimForSetup: a compare-and-swap from OBJECT_CREATED
Claimable(i) == status[i] = "CREATED"
Claims(i) ==
  /\ worker.at = "claim" /\ i \in worker.todo /\ Claimable(i)
  /\ status' = [status EXCEPT ![i] = "SETTING_UP"]
  /\ Worker("claim", worker.todo \ {i}, worker.claimed \cup {i}, NoImpl, "nothing")
  /\ UNCHANGED <<head, kind, file, sized, play, mail, faceVars, listVars, jobVars, audio, ctl>>
PassesBy(i) ==
  /\ worker.at = "claim" /\ i \in worker.todo /\ ~Claimable(i)
  /\ Worker("claim", worker.todo \ {i}, worker.claimed, NoImpl, "nothing")
  /\ UNCHANGED <<implVars, faceVars, listVars, jobVars, audio, ctl>>
ClaimsAll ==
  /\ worker.at = "claim" /\ worker.todo = {}
  /\ Worker("setup", {}, worker.claimed, NoImpl, "nothing")
  /\ UNCHANGED <<implVars, faceVars, listVars, jobVars, audio, ctl>>

\* setup() reads the head and the file, sizes the buffers if it can ...
Verdict(i) == IF head[i] = NoSound \/ (kind[i] = "file" /\ file[i] = "INVALID")
              THEN "DELETE_PENDING" ELSE "SETUP"
SetsUp(i) ==
  /\ worker.at = "setup" /\ i \in worker.claimed
  /\ sized' = [sized EXCEPT ![i] = @ \/ (Verdict(i) = "SETUP"
                                         /\ (kind[i] = "dsp" \/ file[i] = "READY"))]
  /\ Worker("verdict", {}, worker.claimed \ {i}, i, Verdict(i))
  /\ UNCHANGED <<status, head, kind, file, play, mail, faceVars, listVars, jobVars, audio, ctl>>

\* ... and stores what it found last
StoresVerdict ==
  /\ worker.at = "verdict"
  /\ status' = [status EXCEPT ![worker.cur] = worker.saw]
  /\ Worker("setup", {}, worker.claimed, NoImpl, "nothing")
  /\ UNCHANGED <<head, kind, file, sized, play, mail, faceVars, listVars, jobVars, audio, ctl>>

\* the delete job: remove_if(canBeDeleted).  The destructor reads the head, and
\* writes h->pimpl when the interface is still attached
Deletable(i) == status[i] = "DELETE"
ReadsHead(i) ==
  /\ worker.at = "scan" /\ i \in worker.todo /\ Deletable(i)
  /\ Worker("free", worker.todo \ {i}, {}, i, head[i])
  /\ UNCHANGED <<implVars, faceVars, listVars, jobVars, audio, ctl>>
SkipsLive(i) ==
  /\ worker.at = "scan" /\ i \in worker.todo /\ ~Deletable(i)
  /\ Worker("scan", worker.todo \ {i}, {}, NoImpl, "nothing")
  /\ UNCHANGED <<implVars, faceVars, listVars, jobVars, audio, ctl>>
Frees ==
  /\ worker.at = "free"
  /\ pimpl' = [s \in Sounds |-> IF s = worker.saw THEN NoImpl ELSE pimpl[s]]
  /\ status' = [status EXCEPT ![worker.cur] = "FREED"]
  /\ Worker("scan", worker.todo, {}, NoImpl, "nothing")
  /\ UNCHANGED <<head, kind, file, sized, play, mail, life, listVars, jobVars, audio, ctl>>

\* activate(): inQueue is the last store into the job
Finishes(j) ==
  /\ worker.at = IF j = "setup" THEN "setup" ELSE "scan"
  /\ worker.todo = {} /\ worker.claimed = {}
  /\ queued' = [queued EXCEPT ![j] = FALSE]
  /\ Worker("idle", {}, {}, NoImpl, "nothing")
  /\ UNCHANGED <<implVars, faceVars, listVars, runDelete, ring, audio, ctl>>

WorkerNext ==
  \/ TakesJob \/ ClaimsAll \/ StoresVerdict \/ Frees
  \/ \E j \in Jobs : Finishes(j)
  \/ \E i \in Impls : Claims(i) \/ PassesBy(i) \/ SetsUp(i) \/ ReadsHead(i) \/ SkipsLive(i)

Loads == \E i \in Impls, outcome \in FileOutcomes : LoadsFile(i, outcome)

Next == ControlNext \/ AudioNext \/ WorkerNext \/ Loads

Spec == Init /\ [][Next]_vars

\* the callback keeps coming and the worker keeps running; a call under way on
\* the control thread returns, but nobody is obliged to make one
Live == Spec /\ WF_vars(AudioNext) /\ WF_vars(WorkerNext) /\ WF_vars(ControlReturns)

\* and no sound is virtual for ever: it is rendered again and again
Audible == Live /\ \A i \in Impls : SF_vars(\E heard \in SUBSET Impls : i \in heard /\ Renders(heard))

----------------------------------------------------------------------------
\* Properties.

TypeOK ==
  /\ status \in [Impls -> Status] /\ head \in [Impls -> Sounds \cup {NoSound}]
  /\ kind \in [Impls -> {"file", "dsp"}]
  /\ file \in [Impls -> {"LOADING", "READY", "INVALID"}]
  /\ sized \in [Impls -> BOOLEAN] /\ mail \in [Impls -> BOOLEAN]
  /\ play \in [Impls -> {"stopped", "playing", "fading"}]
  /\ pimpl \in [Sounds -> Impls \cup {NoImpl}]
  /\ life \in [Sounds -> {"absent", "alive", "gone"}]
  /\ inbox \subseteq Impls /\ toLoad \subseteq Impls
  /\ inUse \subseteq Impls /\ connected \subseteq Impls
  /\ runDelete \in BOOLEAN /\ queued \in [Jobs -> BOOLEAN]
  \* a job is in the ring at most once (isQueued is tested before each push)
  /\ ring \in {<<>>} \cup {<<j>> : j \in Jobs} \cup {<<"setup", "delete">>, <<"delete", "setup">>}
  /\ audio.todo \subseteq Impls /\ worker.todo \subseteq Impls

\* An implementation the delete job may free, or has freed, is in no list the
\* audio thread walks: it was unlinked before it was marked (#830).  Any other is
\* in one of them at most, since the two lists share one link in the
\* implementation (#194) and the inbox feeds the first.
DeleteMeansUnlinked ==
  /\ \A i \in Impls : status[i] \in {"DELETE", "FREED"} =>
       i \notin inbox \cup toLoad \cup inUse \cup connected
  /\ toLoad \cap inUse = {}
  /\ inbox \cap (toLoad \cup inUse) = {}

\* While the worker is setting an implementation up, resizing the buffers the
\* callback renders with, the audio thread neither renders it nor frees it, and
\* no status says that its setup is over.
SetupAlone ==
  \A i \in worker.claimed \cup {worker.cur} :
     worker.at \in {"claim", "setup", "verdict"} /\ i # NoImpl =>
        i \notin inUse /\ status[i] \in {"CREATED", "SETTING_UP"}

\* The two pointers between an interface and its implementation agree: an
\* implementation that still points at an interface is the one that interface
\* points at, so its destructor clears nobody else's pimpl (#815).
PointersAgree ==
  \A i \in Born : head[i] # NoSound =>
     life[head[i]] = "alive" /\ pimpl[head[i]] = i

\* The implementation exists from a successful create() to the destructor: a call
\* through pimpl reaches a live one, and a destructor on the slow pool writes
\* into no interface that is gone.
InterfaceSafe ==
  /\ ctl.at \in {"send", "destroy"} => status[ctl.i] # "FREED"
  /\ worker.at = "free" /\ worker.saw # NoSound => life[worker.saw] = "alive"

\* So it does while files load: only an implementation whose file turned out
\* invalid can be freed under its interface.
SafeUnlessInvalid ==
  /\ ctl.at \in {"send", "destroy"} /\ file[ctl.i] # "INVALID" => status[ctl.i] # "FREED"
  /\ worker.at = "free" /\ file[worker.cur] # "INVALID" /\ worker.saw # NoSound =>
       life[worker.saw] = "alive"

\* What is marked for deletion is freed, whichever thread marked it and whatever
\* job was running when it did.
MarkedIsFreed == \A i \in Impls : status[i] = "DELETE" ~> status[i] = "FREED"

\* A sound in use whose interface is destroyed is stopped and removed.
OrphanIsFreed ==
  \A i \in Impls : (i \in inUse /\ Orphaned(i)) ~> status[i] = "FREED"

=============================================================================
