---------------------------- MODULE StreamRefill ----------------------------
(***************************************************************************)
(* A streaming sound.  The audio thread plays the front buffer and asks    *)
(* the slow pool to fill the back one; a claim flag, a ready flag and the  *)
(* pool's count of the job say where the refill is.  A stop or a seek      *)
(* raises a generation, so that what was being filled is not played.  When *)
(* its interface is gone the sound is marked, and a delete job on the same *)
(* worker destroys it, after a join with the refill.                       *)
(*                                                                         *)
(* Frames are numbered modulo the length of the file.  Generations are     *)
(* only compared with the present one, so each is represented by whether   *)
(* it is still that one.  What a buffer holds when nobody will look at it  *)
(* is 0.  The loop flag is chosen where it is stored.  What the manager's  *)
(* queues do is in SoundLifecycle, what the pool's ring does in            *)
(* ThreadPool; a full ring drops a request as a closed pool does.          *)
(***************************************************************************)
EXTENDS Integers, Sequences, FiniteSets

CONSTANTS
  Frames,    \* frames in the file
  Size,      \* frames in a buffer: STREAM_BUFFERSIZE
  Targets,   \* where the host may seek to
  Stops      \* bound: shutdowns of the slow pool

ASSUME StreamAssumption ==
  /\ Frames \in Nat \ {0} /\ Size \in Nat \ {0} /\ Stops \in Nat
  /\ Targets \subseteq 0..Frames

Jobs == {"refill", "delete"}

VARIABLES
  \* the sound, on the audio thread
  audio, return,     \* where the thread is; where requestRefill returns to
  status,
  frontStart,        \* the first frame in the front buffer
  frontFresh,        \* it was filled in the present generation
  frontValid, frontTerminal, base,
  left,              \* frames of the front buffer are still to be played
  \* shared with the worker
  streamLoop, backReady, inFlight, needsReset, seekTarget,
  backStart, backValid, backFresh,
  \* the worker and the pool
  worker, job, taken, filling, current, at,
  ring, queued, open, stops,
  \* the owner
  head, runDelete, marked, freed,
  \* history: since the last stop or seek began, a fill has come between two
  \* accesses of the audio thread that take for granted it has not
  crossed

buffers == <<frontStart, frontFresh, frontValid, frontTerminal, base, left,
             backStart, backValid, backFresh>>
backBuffer == <<backStart, backValid, backFresh>>
reset == <<needsReset, seekTarget>>
work == <<worker, job, taken, filling, current, at>>
pool == <<ring, queued, open, stops>>
owner == <<head, runDelete, marked, freed>>
vars == <<audio, return, status, streamLoop, backReady, inFlight, buffers, reset, work, pool,
          owner, crossed>>

IsQueued(j) == queued[j] # 0
Lesser(m, n) == IF m < n THEN m ELSE n

(***************************************************************************)
(* requestRefill                                                           *)
(***************************************************************************)
Request(then) == audio' = "request" /\ return' = then
Return == audio' = return /\ return' = "none"
RequestUnchanged == UNCHANGED <<status, backReady, buffers, reset, work, owner, crossed>>

StoreLoop ==
  /\ audio = "request"
  /\ streamLoop' \in BOOLEAN
  /\ IF backReady THEN Return ELSE audio' = "claimed" /\ UNCHANGED return
  /\ UNCHANGED <<inFlight, pool>> /\ RequestUnchanged

LoadClaim ==
  /\ audio = "claimed"
  /\ audio' = IF inFlight THEN "leaked" ELSE "claim"
  /\ UNCHANGED <<return, streamLoop, inFlight, pool>> /\ RequestUnchanged

\* faulty: a leaked claim is not taken back
HealNothing ==
  /\ audio = "leaked"
  /\ audio' = "claim"
  /\ UNCHANGED <<return, streamLoop, inFlight, pool>> /\ RequestUnchanged

\* Claimed but not queued: the request was dropped.
Heal ==
  /\ audio = "leaked"
  /\ inFlight' = (inFlight /\ IsQueued("refill"))
  /\ audio' = "claim"
  /\ UNCHANGED <<return, streamLoop, pool>> /\ RequestUnchanged

Claim ==
  /\ audio = "claim"
  /\ inFlight' = TRUE
  /\ IF inFlight THEN Return ELSE audio' = "recheck" /\ UNCHANGED return
  /\ UNCHANGED <<streamLoop, pool>> /\ RequestUnchanged

\* faulty: the back buffer is not looked at again after the claim
RecheckNothing ==
  /\ audio = "recheck"
  /\ audio' = "settled"
  /\ UNCHANGED <<return, streamLoop, inFlight, pool>> /\ RequestUnchanged

\* The two checks after the claim, each undoing it.
Recheck ==
  /\ audio = "recheck"
  /\ IF backReady
     THEN inFlight' = FALSE /\ Return
     ELSE audio' = "settled" /\ UNCHANGED <<inFlight, return>>
  /\ UNCHANGED <<streamLoop, pool>> /\ RequestUnchanged

Settled ==
  /\ audio = "settled"
  /\ IF IsQueued("refill")
     THEN inFlight' = FALSE /\ Return
     ELSE audio' = "add" /\ UNCHANGED <<inFlight, return>>
  /\ UNCHANGED <<streamLoop, pool>> /\ RequestUnchanged

\* addJob tests active, then pushes.
TestActive ==
  /\ audio = "add"
  /\ IF open THEN audio' = "push" /\ UNCHANGED return ELSE Return
  /\ UNCHANGED <<streamLoop, inFlight, pool>> /\ RequestUnchanged

AddJob(j) ==
  /\ queued' = [queued EXCEPT ![j] = @ + 1]
  /\ ring' = Append(ring, j)

Push ==
  /\ audio = "push"
  /\ AddJob("refill")
  /\ Return
  /\ UNCHANGED <<streamLoop, inFlight, open, stops>> /\ RequestUnchanged

RequestRefill ==
  StoreLoop \/ LoadClaim \/ Heal \/ Claim \/ Recheck \/ Settled \/ TestActive \/ Push

(***************************************************************************)
(* reset and seek: the same stores in the same order                       *)
(***************************************************************************)

\* The front buffer is emptied and the target stored.
Empty(frame, then) ==
  /\ frontStart' = 0 /\ frontFresh' = FALSE
  /\ frontValid' = 0 /\ frontTerminal' = FALSE /\ left' = FALSE
  /\ base' = frame % Frames
  /\ seekTarget' = frame
  /\ audio' = "arm" /\ return' = then
  /\ crossed' = FALSE
  /\ UNCHANGED <<streamLoop, backReady, inFlight, backBuffer, needsReset, work, pool, owner>>

Arm ==
  /\ audio = "arm"
  /\ needsReset' = TRUE
  /\ audio' = "raise"
  /\ UNCHANGED <<return, status, streamLoop, backReady, inFlight, buffers, seekTarget, work,
                 pool, owner, crossed>>

\* _fillGen is raised: nothing filled or being filled is current any more.
Raise ==
  /\ audio = "raise"
  /\ backFresh' = FALSE /\ current' = FALSE
  /\ audio' = "drop"
  /\ UNCHANGED <<return, status, streamLoop, backReady, inFlight, frontStart, frontFresh,
                 frontValid, frontTerminal, base, left, backStart, backValid, reset, worker,
                 job, taken, filling, at, pool, owner, crossed>>

DropBack == backReady' = FALSE /\ backStart' = 0 /\ backValid' = 0 /\ backFresh' = FALSE

\* A reset on a stop from a pause asks for nothing.
Drop ==
  /\ audio = "drop"
  /\ IF backReady THEN DropBack ELSE UNCHANGED <<backReady, backBuffer>>
  /\ IF return = "reset"
     THEN audio' = "idle" /\ return' = "none"
     ELSE audio' = "request" /\ UNCHANGED return
  /\ UNCHANGED <<status, streamLoop, inFlight, frontStart, frontFresh, frontValid,
                 frontTerminal, base, left, reset, work, pool, owner, crossed>>

Stores == Arm \/ Raise \/ Drop

(***************************************************************************)
(* One block: the manager's update, then the sound's dsp and its read      *)
(***************************************************************************)
BlockUnchanged == UNCHANGED <<streamLoop, inFlight, reset, work, owner, crossed>>

\* What update() does about this sound: an earlier request for the delete job
\* goes to the pool; a sound without an interface is stopped, then marked.
Update ==
  /\ audio = "idle"
  /\ LET asks == runDelete /\ ~IsQueued("delete")
         dies == ~head /\ status = "stopped" /\ ~marked
     IN /\ IF asks /\ open THEN AddJob("delete") ELSE UNCHANGED <<ring, queued>>
        /\ runDelete' = ((runDelete /\ ~asks) \/ dies)
        /\ marked' = (marked \/ dies)
  /\ status' = IF ~head /\ status = "paused" THEN "playing" ELSE status
  /\ audio' = IF marked' THEN "idle" ELSE "dsp"
  /\ UNCHANGED <<return, streamLoop, backReady, inFlight, buffers, reset, work, open, stops,
                 head, freed, crossed>>

\* The host's play.
Play ==
  /\ audio = "dsp" /\ status # "playing" /\ head
  /\ status' = "playing"
  /\ UNCHANGED <<audio, return, backReady, buffers, pool>> /\ BlockUnchanged

Silent ==
  /\ audio = "dsp" /\ status # "playing"
  /\ audio' = "idle"
  /\ UNCHANGED <<return, status, backReady, buffers, pool>> /\ BlockUnchanged

\* A stop that finds the sound paused.
StopPaused ==
  /\ audio = "dsp" /\ status = "paused"
  /\ status' = "stopped"
  /\ Empty(0, "reset")

\* setFilePos of a playing sound, or a restart of any.
Seek(frame) ==
  /\ audio = "dsp"
  /\ status = "playing" \/ (frame = 0 /\ head)
  /\ status' = "playing"
  /\ Empty(frame, "dsp")

\* A fade that ends before the block stops the sound where it is.
FadedOut ==
  /\ audio = "dsp" /\ status = "playing"
  /\ status' = "stopped"
  /\ audio' = "idle"
  /\ UNCHANGED <<return, backReady, buffers, pool>> /\ BlockUnchanged

BeginRead ==
  /\ audio = "dsp" /\ status = "playing"
  /\ Request(IF left THEN "play" ELSE "swap")
  /\ UNCHANGED <<status, backReady, buffers, pool>> /\ BlockUnchanged

\* streamSwap: the end of the file; streamReprime is a reset and a request.
SwapTerminal ==
  /\ audio = "swap" /\ frontTerminal
  /\ status' = "stopped"
  /\ Empty(0, "idle")

\* A back buffer of an older generation is dropped.
DropStale ==
  /\ audio = "swap" /\ ~frontTerminal
  /\ IF backReady /\ ~backFresh THEN DropBack ELSE UNCHANGED <<backReady, backBuffer>>
  /\ audio' = "take"
  /\ UNCHANGED <<return, status, frontStart, frontFresh, frontValid, frontTerminal, base, left,
                 pool>> /\ BlockUnchanged

\* Nothing to swap in: silence until the next block.
Underrun ==
  /\ audio = "take" /\ ~backReady
  /\ Request("idle")
  /\ UNCHANGED <<status, backReady, buffers, pool>> /\ BlockUnchanged

Swap ==
  /\ audio = "take" /\ backReady
  /\ frontStart' = backStart /\ frontFresh' = backFresh
  /\ frontValid' = backValid
  /\ frontTerminal' = (backValid < Size)
  /\ base' = (base + frontValid) % Frames
  /\ left' = (backValid > 0)
  /\ DropBack
  /\ Request(IF left' THEN "play" ELSE "swap")
  /\ UNCHANGED <<status, pool>> /\ BlockUnchanged

\* The inner loops: the block ends, or the front buffer does, or a fade does.
PlayOn ==
  /\ audio = "play"
  /\ audio' = "idle"
  /\ UNCHANGED <<return, status, backReady, buffers, pool>> /\ BlockUnchanged

PlayOut ==
  /\ audio = "play"
  /\ left' = FALSE
  /\ audio' = "swap"
  /\ UNCHANGED <<return, status, backReady, frontStart, frontFresh, frontValid, frontTerminal,
                 base, backBuffer, pool>> /\ BlockUnchanged

FadeToPause ==
  /\ audio = "play" /\ head
  /\ status' = "paused"
  /\ audio' = "idle"
  /\ UNCHANGED <<return, backReady, buffers, pool>> /\ BlockUnchanged

FadeToStop ==
  /\ audio = "play"
  /\ status' = "stopped"
  /\ Empty(0, "idle")

Block ==
  \/ Update \/ Play \/ Silent \/ StopPaused \/ FadedOut \/ BeginRead
  \/ \E frame \in Targets : Seek(frame)
  \/ SwapTerminal \/ DropStale \/ Underrun \/ Swap
  \/ PlayOn \/ PlayOut \/ FadeToPause \/ FadeToStop

(***************************************************************************)
(* The slow pool's one worker: fillBackBuffer                              *)
(***************************************************************************)
SoundUnchanged == UNCHANGED <<audio, return, status, frontStart, frontFresh, frontValid,
                              frontTerminal, base, left, streamLoop, open, stops, head,
                              runDelete, marked>>
WorkUnchanged == SoundUnchanged /\ UNCHANGED crossed

Pop ==
  /\ worker = "idle" /\ open /\ ring # <<>>
  /\ ring' = Tail(ring)
  /\ IF IsQueued(Head(ring))
     THEN /\ job' = Head(ring) /\ taken' = queued[Head(ring)]
          /\ worker' = IF Head(ring) = "refill" THEN "fill" ELSE "scan"
     ELSE UNCHANGED <<job, taken, worker>>
  /\ UNCHANGED <<filling, current, at, backReady, inFlight, backBuffer, reset, queued, freed>>
  /\ WorkUnchanged

\* The loop flag and the generation are read first.
FillBegins ==
  /\ worker = "fill"
  /\ filling' = streamLoop
  /\ current' = TRUE
  /\ worker' = "reset"
  /\ UNCHANGED <<job, taken, at, backReady, inFlight, backBuffer, reset, ring, queued, freed>>
  /\ WorkUnchanged

TakeReset ==
  /\ worker = "reset"
  /\ needsReset' = FALSE
  /\ worker' = IF needsReset THEN "seek" ELSE "read"
  /\ UNCHANGED <<job, taken, filling, current, at, backReady, inFlight, backBuffer, seekTarget,
                 ring, queued, freed>> /\ WorkUnchanged

SeekFile ==
  /\ worker = "seek"
  /\ at' = seekTarget
  /\ worker' = "read"
  /\ UNCHANGED <<job, taken, filling, current, backReady, inFlight, backBuffer, reset, ring,
                 queued, freed>> /\ WorkUnchanged

\* Where the file is left after Size frames from a, around the end if looping.
After(a, looping) ==
  IF a + Size <= Frames THEN a + Size
  ELSE IF looping THEN ((a + Size - 1) % Frames) + 1 ELSE Frames

ReadFile ==
  /\ worker = "read"
  /\ backStart' = at % Frames
  /\ backValid' = IF filling THEN Size ELSE Lesser(Size, Frames - at)
  /\ at' = After(at, filling)
  /\ worker' = "check"
  /\ filling' = FALSE
  /\ UNCHANGED <<job, taken, current, backReady, inFlight, backFresh, reset, ring,
                 queued, freed>> /\ WorkUnchanged

\* faulty: a consumed reset is not armed again
CheckNothing ==
  /\ worker = "check"
  /\ worker' = "publish"
  /\ UNCHANGED <<job, taken, filling, current, at, backReady, inFlight, backBuffer, reset,
                 ring, queued, freed>> /\ WorkUnchanged

\* A reset or a seek in the meantime may have been consumed: arm it again.
CheckGeneration ==
  /\ worker = "check"
  /\ needsReset' = (needsReset \/ ~current)
  /\ worker' = "publish"
  /\ crossed' = (crossed \/ (audio = "raise" /\ current /\ ~needsReset))
  /\ UNCHANGED <<job, taken, filling, current, at, backReady, inFlight, backBuffer, seekTarget,
                 ring, queued, freed>> /\ SoundUnchanged

Publish ==
  /\ worker = "publish"
  /\ backFresh' = current
  /\ backReady' = TRUE
  /\ worker' = "unclaim"
  /\ crossed' = (crossed \/ (audio = "take" /\ ~current) \/ (audio = "drop" /\ current))
  /\ current' = FALSE
  /\ UNCHANGED <<job, taken, filling, at, inFlight, backStart, backValid, reset, ring,
                 queued, freed>> /\ SoundUnchanged

Unclaim ==
  /\ worker = "unclaim"
  /\ inFlight' = FALSE
  /\ worker' = "release"
  /\ UNCHANGED <<job, taken, filling, current, at, backReady, backBuffer, reset, ring, queued,
                 freed>> /\ WorkUnchanged

\* activate()'s last store; what the worker held of the job is forgotten.
Release ==
  /\ worker = "release"
  /\ queued' = [queued EXCEPT ![job] = @ - Lesser(@, taken)]
  /\ worker' = "idle"
  /\ job' = "refill" /\ taken' = 0
  /\ UNCHANGED <<filling, current, at, backReady, inFlight, backBuffer, reset, ring, freed>> /\ WorkUnchanged

(***************************************************************************)
(* The delete job, and the destructors below it                            *)
(***************************************************************************)
Scan ==
  /\ worker = "scan"
  /\ worker' = IF marked /\ ~freed THEN "join" ELSE "release"
  /\ UNCHANGED <<job, taken, filling, current, at, backReady, inFlight, backBuffer, reset, ring,
                 queued, freed>> /\ WorkUnchanged

\* ~soundFile: the join, then the buffers and the file go.
Destroy ==
  /\ worker = "join" /\ ~IsQueued("refill")
  /\ freed' = TRUE
  /\ worker' = "release"
  /\ UNCHANGED <<job, taken, filling, current, at, backReady, inFlight, backBuffer, reset, ring,
                 queued>> /\ WorkUnchanged

Work ==
  \/ Pop \/ FillBegins \/ TakeReset \/ SeekFile \/ ReadFile \/ CheckGeneration
  \/ Publish \/ Unclaim \/ Release \/ Scan \/ Destroy

(***************************************************************************)
(* The rest of the program                                                 *)
(***************************************************************************)
StreamUnchanged == UNCHANGED <<audio, return, status, streamLoop, backReady, inFlight, buffers,
                               reset, work, crossed>>

\* The control thread destroys the interface.
RemoveInterface ==
  /\ head /\ head' = FALSE
  /\ UNCHANGED <<pool, runDelete, marked, freed>> /\ StreamUnchanged

\* Another sound has been marked; while this one has its interface that only
\* keeps the worker busy for a while.
OtherMarked ==
  /\ audio = "idle" /\ ~head /\ ~freed /\ ~runDelete
  /\ runDelete' = TRUE
  /\ UNCHANGED <<pool, head, marked, freed>> /\ StreamUnchanged

Shutdown ==
  /\ open /\ stops < Stops
  /\ open' = FALSE /\ stops' = stops + 1
  /\ ring' = <<>>
  /\ queued' = [j \in Jobs |-> IF \E i \in DOMAIN ring : ring[i] = j THEN 0 ELSE queued[j]]
  /\ UNCHANGED owner /\ StreamUnchanged

\* The worker has been joined before.
Startup ==
  /\ ~open /\ worker = "idle"
  /\ open' = TRUE
  /\ UNCHANGED <<ring, queued, stops, owner>> /\ StreamUnchanged

(***************************************************************************)
(* The specification                                                       *)
(***************************************************************************)

\* loadStreaming has filled the front buffer, without looping.
Init ==
  /\ audio = "idle" /\ return = "none" /\ status = "stopped"
  /\ frontStart = 0 /\ frontFresh = TRUE /\ frontValid = Lesser(Size, Frames)
  /\ frontTerminal = FALSE /\ base = 0 /\ left = TRUE
  /\ streamLoop = FALSE /\ backReady = FALSE /\ inFlight = FALSE
  /\ needsReset = FALSE /\ seekTarget = 0
  /\ backStart = 0 /\ backValid = 0 /\ backFresh = FALSE
  /\ worker = "idle" /\ job = "refill" /\ taken = 0 /\ filling = FALSE /\ current = FALSE
  /\ at = After(0, FALSE)
  /\ ring = <<>> /\ queued = [j \in Jobs |-> 0] /\ open = TRUE /\ stops = 0
  /\ head = TRUE /\ runDelete = FALSE /\ marked = FALSE /\ freed = FALSE
  /\ crossed = FALSE

AudioStep == RequestRefill \/ Stores \/ Block

Next ==
  \/ AudioStep \/ Work
  \/ RemoveInterface \/ OtherMarked \/ Shutdown \/ Startup

Spec == Init /\ [][Next]_vars

\* The device asks for blocks and the worker runs; nothing else is promised.
FairSpec == Spec /\ WF_vars(AudioStep) /\ WF_vars(Work)

(***************************************************************************)
(* Properties                                                              *)
(***************************************************************************)

\* Every variable keeps its type.
TypeOK ==
  /\ audio \in {"idle", "dsp", "request", "claimed", "leaked", "claim", "recheck", "settled",
                "add", "push", "arm", "raise", "drop", "swap", "take", "play"}
  /\ return \in {"none", "idle", "reset", "dsp", "swap", "play"}
  /\ status \in {"playing", "paused", "stopped"}
  /\ frontStart \in 0..Frames - 1 /\ frontValid \in 0..Size /\ base \in 0..Frames - 1
  /\ {frontFresh, frontTerminal, left, streamLoop, backReady, inFlight, needsReset, backFresh,
      filling, current, open, head, runDelete, marked, freed, crossed} \subseteq BOOLEAN
  /\ seekTarget \in 0..Frames
  /\ backStart \in 0..Frames - 1 /\ backValid \in 0..Size
  /\ worker \in {"idle", "fill", "reset", "seek", "read", "check", "publish", "unclaim",
                 "release", "scan", "join"}
  /\ job \in Jobs /\ taken \in 0..2 /\ at \in 0..Frames
  /\ ring \in Seq(Jobs) /\ queued \in [Jobs -> 0..2] /\ stops \in 0..Stops

Filling == worker \in {"fill", "reset", "seek", "read", "check", "publish"}
Requests == {i \in DOMAIN ring : ring[i] = "refill"}

\* A fill has its buffer to itself.  No buffer waits to be swapped in while the
\* worker fills, so it neither overwrites one nor has its own swapped to the
\* front under it; no second fill is waiting; and nothing is filled that has
\* been freed (abstractSoundFile.cpp:176-211).
FillAlone ==
  /\ Filling => ~backReady
  /\ Requests # {} => Cardinality(Requests) = 1 /\ ~backReady
  /\ freed => ~Filling /\ Requests = {}

\* What is played is what comes next.  First, whatever stops, seeks, fills and
\* shutdowns cross: a buffer that waits to follow another of its generation begins
\* where that one ends, so that none is skipped or repeated.  Second, the front
\* buffer begins at the frame the position says, so that none is played after a
\* seek it does not know of, until a fill has crossed one of three
\* pairs of accesses: published stale between the two loads of _backReady
\* (abstractSoundFile.cpp:525, 531), which is played although abstractSoundFile.h:182-184
\* says it is not (AcceptsOnlyCurrent and MCStreamStale.cfg show it); finished between the
\* stores of _needsReset and _fillGen; or between _fillGen and _backReady
\* (abstractSoundFile.cpp:857-859).  The next stop or seek puts it right.
Gapless ==
  frontFresh /\ backReady /\ backFresh => backStart = (frontStart + frontValid) % Frames
PlaysWhereItSays ==
  /\ Gapless
  /\ frontValid > 0 /\ ~crossed => frontStart = base

\* A sound whose front buffer is used up gets another, or stops at the end of
\* the file, as long as the pool is open and no seek begins anew: no claim is
\* leaked for good, and no refill waits for a block that waits for it.
Fed == (status = "playing" /\ ~left) ~> (left \/ status # "playing" \/ ~open \/ audio = "arm")

\* "The audio thread accepts a swap only when the tag still matches"
\* (abstractSoundFile.h:181-184).
AcceptsOnlyCurrent == frontValid > 0 => frontFresh

\* "Let it finish before we free the handle and buffers it writes to"
\* (lsfSoundfile.cpp:28-30): the destructor's join returns.
JoinReturns == (worker = "join") ~> (worker # "join")

=============================================================================
