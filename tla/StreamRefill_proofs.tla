------------------------ MODULE StreamRefill_proofs ------------------------
(***************************************************************************)
(* For any file, any size of buffer, any seeks and any number of shutdowns *)
(* of the pool: a fill has its buffer to itself, and what is played is     *)
(* what is due.                                                            *)
(***************************************************************************)
EXTENDS StreamRefill, FiniteSetTheorems, TLAPS

(***************************************************************************)
(* FillAlone is not inductive.  A refill is in one of four places: in the  *)
(* audio thread's hands between the claim and the push, in the ring, in    *)
(* the worker's hands, or nowhere.  The claim flag is up in the first      *)
(* three, the pool's count is 1 in the ring and in the worker's hands, and *)
(* no two of them hold at once.                                            *)
(***************************************************************************)

\* The audio thread has the claim.
Claiming == audio \in {"recheck", "settled", "add", "push"}

\* The worker has the refill job, until the pool's last store into it.
Unclaimed == worker = "release" /\ job = "refill"
Running == Filling \/ worker = "unclaim"

Waiting == Requests # {}

\* What the argument needs of the types.
RefillTypes ==
  /\ ring \in Seq(Jobs) /\ queued \in [Jobs -> Nat]
  /\ job \in Jobs /\ taken \in Nat
  /\ inFlight \in BOOLEAN /\ backReady \in BOOLEAN /\ marked \in BOOLEAN /\ freed \in BOOLEAN
  /\ return \in {"none", "idle", "reset", "dsp", "swap", "play"}

\* The refill is pushed at most once.
OnePush == \A i, j \in Requests : i = j

\* The claim flag guards the three places, and keeps them apart.
ClaimGuards ==
  /\ Claiming \/ Waiting \/ Running => inFlight
  /\ Claiming => ~Waiting /\ ~Running
  /\ Waiting => ~Running /\ ~Unclaimed

\* The pool counts the refill exactly while it has it.
CountsRefill ==
  /\ queued["refill"] = IF Waiting \/ Running \/ Unclaimed THEN 1 ELSE 0
  /\ Running => job = "refill"
  /\ Running \/ Unclaimed => taken = 1
  /\ audio \in {"add", "push"} => ~Unclaimed

\* No buffer waits to be played once a refill is certain.
BufferFree ==
  /\ Waiting \/ Filling => ~backReady
  /\ audio \in {"settled", "add", "push"} => ~backReady

\* The sound is left alone once it is marked, and freed only then.
MarkedIsLeft ==
  /\ marked => audio = "idle"
  /\ worker \in {"scan", "join"} => job = "delete"
  /\ worker = "join" => marked
  /\ freed => marked /\ ~Waiting /\ ~Running

RefillInv ==
  RefillTypes /\ OnePush /\ ClaimGuards /\ CountsRefill /\ BufferFree /\ MarkedIsLeft

(***************************************************************************)
(* The ring                                                                *)
(***************************************************************************)

\* What is in the ring depends on the ring alone.
LEMMA RingKept ==
  ASSUME ring' = ring
  PROVE  Requests' = Requests
BY DEF Requests

\* A push adds a request if it is the refill that is pushed.
LEMMA RingPushed ==
  ASSUME ring \in Seq(Jobs), NEW j \in Jobs, ring' = Append(ring, j)
  PROVE  /\ ring' \in Seq(Jobs)
         /\ j = "refill" => Requests' = Requests \union {Len(ring) + 1}
         /\ j # "refill" => Requests' = Requests
<1>1. ring' \in Seq(Jobs)
  OBVIOUS
<1>2. DOMAIN ring = 1..Len(ring) /\ DOMAIN ring' = 1..(Len(ring) + 1) /\ Len(ring) \in Nat
  OBVIOUS
<1>3. \A i \in 1..Len(ring) : ring'[i] = ring[i]
  OBVIOUS
<1>4. ring'[Len(ring) + 1] = j
  OBVIOUS
<1> QED
  BY <1>1, <1>2, <1>3, <1>4 DEF Requests

\* A pop takes the first request if there is one, and moves the others up.
LEMMA RingPopped ==
  ASSUME ring \in Seq(Jobs), ring # <<>>, ring' = Tail(ring)
  PROVE  /\ ring' \in Seq(Jobs) /\ Head(ring) \in Jobs
         /\ Requests \subseteq Int
         /\ 1 \in Requests <=> Head(ring) = "refill"
         /\ \A i \in Requests' : i \in Int /\ i # 0 /\ i + 1 \in Requests
         /\ \A i \in Requests : i # 1 => i - 1 \in Requests'
<1>1. ring' \in Seq(Jobs) /\ Head(ring) \in Jobs
  OBVIOUS
<1>2. Len(ring) \in Nat \ {0} /\ DOMAIN ring = 1..Len(ring) /\ DOMAIN ring' = 1..(Len(ring) - 1)
  OBVIOUS
<1>3. \A i \in 1..(Len(ring) - 1) : ring'[i] = ring[i + 1]
  OBVIOUS
<1>4. Head(ring) = ring[1]
  OBVIOUS
<1>5. \A i \in Requests : i # 1 => i - 1 \in Requests'
  <2> SUFFICES ASSUME NEW i \in Requests, i # 1 PROVE i - 1 \in Requests'
    OBVIOUS
  <2>1. i \in 1..Len(ring) /\ ring[i] = "refill"
    BY <1>2 DEF Requests
  <2>2. i - 1 \in 1..(Len(ring) - 1) /\ (i - 1) + 1 = i
    BY <1>2, <2>1
  <2> QED
    BY <1>2, <1>3, <2>1, <2>2 DEF Requests
<1> QED
  BY <1>1, <1>2, <1>3, <1>4, <1>5 DEF Requests

(***************************************************************************)
(* The refill's way                                                        *)
(***************************************************************************)

\* A step of requestRefill.
LEMMA RequestStep ==
  ASSUME RefillInv, RequestRefill
  PROVE  RefillInv'
<1> USE DEF RefillInv, RefillTypes, OnePush, ClaimGuards, CountsRefill, BufferFree, MarkedIsLeft,
            Claiming, Unclaimed, Running, Filling, Waiting, IsQueued, Jobs, Return,
            RequestUnchanged, work, owner, pool
<1>1. CASE StoreLoop
  BY <1>1, RingKept DEF StoreLoop
<1>2. CASE LoadClaim
  BY <1>2, RingKept DEF LoadClaim
<1>3. CASE Heal
  BY <1>3, RingKept DEF Heal
<1>4. CASE Claim
  BY <1>4, RingKept DEF Claim
<1>5. CASE Recheck
  BY <1>5, RingKept DEF Recheck
<1>6. CASE Settled
  <2>1. CASE IsQueued("refill")
    BY <1>6, <2>1, RingKept DEF Settled
  <2>2. CASE ~IsQueued("refill")
    <3>1. queued["refill"] = 0 /\ ~Waiting /\ ~Running /\ ~Unclaimed
      BY <2>2
    <3>2. Requests' = Requests /\ UNCHANGED <<ring, queued, work, backReady, marked, freed>>
      BY <1>6, RingKept DEF Settled
    <3>3. audio = "settled" /\ audio' = "add" /\ UNCHANGED <<inFlight, return>>
      BY <1>6, <2>2 DEF Settled
    <3> QED
      BY <3>1, <3>2, <3>3
  <2> QED
    BY <2>1, <2>2
<1>7. CASE TestActive
  BY <1>7, RingKept DEF TestActive
<1>8. CASE Push
  <2>1. ring' = Append(ring, "refill") /\ queued' = [queued EXCEPT !["refill"] = @ + 1]
    BY <1>8 DEF Push, AddJob
  <2>2. ring' \in Seq(Jobs) /\ Requests' = Requests \union {Len(ring) + 1}
    BY <2>1, RingPushed
  <2>3. Requests = {}
    BY <1>8 DEF Push
  <2> QED
    BY <1>8, <2>1, <2>2, <2>3 DEF Push
<1> HIDE DEF RefillInv
<1> QED
  BY <1>1, <1>2, <1>3, <1>4, <1>5, <1>6, <1>7, <1>8 DEF RequestRefill

\* A store of reset or of seek.
LEMMA StoresStep ==
  ASSUME RefillInv, Stores
  PROVE  RefillInv'
<1> USE DEF RefillInv, RefillTypes, OnePush, ClaimGuards, CountsRefill, BufferFree, MarkedIsLeft,
            Claiming, Unclaimed, Running, Filling, Waiting, work, owner, pool
<1>1. CASE Arm
  BY <1>1, RingKept DEF Arm
<1>2. CASE Raise
  BY <1>2, RingKept DEF Raise
<1>3. CASE Drop
  BY <1>3, RingKept DEF Drop, DropBack
<1> HIDE DEF RefillInv
<1> QED
  BY <1>1, <1>2, <1>3 DEF Stores

\* A step of the block that leaves the pool alone.
LEMMA ReadStep ==
  ASSUME RefillInv, Block, ~Update
  PROVE  RefillInv'
<1> USE DEF RefillInv, RefillTypes, OnePush, ClaimGuards, CountsRefill, BufferFree, MarkedIsLeft,
            Claiming, Unclaimed, Running, Filling, Waiting, Request, Empty, BlockUnchanged,
            work, owner, pool
<1>1. CASE Play \/ Silent \/ StopPaused \/ FadedOut \/ BeginRead
  BY <1>1, RingKept DEF Play, Silent, StopPaused, FadedOut, BeginRead
<1>2. ASSUME NEW frame \in Targets, Seek(frame) PROVE RefillInv'
  BY <1>2, RingKept DEF Seek
<1>3. CASE SwapTerminal \/ Underrun
  BY <1>3, RingKept DEF SwapTerminal, Underrun
<1>4. CASE DropStale
  BY <1>4, RingKept DEF DropStale, DropBack
<1>5. CASE Swap
  BY <1>5, RingKept DEF Swap, DropBack
<1>6. CASE PlayOn \/ PlayOut \/ FadeToPause \/ FadeToStop
  BY <1>6, RingKept DEF PlayOn, PlayOut, FadeToPause, FadeToStop
<1> HIDE DEF RefillInv
<1> QED
  BY <1>1, <1>2, <1>3, <1>4, <1>5, <1>6 DEF Block

\* The manager's update may push the delete job, and marks the sound.
LEMMA UpdateStep ==
  ASSUME RefillInv, Update
  PROVE  RefillInv'
<1>1. /\ ring \in Seq(Jobs) /\ queued \in [Jobs -> Nat]
      /\ "delete" \in Jobs /\ "delete" # "refill" /\ "refill" \in Jobs
  BY DEF RefillInv, RefillTypes, Jobs
<1>2. \/ UNCHANGED <<ring, queued>>
      \/ ring' = Append(ring, "delete") /\ queued' = [queued EXCEPT !["delete"] = @ + 1]
  BY DEF Update, AddJob
<1>3. /\ ring' \in Seq(Jobs) /\ Requests' = Requests
      /\ queued' \in [Jobs -> Nat] /\ queued'["refill"] = queued["refill"]
  <2>1. CASE UNCHANGED <<ring, queued>>
    BY <1>1, <2>1, RingKept
  <2>2. CASE ring' = Append(ring, "delete") /\ queued' = [queued EXCEPT !["delete"] = @ + 1]
    <3>1. ring' \in Seq(Jobs) /\ Requests' = Requests
      BY <1>1, <2>2, RingPushed
    <3> QED
      BY <1>1, <2>2, <3>1
  <2> QED
    BY <1>2, <2>1, <2>2
<1>4. /\ audio = "idle" /\ (marked => marked') /\ marked' \in BOOLEAN
      /\ marked' => audio' = "idle"
      /\ audio' \in {"idle", "dsp"}
      /\ UNCHANGED <<return, backReady, inFlight, worker, job, taken, freed>>
  BY DEF Update, RefillInv, RefillTypes, work, BlockUnchanged
<1> QED
  BY <1>3, <1>4 DEF RefillInv, RefillTypes, OnePush, ClaimGuards, CountsRefill, BufferFree,
     MarkedIsLeft, Claiming, Unclaimed, Running, Filling, Waiting

\* A step of the worker.
LEMMA WorkStep ==
  ASSUME RefillInv, Work
  PROVE  RefillInv'
<1> USE DEF RefillInv, RefillTypes, OnePush, ClaimGuards, CountsRefill, BufferFree, MarkedIsLeft,
            Claiming, Unclaimed, Running, Filling, Waiting, SoundUnchanged, WorkUnchanged,
            backBuffer, reset
<1>1. CASE Pop
  <2>1. ring # <<>> /\ ring' = Tail(ring) /\ worker = "idle"
    BY <1>1 DEF Pop
  <2>2. /\ ring' \in Seq(Jobs) /\ Head(ring) \in Jobs
        /\ 1 \in Requests <=> Head(ring) = "refill"
        /\ \A i \in Requests' : i \in Int /\ i # 0 /\ i + 1 \in Requests
        /\ \A i \in Requests : i # 1 => i - 1 \in Requests'
    BY <2>1, RingPopped
  <2>3. OnePush'
    <3> SUFFICES ASSUME NEW i \in Requests', NEW j \in Requests' PROVE i = j
      OBVIOUS
    <3>1. i + 1 = j + 1 /\ i \in Int /\ j \in Int
      BY <2>2
    <3> QED
      BY <3>1
  <2>4. Head(ring) = "refill" => Requests' = {}
    BY <2>2
  <2>5. Head(ring) # "refill" => (Requests' = {} <=> Requests = {})
    BY <2>2
  <2>6. CASE Head(ring) = "refill"
    BY <1>1, <2>1, <2>2, <2>3, <2>4, <2>6 DEF Pop, IsQueued
  <2>7. CASE Head(ring) # "refill"
    BY <1>1, <2>1, <2>2, <2>3, <2>5, <2>7 DEF Pop, Jobs
  <2> QED
    BY <2>6, <2>7
<1>2. CASE FillBegins \/ TakeReset \/ SeekFile \/ ReadFile
  BY <1>2, RingKept DEF FillBegins, TakeReset, SeekFile, ReadFile
<1>3. CASE CheckGeneration
  BY <1>3, RingKept DEF CheckGeneration
<1>4. CASE Publish
  BY <1>4, RingKept DEF Publish
<1>5. CASE Unclaim
  BY <1>5, RingKept DEF Unclaim
<1>6. CASE Release
  <2>1. queued' \in [Jobs -> Nat]
    BY <1>6 DEF Release, Lesser, Jobs
  <2>2. queued'["refill"] = IF job = "refill"
                            THEN queued["refill"] - Lesser(queued["refill"], taken)
                            ELSE queued["refill"]
    BY <1>6 DEF Release, Jobs
  <2>3. job = "refill" => queued["refill"] = 1 /\ taken = 1
    BY <1>6 DEF Release
  <2> QED
    BY <1>6, <2>1, <2>2, <2>3, RingKept DEF Release, Lesser, Jobs
<1>7. CASE Scan
  BY <1>7, RingKept DEF Scan
<1>8. CASE Destroy
  BY <1>8, RingKept DEF Destroy, IsQueued
<1> HIDE DEF RefillInv
<1> QED
  BY <1>1, <1>2, <1>3, <1>4, <1>5, <1>6, <1>7, <1>8 DEF Work

\* A step of the host or of the pool's owner.
LEMMA RestStep ==
  ASSUME RefillInv, RemoveInterface \/ OtherMarked \/ Shutdown \/ Startup
  PROVE  RefillInv'
<1> USE DEF RefillInv, RefillTypes, OnePush, ClaimGuards, CountsRefill, BufferFree, MarkedIsLeft,
            Claiming, Unclaimed, Running, Filling, Waiting, StreamUnchanged, work, owner, pool
<1>1. CASE RemoveInterface \/ OtherMarked \/ Startup
  BY <1>1, RingKept DEF RemoveInterface, OtherMarked, Startup
<1>2. CASE Shutdown
  <2>1. ring' = <<>> /\ ring' \in Seq(Jobs) /\ Requests' = {}
    BY <1>2 DEF Shutdown, Requests
  <2>2. /\ queued' \in [Jobs -> Nat]
        /\ queued'["refill"] = IF Requests # {} THEN 0 ELSE queued["refill"]
    BY <1>2 DEF Shutdown, Requests, Jobs
  <2> QED
    BY <1>2, <2>1, <2>2 DEF Shutdown
<1> HIDE DEF RefillInv
<1> QED
  BY <1>1, <1>2

(***************************************************************************)
(* The theorem                                                             *)
(***************************************************************************)

\* The invariant gives the property: at most one refill is ever in the ring.
LEMMA AloneByInv ==
  ASSUME RefillInv
  PROVE  FillAlone
<1>1. Requests # {} => Cardinality(Requests) = 1
  <2> SUFFICES ASSUME NEW i \in Requests PROVE Cardinality(Requests) = 1
    OBVIOUS
  <2>1. Requests = {i}
    BY DEF RefillInv, OnePush
  <2> QED
    BY <2>1, FS_Singleton
<1> QED
  BY <1>1 DEF RefillInv, BufferFree, MarkedIsLeft, FillAlone, Waiting, Running

\* Every behaviour keeps the invariant.
LEMMA RefillInvariant == Spec => []RefillInv
<1>1. Init => RefillInv
  <2> SUFFICES ASSUME Init PROVE RefillInv
    OBVIOUS
  <2>1. Requests = {}
    BY DEF Init, Requests
  <2>2. ring \in Seq(Jobs) /\ queued \in [Jobs -> Nat] /\ queued["refill"] = 0
    BY DEF Init, Jobs
  <2> QED
    BY <2>1, <2>2 DEF Init, RefillInv, RefillTypes, OnePush, ClaimGuards, CountsRefill, BufferFree,
       MarkedIsLeft, Claiming, Unclaimed, Running, Filling, Waiting, Jobs
<1>2. RefillInv /\ [Next]_vars => RefillInv'
  <2> SUFFICES ASSUME RefillInv, [Next]_vars PROVE RefillInv'
    OBVIOUS
  <2>1. CASE AudioStep
    BY <2>1, RequestStep, StoresStep, ReadStep, UpdateStep DEF AudioStep
  <2>2. CASE Work
    BY <2>2, WorkStep
  <2>3. CASE RemoveInterface \/ OtherMarked \/ Shutdown \/ Startup
    BY <2>3, RestStep
  <2>4. CASE UNCHANGED vars
    BY <2>4, RingKept DEF vars, buffers, reset, work, pool, owner, RefillInv, RefillTypes, OnePush,
       ClaimGuards, CountsRefill, BufferFree, MarkedIsLeft, Claiming, Unclaimed, Running, Filling,
       Waiting
  <2> QED
    BY <2>1, <2>2, <2>3, <2>4 DEF Next
<1> QED
  BY <1>1, <1>2, PTL DEF Spec

\* A fill of a streaming sound has its buffer to itself, whatever stops, seeks,
\* destructions and shutdowns of the pool it meets: the claim of requestRefill()
\* with its two checks, and the join of ~soundFile, are enough.
THEOREM AloneInBuffer == Spec => []FillAlone
<1>1. RefillInv => FillAlone
  BY AloneByInv
<1> QED
  BY <1>1, RefillInvariant, PTL

(***************************************************************************)
(* Arithmetic of positions in the file                                     *)
(***************************************************************************)

\* Division with remainder.
LEMMA DivMod ==
  ASSUME NEW F \in Nat \ {0}, NEW a \in Int
  PROVE  /\ a % F \in 0..F - 1
         /\ \E q \in Int : a = F * q + (a % F)
<1>1. a % F \in 0..F - 1
  OBVIOUS
<1>2. a = F * (a \div F) + (a % F)
  OBVIOUS
<1>3. a \div F \in Int
  OBVIOUS
<1> QED
  BY <1>1, <1>2, <1>3

\* A remainder is unique.
LEMMA UniqueMod ==
  ASSUME NEW F \in Nat \ {0}, NEW p \in Int, NEW q \in Int, NEW s \in 0..F - 1, NEW t \in 0..F - 1,
         F * p + s = F * q + t
  PROVE  s = t
<1>1. F * (p - q) = t - s /\ F * (q - p) = s - t
  OBVIOUS
<1>2. ASSUME NEW d \in Int, d >= 1 PROVE F * d >= F
  BY <1>2
<1>3. p - q >= 1 => F * (p - q) >= F
  BY <1>2
<1>4. q - p >= 1 => F * (q - p) >= F
  BY <1>2
<1> QED
  BY <1>1, <1>3, <1>4

\* Positions may be reduced before they are added to.
LEMMA ModAdd ==
  ASSUME NEW F \in Nat \ {0}, NEW a \in Int, NEW v \in Int
  PROVE  ((a % F) + v) % F = (a + v) % F
<1> DEFINE r == a % F
           x == r + v
           y == a + v
<1>1. r \in Int /\ x \in Int /\ y \in Int
  BY DivMod
<1>2. PICK q \in Int : a = F * q + r
  BY DivMod
<1>3. y = F * q + x
  BY <1>1, <1>2
<1> HIDE DEF r, x, y
<1>4. PICK p \in Int : x = F * p + (x % F)
  BY <1>1, DivMod
<1>5. PICK u \in Int : y = F * u + (y % F)
  BY <1>1, DivMod
<1>6. x % F \in 0..F - 1 /\ y % F \in 0..F - 1
  BY <1>1, DivMod
<1>7. F * u + (y % F) = F * (p + q) + (x % F) /\ p + q \in Int
  BY <1>1, <1>3, <1>4, <1>5, <1>6
<1>8. x % F = y % F
  BY <1>6, <1>7, UniqueMod
<1> QED
  BY <1>8 DEF r, x, y

\* What is reduced already stays as it is.
LEMMA ModSmall ==
  ASSUME NEW F \in Nat \ {0}, NEW a \in 0..F - 1
  PROVE  a % F = a
<1>0. a \in Int
  OBVIOUS
<1>1. PICK q \in Int : a = F * q + (a % F)
  BY <1>0, DivMod
<1>2. a % F \in 0..F - 1
  BY <1>0, DivMod
<1>3. F * 0 + a = F * q + (a % F)
  BY <1>1
<1> QED
  BY <1>2, <1>3, UniqueMod

\* How many frames a fill from a gives
Given(a, looping) == IF looping THEN Size ELSE Lesser(Size, Frames - a)

\* ends where the next fill begins.
LEMMA AfterFollows ==
  ASSUME NEW a \in 0..Frames, NEW looping \in BOOLEAN
  PROVE  /\ After(a, looping) \in 0..Frames /\ Given(a, looping) \in 0..Size
         /\ After(a, looping) % Frames = ((a % Frames) + Given(a, looping)) % Frames
<1> USE StreamAssumption
<1>1. Given(a, looping) \in 0..Size
  BY DEF Given, Lesser
<1>2. ((a % Frames) + Given(a, looping)) % Frames = (a + Given(a, looping)) % Frames
  <2>1. a \in Int /\ Given(a, looping) \in Int
    BY <1>1
  <2> QED
    BY <2>1, ModAdd
<1>3. CASE a + Size <= Frames \/ ~looping
  <2>1. After(a, looping) = a + Given(a, looping) /\ After(a, looping) \in 0..Frames
    BY <1>3 DEF After, Given, Lesser
  <2> QED
    BY <1>1, <1>2, <2>1
<1>4. CASE a + Size > Frames /\ looping
  <2> DEFINE x == a + Size - 1
  <2>1. /\ After(a, looping) = (x % Frames) + 1 /\ Given(a, looping) = Size
        /\ x \in Int /\ x + 1 = a + Size
    BY <1>4 DEF After, Given
  <2> HIDE DEF x
  <2>2. x % Frames \in 0..Frames - 1
    BY <2>1, DivMod
  <2>3. ((x % Frames) + 1) % Frames = (x + 1) % Frames
    <3>1. x \in Int /\ 1 \in Int /\ Frames \in Nat \ {0}
      BY <2>1
    <3> QED
      BY ONLY <3>1, ModAdd
  <2> QED
    BY <1>1, <1>2, <2>1, <2>2, <2>3
<1> QED
  BY <1>3, <1>4


(***************************************************************************)
(* Where the next frame comes from                                         *)
(***************************************************************************)

PlayTypes ==
  /\ base \in 0..Frames - 1 /\ frontValid \in 0..Size
  /\ seekTarget \in 0..Frames /\ at \in 0..Frames
  /\ backStart \in 0..Frames - 1 /\ backValid \in 0..Size
  /\ {streamLoop, filling, current, needsReset, backReady, backFresh, crossed} \subseteq BOOLEAN

\* The frame that is to follow the front buffer,
Due == (base + frontValid) % Frames
\* and whether it comes from the seek's target, the back buffer, or the file.
Target == seekTarget % Frames = Due
Follows == backStart = Due /\ at % Frames = (Due + backValid) % Frames
OnTime == at % Frames = Due

\* Between the store of a target and the raise of the generation
Emptying == audio \in {"arm", "raise"}
\* A fill has consumed the reset and has its check before it.
Begun == worker \in {"seek", "read", "check"}
Late == Begun /\ ~current
Ready == backReady /\ backFresh

\* A reset is armed, or will be by the fill that consumed it, until a fill that
\* knows of it has moved the file.
ResetInv ==
  /\ Emptying => Target /\ frontValid = 0
  /\ audio = "raise" => needsReset \/ Begun
  /\ ~Emptying /\ worker \in {"reset", "publish"} /\ ~current => needsReset
  /\ ~Emptying /\ (needsReset \/ Late) => Target

\* Only what is current waits to be taken, and then the reset is done.
ReadyInv ==
  /\ audio = "drop" => ~Ready
  /\ audio = "take" /\ backReady => backFresh
  /\ ~Emptying /\ needsReset => ~Ready /\ ~(current /\ (Begun \/ worker = "publish"))

\* And otherwise the frame that is due is where the fill is.
SourceInv ==
  ~Emptying /\ ~needsReset /\ ~Late =>
    /\ worker = "seek" => Target
    /\ worker \in {"check", "publish"} \/ Ready => Follows
    /\ worker \notin {"seek", "check", "publish"} /\ ~Ready => OnTime

\* All of which is so until a fill has crossed the audio thread, and again from
\* the next stop or seek on.
InPlace == frontValid > 0 => frontStart = base
PlayInv == PlayTypes /\ (~crossed => InPlace /\ ResetInv /\ ReadyInv /\ SourceInv)

\* The same frames, the same places.
LEMMA PlacesKept ==
  /\ UNCHANGED <<base, frontValid>> => Due' = Due
  /\ UNCHANGED <<base, frontValid, seekTarget>> => (Target' <=> Target)
  /\ UNCHANGED <<base, frontValid, backStart, backValid, at>> => (Follows' <=> Follows)
  /\ UNCHANGED <<base, frontValid, at>> => (OnTime' <=> OnTime)
BY DEF Due, Target, Follows, OnTime

\* A step that leaves alone all that a place depends on
LEMMA PlayKept ==
  ASSUME PlayInv,
         UNCHANGED <<base, frontStart, frontValid, seekTarget, at, backStart, backValid, backReady,
                     backFresh, needsReset, current, filling, crossed>>,
         streamLoop' \in BOOLEAN,
         \/ audio' = audio
         \/ audio \notin {"arm", "raise"} /\ audio' \notin {"arm", "raise", "drop", "take"},
         worker' = worker \/ (~Begun /\ worker' \notin {"reset", "seek", "read", "check", "publish"}
                              /\ worker # "publish")
  PROVE  PlayInv'
BY PlacesKept DEF PlayInv, PlayTypes, InPlace, ResetInv, ReadyInv, SourceInv, Emptying,
   Begun, Late, Ready

\* The stores of a reset and of a seek.
LEMMA EmptyPlays ==
  ASSUME PlayInv, NEW frame \in 0..Frames, NEW then, ~Emptying, Empty(frame, then)
  PROVE  PlayInv'
<1> USE StreamAssumption
<1>1. frame % Frames \in 0..Frames - 1
  BY DivMod
<1>2. base' = frame % Frames /\ frontValid' = 0 /\ seekTarget' = frame /\ audio' = "arm"
      /\ crossed' = FALSE
  BY DEF Empty
<1>3. Target'
  <2>1. base' + 0 = base'
    BY <1>1, <1>2
  <2>2. base' % Frames = base'
    BY <1>1, <1>2, ModSmall
  <2> QED
    BY <1>2, <2>1, <2>2 DEF Target, Due
<1>4. UNCHANGED <<streamLoop, backReady, backBuffer, needsReset, work>>
  BY DEF Empty
<1>5. PlayTypes'
  <2>1. PlayTypes /\ 0 \in 0..Size
    BY DEF PlayInv
  <2> QED
    BY <1>1, <1>2, <1>4, <2>1 DEF PlayTypes, backBuffer, work
<1> QED
  BY <1>2, <1>3, <1>5 DEF PlayInv, InPlace, ResetInv, ReadyInv, SourceInv, Emptying

\* Nothing of requestRefill moves a place.
LEMMA RequestPlays ==
  ASSUME PlayInv, RefillInv, RequestRefill
  PROVE  PlayInv'
<1> USE DEF Return, RequestUnchanged, work, buffers, reset, RefillInv, RefillTypes
<1>0. PlayInv => streamLoop \in BOOLEAN
  BY DEF PlayInv, PlayTypes
<1>1. CASE StoreLoop BY <1>0, <1>1, PlayKept DEF StoreLoop
<1>2. CASE LoadClaim BY <1>0, <1>2, PlayKept DEF LoadClaim
<1>3. CASE Heal BY <1>0, <1>3, PlayKept DEF Heal
<1>4. CASE Claim BY <1>0, <1>4, PlayKept DEF Claim
<1>5. CASE Recheck BY <1>0, <1>5, PlayKept DEF Recheck
<1>6. CASE Settled BY <1>0, <1>6, PlayKept DEF Settled
<1>7. CASE TestActive BY <1>0, <1>7, PlayKept DEF TestActive
<1>8. CASE Push BY <1>0, <1>8, PlayKept DEF Push
<1> QED
  BY <1>1, <1>2, <1>3, <1>4, <1>5, <1>6, <1>7, <1>8 DEF RequestRefill

\* A reset is armed before the generation is raised, and the raise makes late
\* every fill that consumed it.
LEMMA StoresPlay ==
  ASSUME PlayInv, RefillInv, Stores
  PROVE  PlayInv'
<1> USE DEF PlayInv, PlayTypes, InPlace, ResetInv, ReadyInv, SourceInv, Emptying, Begun,
            Late, Ready
<1>1. CASE Arm
  BY <1>1, PlacesKept DEF Arm, buffers, work
<1>2. CASE Raise
  BY <1>2, PlacesKept DEF Raise, reset
<1>3. CASE Drop
  <2>1. UNCHANGED <<frontStart, frontValid, base, needsReset, seekTarget, streamLoop, work,
                      crossed>>
        /\ audio = "drop" /\ audio' \in {"idle", "request"}
    BY <1>3 DEF Drop, reset
  <2>2. CASE ~backReady
    <3>1. UNCHANGED <<backReady, backStart, backValid, backFresh>>
      BY <1>3, <2>2 DEF Drop, backBuffer
    <3>2. PlayTypes' /\ crossed' = crossed /\ (InPlace' <=> InPlace)
      BY <2>1, <3>1 DEF work
    <3>3. /\ (OnTime' <=> OnTime) /\ (Target' <=> Target) /\ (Follows' <=> Follows)
          /\ (Late' <=> Late) /\ (Ready' <=> Ready)
      BY <2>1, <3>1, PlacesKept DEF work
    <3>4. ~crossed => ReadyInv' /\ ResetInv'
      BY <2>1, <3>1, <3>3 DEF work
    <3>5. ~crossed => SourceInv'
      BY <2>1, <3>1, <3>3 DEF work
    <3> HIDE DEF PlayTypes, InPlace, ResetInv, ReadyInv, SourceInv
    <3> QED
      BY <3>2, <3>4, <3>5
  <2>3. CASE backReady
    <3>1. backReady' = FALSE /\ backStart' = 0 /\ backValid' = 0 /\ backFresh' = FALSE
      BY <1>3, <2>3 DEF Drop, DropBack
    <3>2. worker \notin {"seek", "read", "check", "publish"}
      BY <2>3 DEF RefillInv, BufferFree, Filling
    <3>3. 0 \in 0..Frames - 1 /\ 0 \in 0..Size
      BY StreamAssumption
    <3>4. PlayTypes'
      BY <2>1, <3>1, <3>3 DEF work
    <3>5. /\ (OnTime' <=> OnTime) /\ (Target' <=> Target) /\ ~Late' /\ ~Ready' /\ ~Late
          /\ ~crossed => ~Ready
      BY <2>1, <3>1, <3>2, PlacesKept DEF work
    <3>6. ~crossed => ReadyInv' /\ ResetInv' /\ InPlace'
      BY <2>1, <3>1, <3>2, <3>5 DEF work
    <3>7. ~crossed => SourceInv'
      BY <2>1, <3>1, <3>2, <3>5 DEF work
    <3> HIDE DEF PlayTypes, InPlace, ResetInv, ReadyInv, SourceInv
    <3> QED
      BY <2>1, <3>4, <3>6, <3>7
  <2> QED
    BY <2>2, <2>3
<1> HIDE DEF PlayInv
<1> QED
  BY <1>1, <1>2, <1>3 DEF Stores


\* The block takes only what is current, and what it takes begins where the
\* front buffer ended.
LEMMA BlockPlays ==
  ASSUME PlayInv, RefillInv, Block
  PROVE  PlayInv'
<1> USE DEF BlockUnchanged, Request, reset, work
<1>0. PlayInv => streamLoop \in BOOLEAN
  BY DEF PlayInv, PlayTypes
<1>1. CASE Update
  BY <1>0, <1>1, PlayKept DEF Update, buffers
<1>2. CASE Play \/ Silent \/ FadedOut \/ BeginRead
  BY <1>0, <1>2, PlayKept DEF Play, Silent, FadedOut, BeginRead, buffers
<1>3. ASSUME NEW frame \in 0..Frames, NEW then, Empty(frame, then),
             audio \in {"dsp", "swap", "play"}
      PROVE  PlayInv'
  BY <1>3, EmptyPlays DEF Emptying
<1>4. 0 \in 0..Frames /\ Targets \subseteq 0..Frames
  BY StreamAssumption
<1>5. CASE StopPaused \/ SwapTerminal \/ FadeToStop
  BY <1>3, <1>4, <1>5 DEF StopPaused, SwapTerminal, FadeToStop
<1>6. ASSUME NEW frame \in Targets, Seek(frame) PROVE PlayInv'
  BY <1>3, <1>4, <1>6 DEF Seek
<1>7. CASE Underrun
  BY <1>0, <1>7, PlayKept DEF Underrun, buffers
<1>8. CASE PlayOn \/ FadeToPause
  BY <1>0, <1>8, PlayKept DEF PlayOn, FadeToPause, buffers
<1>9. CASE PlayOut
  BY <1>0, <1>9, PlayKept DEF PlayOut, backBuffer
<1>10. CASE DropStale
  <2>1. /\ UNCHANGED <<frontStart, frontValid, base, needsReset, seekTarget, streamLoop, worker,
                       filling, current, at, crossed>>
        /\ audio = "swap" /\ audio' = "take"
    BY <1>10 DEF DropStale
  <2>2. CASE backReady /\ ~backFresh
    <3>1. backReady' = FALSE /\ backStart' = 0 /\ backValid' = 0 /\ backFresh' = FALSE
      BY <1>10, <2>2 DEF DropStale, DropBack
    <3>2. worker \notin {"seek", "read", "check", "publish"}
      BY <2>2 DEF RefillInv, BufferFree, Filling
    <3>3. 0 \in 0..Frames - 1 /\ 0 \in 0..Size
      BY StreamAssumption
    <3>4. PlayTypes'
      BY <2>1, <3>1, <3>3 DEF PlayInv, PlayTypes
    <3>5. (OnTime' <=> OnTime) /\ (Target' <=> Target) /\ ~Late' /\ ~Ready' /\ ~Ready /\ ~Late
      BY <2>1, <2>2, <3>1, <3>2, PlacesKept DEF Late, Begun, Ready
    <3>6. ~crossed => ReadyInv' /\ ResetInv' /\ InPlace'
      BY <2>1, <3>1, <3>2, <3>5 DEF PlayInv, ReadyInv, ResetInv, InPlace, Emptying, Begun
    <3>7. ~crossed => SourceInv'
      BY <2>1, <3>1, <3>2, <3>5 DEF PlayInv, SourceInv, Emptying, Begun
    <3> QED
      BY <2>1, <3>4, <3>6, <3>7 DEF PlayInv
  <2>3. CASE ~(backReady /\ ~backFresh)
    <3>1. UNCHANGED <<backReady, backStart, backValid, backFresh>>
      BY <1>10, <2>3 DEF DropStale, backBuffer
    <3> QED
      BY <2>1, <2>3, <3>1, PlacesKept DEF PlayInv, PlayTypes, InPlace, ResetInv, ReadyInv,
         SourceInv, Emptying, Begun, Late, Ready
  <2> QED
    BY <2>2, <2>3
<1>11. CASE Swap
  <2>1. /\ frontStart' = backStart /\ frontValid' = backValid
        /\ base' = Due /\ backReady' = FALSE /\ backStart' = 0 /\ backValid' = 0
        /\ backFresh' = FALSE /\ audio = "take" /\ backReady /\ audio' = "request"
        /\ UNCHANGED <<needsReset, seekTarget, streamLoop, worker, filling, current, at, crossed>>
    BY <1>11 DEF Swap, DropBack, Due
  <2>2. /\ worker \notin {"seek", "read", "check", "publish", "reset"}
        /\ ~crossed => Ready /\ ~needsReset
    BY <2>1 DEF PlayInv, ReadyInv, RefillInv, BufferFree, Filling, Ready, Emptying
  <2>3. ~crossed => Follows
    BY <2>1, <2>2 DEF PlayInv, SourceInv, Emptying, Late, Begun
  <2>4. ~crossed => OnTime' /\ frontStart' = base'
    BY <2>1, <2>3 DEF OnTime, Follows, Due
  <2>5. PlayTypes'
    <3>1. 0 \in 0..Frames - 1 /\ 0 \in 0..Size
      BY StreamAssumption
    <3>2. base + frontValid \in Int
      BY DEF PlayInv, PlayTypes
    <3>3. Due \in 0..Frames - 1
      BY <3>2, StreamAssumption, DivMod DEF Due
    <3> QED
      BY <2>1, <3>1, <3>3 DEF PlayInv, PlayTypes
  <2> QED
    BY <2>1, <2>2, <2>4, <2>5 DEF PlayInv, InPlace, ResetInv, ReadyInv, SourceInv,
       Emptying, Begun, Late, Ready
<1> QED
  BY <1>1, <1>2, <1>5, <1>6, <1>7, <1>8, <1>9, <1>10, <1>11 DEF Block

\* The fill goes from what is due to what will be due, or knows that it is late.
LEMMA WorkPlays ==
  ASSUME PlayInv, RefillInv, Work
  PROVE  PlayInv'
<1> USE DEF WorkUnchanged, SoundUnchanged, backBuffer, reset
<1>0. PlayInv => streamLoop \in BOOLEAN
  BY DEF PlayInv, PlayTypes
<1>1. CASE Pop \/ Scan \/ Destroy
  BY <1>0, <1>1, PlayKept DEF Pop, Scan, Destroy, Begun
<1>2. CASE FillBegins
  <2>1. worker = "fill" /\ worker' = "reset" /\ current' = TRUE /\ filling' = streamLoop
        /\ UNCHANGED <<audio, frontStart, frontValid, base, backReady, backFresh, backStart,
                       backValid, needsReset, seekTarget, streamLoop, at, crossed>>
    BY <1>2 DEF FillBegins
  <2> QED
    BY <2>1, PlacesKept DEF PlayInv, PlayTypes, InPlace, ResetInv, ReadyInv, SourceInv,
       Emptying, Begun, Late, Ready
<1>3. CASE TakeReset
  <2>1. worker = "reset" /\ worker' = (IF needsReset THEN "seek" ELSE "read") /\ needsReset' = FALSE
        /\ UNCHANGED <<audio, frontStart, frontValid, base, backReady, backFresh, backStart,
                       backValid, seekTarget, streamLoop, at, current, filling, crossed>>
    BY <1>3 DEF TakeReset
  <2>2. ~backReady
    BY <2>1 DEF RefillInv, BufferFree, Filling
  <2> QED
    BY <2>1, <2>2, PlacesKept DEF PlayInv, PlayTypes, InPlace, ResetInv, ReadyInv,
       SourceInv, Emptying, Begun, Late, Ready
<1>4. CASE SeekFile
  <2>1. worker = "seek" /\ worker' = "read" /\ at' = seekTarget
        /\ UNCHANGED <<audio, frontStart, frontValid, base, backReady, backFresh, backStart,
                       backValid, needsReset, seekTarget, streamLoop, current, filling, crossed>>
    BY <1>4 DEF SeekFile
  <2>2. ~backReady
    BY <2>1 DEF RefillInv, BufferFree, Filling
  <2>3. Target => OnTime'
    BY <2>1 DEF Target, OnTime, Due
  <2> QED
    BY <2>1, <2>2, <2>3, PlacesKept DEF PlayInv, PlayTypes, InPlace, ResetInv, ReadyInv,
       SourceInv, Emptying, Begun, Late, Ready
<1>5. CASE ReadFile
  <2>1. worker = "read" /\ worker' = "check" /\ backStart' = at % Frames
        /\ backValid' = Given(at, filling) /\ at' = After(at, filling)
        /\ filling' = FALSE
        /\ UNCHANGED <<audio, frontStart, frontValid, base, backReady, backFresh, needsReset,
                       seekTarget, streamLoop, current, crossed>>
    BY <1>5 DEF ReadFile, Given
  <2>2. ~backReady
    BY <2>1 DEF RefillInv, BufferFree, Filling
  <2>3. at \in 0..Frames /\ filling \in BOOLEAN
    BY DEF PlayInv, PlayTypes
  <2>4. /\ at' \in 0..Frames /\ backValid' \in 0..Size
        /\ at' % Frames = (backStart' + backValid') % Frames
    BY <2>1, <2>3, AfterFollows
  <2>5. backStart' \in 0..Frames - 1
    <3>1. at \in Int /\ Frames \in Nat \ {0}
      BY <2>3, StreamAssumption
    <3> QED
      BY <2>1, <3>1, DivMod
  <2>6. OnTime => Follows'
    BY <2>1, <2>4 DEF OnTime, Follows, Due
  <2> QED
    BY <2>1, <2>2, <2>4, <2>5, <2>6, PlacesKept DEF PlayInv, PlayTypes, InPlace, ResetInv,
       ReadyInv, SourceInv, Emptying, Begun, Late, Ready
<1>6. CASE CheckGeneration
  <2>1. worker = "check" /\ worker' = "publish" /\ needsReset' = (needsReset \/ ~current)
        /\ crossed' = (crossed \/ (audio = "raise" /\ current /\ ~needsReset))
        /\ UNCHANGED <<audio, frontStart, frontValid, base, backReady, backFresh, backStart,
                       backValid, seekTarget, streamLoop, at, current, filling>>
    BY <1>6 DEF CheckGeneration
  <2>2. ~backReady
    BY <2>1 DEF RefillInv, BufferFree, Filling
  <2> QED
    BY <2>1, <2>2, PlacesKept DEF PlayInv, PlayTypes, InPlace, ResetInv, ReadyInv,
       SourceInv, Emptying, Begun, Late, Ready
<1>7. CASE Publish
  <2>1. worker = "publish" /\ worker' = "unclaim" /\ backFresh' = current /\ backReady' = TRUE
        /\ crossed' = (crossed \/ (audio = "take" /\ ~current) \/ (audio = "drop" /\ current))
        /\ current' = FALSE
        /\ UNCHANGED <<audio, frontStart, frontValid, base, backStart, backValid, needsReset,
                       seekTarget, streamLoop, at, filling>>
    BY <1>7 DEF Publish
  <2> QED
    BY <2>1, PlacesKept DEF PlayInv, PlayTypes, InPlace, ResetInv, ReadyInv,
       SourceInv, Emptying, Begun, Late, Ready
<1>8. CASE Unclaim
  BY <1>0, <1>8, PlayKept DEF Unclaim, Begun
<1>9. CASE Release
  BY <1>0, <1>9, PlayKept DEF Release, Begun
<1> QED
  BY <1>1, <1>2, <1>3, <1>4, <1>5, <1>6, <1>7, <1>8, <1>9 DEF Work


\* Every behaviour keeps it.
LEMMA PlayInvariant == Spec => []PlayInv
<1>1. Init => PlayInv
  <2> SUFFICES ASSUME Init PROVE PlayInv
    OBVIOUS
  <2>1. 0 \in 0..Frames /\ FALSE \in BOOLEAN
    BY StreamAssumption
  <2>2. /\ After(0, FALSE) \in 0..Frames /\ Given(0, FALSE) \in 0..Size
        /\ After(0, FALSE) % Frames = ((0 % Frames) + Given(0, FALSE)) % Frames
    BY <2>1, AfterFollows
  <2>3. 0 \in 0..Frames - 1 /\ 0 \in 0..Size
    BY StreamAssumption
  <2>4. 0 % Frames = 0
    BY <2>3, StreamAssumption, ModSmall
  <2>5. /\ base = 0 /\ frontStart = 0 /\ frontValid = Given(0, FALSE) /\ at = After(0, FALSE)
    BY StreamAssumption DEF Init, Given
  <2>6. OnTime
    BY <2>2, <2>4, <2>5 DEF OnTime, Due
  <2>7. PlayTypes
    BY <2>1, <2>2, <2>3, <2>5 DEF Init, PlayTypes
  <2> QED
    BY <2>5, <2>6, <2>7 DEF Init, PlayInv, InPlace, ResetInv, ReadyInv, SourceInv,
       Emptying, Begun, Late, Ready
<1>2. PlayInv /\ RefillInv /\ [Next]_vars => PlayInv'
  <2> SUFFICES ASSUME PlayInv, RefillInv, [Next]_vars PROVE PlayInv'
    OBVIOUS
  <2>0. streamLoop \in BOOLEAN
    BY DEF PlayInv, PlayTypes
  <2>1. CASE AudioStep
    BY <2>1, RequestPlays, StoresPlay, BlockPlays DEF AudioStep
  <2>2. CASE Work
    BY <2>2, WorkPlays
  <2>3. CASE RemoveInterface \/ OtherMarked \/ Shutdown \/ Startup
    BY <2>0, <2>3, PlayKept DEF RemoveInterface, OtherMarked, Shutdown, Startup, StreamUnchanged,
       buffers, reset, work
  <2>4. CASE UNCHANGED vars
    BY <2>0, <2>4, PlayKept DEF vars, buffers, reset, work
  <2> QED
    BY <2>1, <2>2, <2>3, <2>4 DEF Next
<1> QED
  BY <1>1, <1>2, RefillInvariant, PTL DEF Spec

(***************************************************************************)
(* What follows the front buffer                                           *)
(***************************************************************************)

Checking == worker \in {"check", "publish"}
\* The worker fills for the present generation, from the frame it was told.
Current == worker \in {"seek", "read", "check", "publish"} /\ current

\* A front buffer of the present generation has no reset before it, and a fill
\* or a full back buffer of it has none behind it.
NoneBehind ==
  /\ audio \in {"arm", "raise", "drop"} => ~frontFresh
  /\ frontFresh => worker # "seek"
  /\ ~Emptying /\ (frontFresh \/ Ready \/ Current) =>
       /\ ~needsReset
       /\ worker \in {"reset", "seek", "read", "check", "publish"} => current

\* The file is read on where the last fill ended; so each buffer begins where
\* the one before it ends.
ReadOn ==
  /\ backReady \/ Checking => at % Frames = (backStart + backValid) % Frames
  /\ frontFresh /\ ~Ready /\ ~Checking => at % Frames = (frontStart + frontValid) % Frames
  /\ frontFresh /\ (Ready \/ Checking) => backStart = (frontStart + frontValid) % Frames

GapInv == frontFresh \in BOOLEAN /\ NoneBehind /\ ReadOn

\* A step of the audio thread, of the host or of the pool's owner: it empties the
\* front buffer, drops the back one, or puts the back one in front.
LEMMA OthersFollow ==
  ASSUME GapInv, PlayTypes, RefillInv,
         AudioStep \/ RemoveInterface \/ OtherMarked \/ Shutdown \/ Startup \/ UNCHANGED vars
  PROVE  GapInv'
<1> USE DEF GapInv, NoneBehind, ReadOn, Checking, Current, Emptying, Ready
<1>1. CASE /\ UNCHANGED <<frontStart, frontFresh, frontValid, backReady, backBuffer, needsReset,
                           work>>
           /\ \/ audio' = audio
              \/ audio \notin {"arm", "raise"} /\ audio' \notin {"arm", "raise", "drop"}
  BY <1>1 DEF backBuffer, work
<1>2. ASSUME NEW frame, NEW then, Empty(frame, then) PROVE GapInv'
  BY <1>2 DEF Empty, backBuffer, work
<1>3. CASE RequestRefill
  BY <1>1, <1>3 DEF RequestRefill, StoreLoop, LoadClaim, Heal, Claim, Recheck, Settled, TestActive,
     Push, Return, RequestUnchanged, RefillInv, RefillTypes, buffers, backBuffer, reset
<1>4. CASE Arm
  BY <1>4 DEF Arm, buffers, work
<1>5. CASE Raise
  BY <1>5 DEF Raise, reset
<1>6. CASE Drop
  BY <1>6 DEF Drop, DropBack, reset, backBuffer, work, RefillInv, BufferFree, Filling
<1>7. CASE Update \/ Play \/ Silent \/ FadedOut \/ BeginRead \/ Underrun \/ PlayOn \/ PlayOut
           \/ FadeToPause
  BY <1>1, <1>7 DEF Update, Play, Silent, FadedOut, BeginRead, Underrun, PlayOn, PlayOut,
     FadeToPause, BlockUnchanged, Request, buffers, backBuffer, reset
<1>8. CASE StopPaused \/ SwapTerminal \/ FadeToStop \/ \E frame \in Targets : Seek(frame)
  BY <1>2, <1>8 DEF StopPaused, SwapTerminal, FadeToStop, Seek
<1>9. CASE DropStale
  BY <1>9 DEF DropStale, DropBack, BlockUnchanged, backBuffer, reset, work, RefillInv, BufferFree,
     Filling
<1>10. CASE Swap
  BY <1>10 DEF Swap, DropBack, BlockUnchanged, Request, reset, work, RefillInv, BufferFree, Filling,
     PlayTypes
<1>11. CASE RemoveInterface \/ OtherMarked \/ Shutdown \/ Startup \/ UNCHANGED vars
  BY <1>1, <1>11 DEF RemoveInterface, OtherMarked, Shutdown, Startup, StreamUnchanged, vars,
     buffers, backBuffer, reset
<1> HIDE DEF GapInv
<1> QED
  BY <1>3, <1>4, <1>5, <1>6, <1>7, <1>8, <1>9, <1>10, <1>11 DEF AudioStep, Stores, Block

\* A step of the worker: a fill that knows of no reset reads on.
LEMMA WorkFollows ==
  ASSUME GapInv, PlayTypes, RefillInv, Work
  PROVE  GapInv'
<1> USE DEF GapInv, NoneBehind, ReadOn, Checking, Current, Emptying, Ready, WorkUnchanged,
            SoundUnchanged, backBuffer, reset
<1>1. CASE Pop \/ Scan \/ Destroy \/ Unclaim \/ Release
  BY <1>1 DEF Pop, Scan, Destroy, Unclaim, Release
<1>2. CASE FillBegins
  BY <1>2 DEF FillBegins
<1>3. CASE TakeReset
  BY <1>3 DEF TakeReset, RefillInv, BufferFree, Filling
<1>4. CASE SeekFile
  BY <1>4 DEF SeekFile, RefillInv, BufferFree, Filling
<1>5. CASE ReadFile
  <2>1. /\ worker = "read" /\ worker' = "check" /\ backStart' = at % Frames
        /\ backValid' = Given(at, filling) /\ at' = After(at, filling)
        /\ UNCHANGED <<audio, frontStart, frontFresh, frontValid, backReady, backFresh, needsReset,
                       current>>
    BY <1>5 DEF ReadFile, Given
  <2>2. ~backReady
    BY <2>1 DEF RefillInv, BufferFree, Filling
  <2>3. at' % Frames = (backStart' + backValid') % Frames
    <3>1. at \in 0..Frames /\ filling \in BOOLEAN
      BY DEF PlayTypes
    <3> QED
      BY <2>1, <3>1, AfterFollows
  <2> QED
    BY <2>1, <2>2, <2>3
<1>6. CASE CheckGeneration
  BY <1>6 DEF CheckGeneration
<1>7. CASE Publish
  BY <1>7 DEF Publish, RefillInv, BufferFree, Filling
<1> HIDE DEF GapInv
<1> QED
  BY <1>1, <1>2, <1>3, <1>4, <1>5, <1>6, <1>7 DEF Work

\* What is played is what comes next: whatever stops, seeks, fills and shutdowns
\* cross, no frame is skipped or repeated between two buffers of a generation; and
\* the front buffer begins where the position says until a fill has crossed two
\* accesses of the audio thread.
THEOREM PlaysWhatIsDue == Spec => []PlaysWhereItSays
<1>1. Init => GapInv
  <2> SUFFICES ASSUME Init PROVE GapInv
    OBVIOUS
  <2>1. 0 \in 0..Frames /\ FALSE \in BOOLEAN /\ 0 \in 0..Frames - 1
    BY StreamAssumption
  <2>2. After(0, FALSE) % Frames = ((0 % Frames) + Given(0, FALSE)) % Frames
    BY <2>1, AfterFollows
  <2>3. 0 % Frames = 0
    BY <2>1, StreamAssumption, ModSmall
  <2>4. frontStart = 0 /\ frontValid = Given(0, FALSE) /\ at = After(0, FALSE)
    BY StreamAssumption DEF Init, Given
  <2> QED
    BY <2>2, <2>3, <2>4 DEF Init, GapInv, NoneBehind, ReadOn, Checking, Current, Emptying, Ready
<1>2. GapInv /\ PlayInv /\ RefillInv /\ [Next]_vars => GapInv'
  BY OthersFollow, WorkFollows DEF PlayInv, Next
<1>3. GapInv /\ PlayInv => PlaysWhereItSays
  BY DEF GapInv, ReadOn, Ready, PlayInv, InPlace, PlaysWhereItSays, Gapless
<1> QED
  BY <1>1, <1>2, <1>3, PlayInvariant, RefillInvariant, PTL DEF Spec

=============================================================================
