------------------------ MODULE SoundLifecycle_proofs ------------------------
(***************************************************************************)
(* For any sounds and implementations, whatever is created, refused, found *)
(* invalid and destroyed: nothing linked is marked or freed, setup is      *)
(* alone with what it sets up, and no destructor clears a pointer that is  *)
(* not its own.                                                            *)
(***************************************************************************)
EXTENDS SoundLifecycle, TLAPS

(***************************************************************************)
(* An implementation is with the control thread until it is pushed, then   *)
(* in the inbox, in toLoad and in inUse, and then with the audio thread    *)
(* until it is marked.  Its status is a plain word that three threads      *)
(* store into; the invariant says which values are possible in each place. *)
(***************************************************************************)

\* What the argument needs of the types.
Types ==
  /\ status \in [Impls -> Status] /\ head \in [Impls -> Sounds \cup {NoSound}]
  /\ file \in [Impls -> {"LOADING", "READY", "INVALID"}]
  /\ pimpl \in [Sounds -> Impls \cup {NoImpl}]
  /\ life \in [Sounds -> {"absent", "alive", "gone"}]
  /\ inbox \subseteq Impls /\ toLoad \subseteq Impls /\ inUse \subseteq Impls

\* The values a store of the worker, or a late store of another thread, may
\* leave before the implementation is promoted.
Unready == {"CREATED", "SETTING_UP", "SETUP", "DELETE_PENDING"}

\* The lists are apart, and tell what the status may be.
ListsApart ==
  /\ connected = inUse /\ inbox \cap toLoad = {}
  /\ \A i \in inbox \cup toLoad : status[i] \in Unready
  /\ \A i \in inUse : status[i] \in {"READY", "DONE"}

\* The audio thread visits what is in the list it walks, and holds what it has
\* unlinked until it has marked it.
Unlinking == audio.at \in {"mark", "release"}
AudioVisits ==
  /\ audio.at \in {"scrub", "mark", "ask", "promote", "ready", "resend"} =>
       audio.todo \subseteq toLoad
  /\ audio.at \in {"sync", "release", "askAgain"} => audio.todo \subseteq inUse
  /\ audio.at \in {"ready", "resend"} => audio.cur \in toLoad \ audio.todo
  /\ audio.at = "ready" => status[audio.cur] = "SETUP"
  /\ Unlinking => audio.cur \in Impls \ (inbox \cup toLoad \cup inUse)
  /\ audio.at = "mark" => status[audio.cur] = "DELETE_PENDING"
  /\ audio.at = "release" => status[audio.cur] = "RELEASE"

\* What the control thread has not published is in no list, whatever the worker
\* makes of it meanwhile.
Publishing == ctl.at \in {"create", "setup", "push"}
Refusing == ctl.at \in {"retire", "ask"}
Calling == ctl.at \in {"send", "destroy"}
HeldByControl ==
  /\ ctl.at # "idle" => ctl.s \in Sounds /\ ctl.i \in Impls
  /\ Publishing \/ ctl.at = "retire" =>
       /\ ctl.i \notin inbox \cup toLoad \cup inUse
       /\ Unlinking => audio.cur # ctl.i
  /\ ctl.at \in {"create", "retire"} => status[ctl.i] = "CONSTRUCTED"
  /\ ctl.at = "setup" => status[ctl.i] \in Unready \cup {"CONSTRUCTED"}
  /\ ctl.at = "push" => status[ctl.i] \in Unready

\* The worker has what it claimed for itself, and frees only what is marked.
Claimed(i) ==
  \/ worker.at \in {"claim", "setup", "verdict"} /\ i \in worker.claimed
  \/ worker.at = "verdict" /\ i = worker.cur
WorkerAlone ==
  /\ worker.claimed \subseteq Impls /\ worker.todo \subseteq Impls
  /\ worker.at \in {"claim", "setup"} => worker.cur = NoImpl
  /\ worker.at = "verdict" =>
       worker.cur \in Impls \ worker.claimed /\ worker.saw \in {"SETUP", "DELETE_PENDING"}
  /\ worker.at = "free" =>
       /\ worker.cur \in Impls /\ worker.saw \in Sounds \cup {NoSound}
       /\ status[worker.cur] = "DELETE"
  /\ \A i \in Impls : Claimed(i) => status[i] \in {"CREATED", "SETTING_UP"}

\* The control thread's calls are about an implementation and its interface.
PointersKept ==
  /\ \A i \in Impls : status[i] = "UNBORN" => head[i] = NoSound
  /\ \A s \in Sounds : pimpl[s] # NoImpl => head[pimpl[s]] = s \/ (Refusing /\ ctl.s = s)
  /\ ctl.at # "idle" => pimpl[ctl.s] \in {ctl.i, NoImpl}
  /\ Publishing \/ Calling => head[ctl.i] = ctl.s
  /\ Refusing => head[ctl.i] = NoSound

\* What is on its way out has lost its interface or its file, and a destructor
\* that read an interface is that of one whose file is invalid.
Doomed(i) == head[i] = NoSound \/ file[i] = "INVALID"
OutForAReason ==
  /\ \A i \in Impls : status[i] \in {"DELETE_PENDING", "RELEASE", "DELETE", "FREED"} => Doomed(i)
  /\ worker.at = "verdict" /\ worker.saw = "DELETE_PENDING" => Doomed(worker.cur)
  /\ worker.at = "free" /\ worker.saw # NoSound =>
       /\ file[worker.cur] = "INVALID"
       /\ head[worker.cur] = worker.saw \/ life[worker.saw] = "gone"

LifeInv ==
  /\ Types /\ ListsApart /\ AudioVisits /\ HeldByControl /\ WorkerAlone
  /\ PointersKept /\ PointersAgree /\ OutForAReason

----------------------------------------------------------------------------
\* Each part reads only some of the variables.
LEMMA Untouched ==
  /\ Types /\ UNCHANGED <<status, head, file, faceVars, inbox, toLoad, inUse>> => Types'
  /\ ListsApart /\ UNCHANGED <<status, listVars>> => ListsApart'
  /\ AudioVisits /\ UNCHANGED <<audio, status, listVars>> => AudioVisits'
  /\ HeldByControl /\ UNCHANGED <<ctl, audio, status, listVars>> => HeldByControl'
  /\ WorkerAlone /\ UNCHANGED <<worker, status>> => WorkerAlone'
  /\ PointersKept /\ UNCHANGED <<status, head, pimpl, ctl>> => PointersKept'
  /\ PointersAgree /\ UNCHANGED <<status, head, faceVars>> => PointersAgree'
  /\ OutForAReason /\ UNCHANGED <<status, head, file, worker, life>> => OutForAReason'
<1>1. Types /\ UNCHANGED <<status, head, file, faceVars, inbox, toLoad, inUse>> => Types'
  BY DEF Types, faceVars
<1>2. ListsApart /\ UNCHANGED <<status, listVars>> => ListsApart'
  BY DEF ListsApart, listVars
<1>3. AudioVisits /\ UNCHANGED <<audio, status, listVars>> => AudioVisits'
  BY DEF AudioVisits, Unlinking, listVars
<1>4. HeldByControl /\ UNCHANGED <<ctl, audio, status, listVars>> => HeldByControl'
  BY DEF HeldByControl, Publishing, Unlinking, listVars
<1>5. WorkerAlone /\ UNCHANGED <<worker, status>> => WorkerAlone'
  BY DEF WorkerAlone, Claimed
<1>6. PointersKept /\ UNCHANGED <<status, head, pimpl, ctl>> => PointersKept'
  BY DEF PointersKept, Publishing, Refusing, Calling
<1>7. PointersAgree /\ UNCHANGED <<status, head, faceVars>> => PointersAgree'
  BY DEF PointersAgree, Born, faceVars
<1>8. OutForAReason /\ UNCHANGED <<status, head, file, worker, life>> => OutForAReason'
  BY DEF OutForAReason, Doomed
<1> QED BY <1>1, <1>2, <1>3, <1>4, <1>5, <1>6, <1>7, <1>8

\* The control thread: what it has not published is in no list, and each of its
\* calls leaves the two pointers in step.
LEMMA ControlKeeps == ASSUME LifeInv, ControlNext PROVE LifeInv'
<1> USE DEF LifeInv, Types, implVars, faceVars, listVars, jobVars
<1>1. ASSUME NEW s \in Sounds, NEW i \in Impls, NEW k \in Kinds, Create(s, i, k)
      PROVE LifeInv'
  <2>1. Types' BY <1>1 DEF Create, Status
  <2>2. ListsApart' BY <1>1 DEF Create, ListsApart, Unready
  <2>3. AudioVisits' BY <1>1 DEF Create, AudioVisits, Unlinking
  <2>4. HeldByControl' BY <1>1 DEF Create, Control, HeldByControl, Unready,
        Unlinking, ListsApart, AudioVisits
  <2>5. WorkerAlone' BY <1>1 DEF Create, WorkerAlone, Claimed
  <2>6. PointersKept' BY <1>1, SoundAssumption DEF Create, Control, PointersKept,
        Refusing
  <2>7. PointersAgree' BY <1>1, SoundAssumption DEF Create, PointersAgree, Born
  <2>8. OutForAReason' BY <1>1 DEF Create, OutForAReason, Claimed, Doomed,
        WorkerAlone
  <2> QED BY <2>1, <2>2, <2>3, <2>4, <2>5, <2>6, <2>7, <2>8
<1>2. ASSUME FileFound PROVE LifeInv'
  <2>1. Types' BY <1>2 DEF FileFound, HeldByControl, Status
  <2>2. ListsApart' BY <1>2 DEF FileFound, ListsApart, Unready, HeldByControl
  <2>3. AudioVisits' BY <1>2 DEF FileFound, AudioVisits, Unlinking, HeldByControl
  <2>4. HeldByControl' BY <1>2 DEF FileFound, Control, HeldByControl, Unready,
        Unlinking, Publishing
  <2>5. WorkerAlone' BY <1>2 DEF FileFound, WorkerAlone, Claimed, HeldByControl
  <2>6. PointersKept' BY <1>2 DEF FileFound, Control, PointersKept, Publishing,
        Refusing
  <2>7. PointersAgree' BY <1>2 DEF FileFound, PointersAgree, Born, HeldByControl
  <2>8. OutForAReason' BY <1>2 DEF FileFound, OutForAReason, Doomed
  <2> QED BY <2>1, <2>2, <2>3, <2>4, <2>5, <2>6, <2>7, <2>8
<1>3. ASSUME SourceGiven PROVE LifeInv'
  <2>1. HeldByControl' BY <1>3 DEF SourceGiven, Control, HeldByControl, Unlinking,
        Publishing
  <2>2. PointersKept' BY <1>3 DEF SourceGiven, Control, PointersKept, Publishing,
        Refusing
  <2>3. /\ Types' /\ ListsApart' /\ AudioVisits' /\ WorkerAlone' /\ PointersAgree'
        /\ OutForAReason'
    BY <1>3, Untouched DEF SourceGiven
  <2> QED BY <2>1, <2>2, <2>3
<1>4. ASSUME SetupStores PROVE LifeInv'
  <2>1. Types' BY <1>4 DEF SetupStores, HeldByControl, Status
  <2>2. ListsApart' BY <1>4 DEF SetupStores, ListsApart, Unready, HeldByControl
  <2>3. AudioVisits' BY <1>4 DEF SetupStores, AudioVisits, Unlinking, Publishing,
        HeldByControl
  <2>4. HeldByControl' BY <1>4 DEF SetupStores, Control, HeldByControl, Unready,
        Unlinking, Publishing
  <2>5. WorkerAlone' BY <1>4 DEF SetupStores, WorkerAlone, Unready, Claimed,
        HeldByControl
  <2>6. PointersKept' BY <1>4 DEF SetupStores, Control, PointersKept, Publishing,
        Refusing
  <2>7. PointersAgree' BY <1>4 DEF SetupStores, PointersAgree, Unready, Born,
        HeldByControl
  <2>8. OutForAReason' BY <1>4 DEF SetupStores, OutForAReason, Doomed
  <2> QED BY <2>1, <2>2, <2>3, <2>4, <2>5, <2>6, <2>7, <2>8
<1>5. ASSUME SetupPushes PROVE LifeInv'
  <2>1. Types' BY <1>5 DEF SetupPushes, HeldByControl
  <2>2. ListsApart' BY <1>5 DEF SetupPushes, ListsApart, Publishing, HeldByControl
  <2>3. AudioVisits' BY <1>5 DEF SetupPushes, AudioVisits, Unlinking, Publishing,
        HeldByControl
  <2>4. HeldByControl' BY <1>5 DEF SetupPushes, Control, HeldByControl, Publishing
  <2>5. PointersKept' BY <1>5 DEF SetupPushes, Control, PointersKept, Publishing,
        Refusing, Calling
  <2>6. WorkerAlone' /\ PointersAgree' /\ OutForAReason'
    BY <1>5, Untouched DEF SetupPushes
  <2> QED BY <2>1, <2>2, <2>3, <2>4, <2>5, <2>6
<1>6. ASSUME RefusalDetaches PROVE LifeInv'
  <2>1. Types' BY <1>6 DEF RefusalDetaches, HeldByControl
  <2>2. HeldByControl' BY <1>6 DEF RefusalDetaches, Control, HeldByControl,
        Unlinking, Publishing
  <2>3. PointersKept' BY <1>6 DEF RefusalDetaches, Control, PointersKept,
        Publishing, Refusing, Calling, HeldByControl
  <2>4. PointersAgree' BY <1>6 DEF RefusalDetaches, PointersAgree, Born
  <2>5. OutForAReason' BY <1>6 DEF RefusalDetaches, OutForAReason, Doomed,
        HeldByControl, WorkerAlone
  <2>6. ListsApart' /\ AudioVisits' /\ WorkerAlone'
    BY <1>6, Untouched DEF RefusalDetaches
  <2> QED BY <2>1, <2>2, <2>3, <2>4, <2>5, <2>6
<1>7. ASSUME RefusalMarks PROVE LifeInv'
  <2>1. Types' BY <1>7 DEF RefusalMarks, HeldByControl, Status
  <2>2. ListsApart' BY <1>7 DEF RefusalMarks, ListsApart, HeldByControl
  <2>3. AudioVisits' BY <1>7 DEF RefusalMarks, AudioVisits, Unlinking, HeldByControl
  <2>4. HeldByControl' BY <1>7 DEF RefusalMarks, Control, HeldByControl, Unlinking
  <2>5. WorkerAlone' BY <1>7 DEF RefusalMarks, WorkerAlone, Claimed, HeldByControl
  <2>6. PointersKept' BY <1>7 DEF RefusalMarks, Control, PointersKept, Publishing,
        Refusing, Calling
  <2>7. PointersAgree' BY <1>7 DEF RefusalMarks, PointersAgree, Born, HeldByControl
  <2>8. OutForAReason' BY <1>7 DEF RefusalMarks, OutForAReason, Refusing, Doomed,
        PointersKept
  <2> QED BY <2>1, <2>2, <2>3, <2>4, <2>5, <2>6, <2>7, <2>8
<1>8. ASSUME RefusalAsks PROVE LifeInv'
  <2>1. Types' BY <1>8 DEF RefusalAsks, HeldByControl
  <2>2. HeldByControl' BY <1>8 DEF RefusalAsks, Control, HeldByControl, Publishing
  <2>3. PointersKept' BY <1>8 DEF RefusalAsks, Control, PointersKept, Publishing,
        Refusing, Calling
  <2>4. PointersAgree' BY <1>8 DEF RefusalAsks, PointersAgree, Refusing, Born,
        PointersKept
  <2>5. ListsApart' /\ AudioVisits' /\ WorkerAlone' /\ OutForAReason'
    BY <1>8, Untouched DEF RefusalAsks
  <2> QED BY <2>1, <2>2, <2>3, <2>4, <2>5
<1>9. ASSUME NEW s \in Sounds, NEW at \in {"send","destroy"}, ChecksPimpl(s, at)
      PROVE LifeInv'
  <2>1. HeldByControl' BY <1>9 DEF ChecksPimpl, Control, HeldByControl, Publishing
  <2>2. PointersKept' BY <1>9 DEF ChecksPimpl, Control, PointersKept, Refusing
  <2>3. /\ Types' /\ ListsApart' /\ AudioVisits' /\ WorkerAlone' /\ PointersAgree'
        /\ OutForAReason'
    BY <1>9, Untouched DEF ChecksPimpl
  <2> QED BY <2>1, <2>2, <2>3
<1>10. ASSUME Sends PROVE LifeInv'
  <2>1. HeldByControl' BY <1>10 DEF Sends, Control, HeldByControl, Publishing
  <2>2. PointersKept' BY <1>10 DEF Sends, Control, PointersKept, Publishing,
        Refusing, Calling
  <2>3. /\ Types' /\ ListsApart' /\ AudioVisits' /\ WorkerAlone' /\ PointersAgree'
        /\ OutForAReason'
    BY <1>10, Untouched DEF Sends
  <2> QED BY <2>1, <2>2, <2>3
<1>11. ASSUME RemovesInterface PROVE LifeInv'
  <2>1. Types' BY <1>11 DEF RemovesInterface, HeldByControl
  <2>2. HeldByControl' BY <1>11 DEF RemovesInterface, Control, HeldByControl,
        Publishing
  <2>3. PointersKept' BY <1>11 DEF RemovesInterface, Control, PointersKept,
        Publishing, Refusing, Calling
  <2>4. PointersAgree' BY <1>11, SoundAssumption DEF RemovesInterface,
        PointersAgree, Born, PointersKept
  <2>5. OutForAReason' BY <1>11 DEF RemovesInterface, OutForAReason, Calling,
        Doomed, PointersKept
  <2>6. ListsApart' /\ AudioVisits' /\ WorkerAlone'
    BY <1>11, Untouched DEF RemovesInterface
  <2> QED BY <2>1, <2>2, <2>3, <2>4, <2>5, <2>6
<1> QED BY <1>1, <1>2, <1>3, <1>4, <1>5, <1>6, <1>7, <1>8, <1>9, <1>10, <1>11
    DEF ControlNext, ControlReturns

\* The audio thread: it unlinks before it marks, and promotes what is in toLoad.
LEMMA AudioKeeps == ASSUME LifeInv, AudioNext PROVE LifeInv'
<1> USE DEF LifeInv, Types, implVars, faceVars, listVars, jobVars
<1>1. ASSUME TickBegins PROVE LifeInv'
  <2>1. Types' BY <1>1 DEF TickBegins
  <2>2. ListsApart' BY <1>1 DEF TickBegins, ListsApart
  <2>3. AudioVisits' BY <1>1 DEF TickBegins, Audio, AudioVisits, Unlinking
  <2>4. HeldByControl' BY <1>1 DEF TickBegins, Audio, HeldByControl, Publishing,
        Unlinking
  <2>5. WorkerAlone' /\ PointersKept' /\ PointersAgree' /\ OutForAReason'
    BY <1>1, Untouched DEF TickBegins
  <2> QED BY <2>1, <2>2, <2>3, <2>4, <2>5
<1>2. ASSUME NEW i \in Impls, Keeps(i) PROVE LifeInv'
  <2>1. Types' BY <1>2 DEF Keeps
  <2>2. ListsApart' BY <1>2 DEF Keeps, ListsApart
  <2>3. AudioVisits' BY <1>2 DEF Keeps, Audio, AudioVisits, Unlinking
  <2>4. HeldByControl' BY <1>2 DEF Keeps, Audio, HeldByControl, Publishing,
        Unlinking
  <2>5. WorkerAlone' /\ PointersKept' /\ PointersAgree' /\ OutForAReason'
    BY <1>2, Untouched DEF Keeps
  <2> QED BY <2>1, <2>2, <2>3, <2>4, <2>5
<1>3. ASSUME NEW i \in Impls, Unlinks(i) PROVE LifeInv'
  <2>1. Types' BY <1>3 DEF Unlinks
  <2>2. ListsApart' BY <1>3 DEF Unlinks, ListsApart
  <2>3. AudioVisits' BY <1>3 DEF Unlinks, Audio, AudioVisits, ListsApart
  <2>4. HeldByControl' BY <1>3 DEF Unlinks, Audio, HeldByControl, Publishing,
        AudioVisits, Unlinking
  <2>5. WorkerAlone' /\ PointersKept' /\ PointersAgree' /\ OutForAReason'
    BY <1>3, Untouched DEF Unlinks
  <2> QED BY <2>1, <2>2, <2>3, <2>4, <2>5
<1>4. ASSUME NEW loop \in {"scrub","sync"}, Marks(loop) PROVE LifeInv'
  <2>1. Types' BY <1>4 DEF Marks, Unlinking, AudioVisits, Status
  <2>2. ListsApart' BY <1>4 DEF Marks, ListsApart, Unlinking, AudioVisits
  <2>3. AudioVisits' BY <1>4 DEF Marks, Audio, AudioVisits, Unlinking
  <2>4. HeldByControl' BY <1>4 DEF Marks, Audio, HeldByControl, Unlinking,
        Publishing
  <2>5. WorkerAlone' BY <1>4 DEF Marks, WorkerAlone, Claimed, AudioVisits
  <2>6. PointersKept' BY <1>4 DEF Marks, PointersKept, Publishing, Refusing, Calling
  <2>7. PointersAgree' BY <1>4 DEF Marks, PointersAgree, Born, AudioVisits
  <2>8. OutForAReason' BY <1>4 DEF Marks, OutForAReason, Doomed, AudioVisits
  <2> QED BY <2>1, <2>2, <2>3, <2>4, <2>5, <2>6, <2>7, <2>8
<1>5. ASSUME NEW loop \in {"scrub","sync"}, Asks(loop) PROVE LifeInv'
  <2>1. AudioVisits' BY <1>5 DEF Asks, Audio, AudioVisits, Unlinking
  <2>2. HeldByControl' BY <1>5 DEF Asks, Audio, HeldByControl, Publishing, Unlinking
  <2>3. /\ Types' /\ ListsApart' /\ WorkerAlone' /\ PointersKept' /\ PointersAgree'
        /\ OutForAReason'
    BY <1>5, Untouched DEF Asks
  <2> QED BY <2>1, <2>2, <2>3
<1>6. ASSUME SchedulesSetup PROVE LifeInv'
  <2>1. AudioVisits' BY <1>6 DEF SchedulesSetup, Audio, AudioVisits, Unlinking
  <2>2. HeldByControl' BY <1>6 DEF SchedulesSetup, Audio, HeldByControl, Publishing,
        Unlinking
  <2>3. /\ Types' /\ ListsApart' /\ WorkerAlone' /\ PointersKept' /\ PointersAgree'
        /\ OutForAReason'
    BY <1>6, Untouched DEF SchedulesSetup
  <2> QED BY <2>1, <2>2, <2>3
<1>7. ASSUME TakesRequest PROVE LifeInv'
  <2>1. AudioVisits' BY <1>7 DEF TakesRequest, Audio, AudioVisits, Unlinking
  <2>2. HeldByControl' BY <1>7 DEF TakesRequest, Audio, HeldByControl, Publishing,
        Unlinking
  <2>3. /\ Types' /\ ListsApart' /\ WorkerAlone' /\ PointersKept' /\ PointersAgree'
        /\ OutForAReason'
    BY <1>7, Untouched DEF TakesRequest
  <2> QED BY <2>1, <2>2, <2>3
<1>8. ASSUME PassesRequest PROVE LifeInv'
  <2>1. AudioVisits' BY <1>8 DEF PassesRequest, Audio, AudioVisits, Unlinking
  <2>2. HeldByControl' BY <1>8 DEF PassesRequest, Audio, HeldByControl, Publishing,
        Unlinking
  <2>3. /\ Types' /\ ListsApart' /\ WorkerAlone' /\ PointersKept' /\ PointersAgree'
        /\ OutForAReason'
    BY <1>8, Untouched DEF PassesRequest
  <2> QED BY <2>1, <2>2, <2>3
<1>9. ASSUME NEW i \in Impls, ReadyChecks(i) PROVE LifeInv'
  <2>1. AudioVisits' BY <1>9 DEF ReadyChecks, Audio, AudioVisits, Unlinking
  <2>2. HeldByControl' BY <1>9 DEF ReadyChecks, Audio, HeldByControl, Unlinking,
        Publishing
  <2>3. /\ Types' /\ ListsApart' /\ WorkerAlone' /\ PointersKept' /\ PointersAgree'
        /\ OutForAReason'
    BY <1>9, Untouched DEF ReadyChecks
  <2> QED BY <2>1, <2>2, <2>3
<1>10. ASSUME Promotes PROVE LifeInv'
  <2>1. Types' BY <1>10 DEF Promotes, AudioVisits, Status
  <2>2. ListsApart' BY <1>10 DEF Promotes, ListsApart, AudioVisits
  <2>3. AudioVisits' BY <1>10 DEF Promotes, Audio, AudioVisits, Unlinking
  <2>4. HeldByControl' BY <1>10 DEF Promotes, Audio, HeldByControl, Publishing,
        AudioVisits, Unlinking
  <2>5. WorkerAlone' BY <1>10 DEF Promotes, WorkerAlone, Claimed, AudioVisits
  <2>6. PointersKept' BY <1>10 DEF Promotes, PointersKept, Publishing, Refusing,
        Calling
  <2>7. PointersAgree' BY <1>10 DEF Promotes, PointersAgree, Born, AudioVisits
  <2>8. OutForAReason' BY <1>10 DEF Promotes, OutForAReason, Doomed
  <2> QED BY <2>1, <2>2, <2>3, <2>4, <2>5, <2>6, <2>7, <2>8
<1>11. ASSUME SendsBack PROVE LifeInv'
  <2>1. Types' BY <1>11 DEF SendsBack, AudioVisits, Status
  <2>2. ListsApart' BY <1>11 DEF SendsBack, ListsApart, Unready, AudioVisits
  <2>3. AudioVisits' BY <1>11 DEF SendsBack, Audio, AudioVisits, Unlinking
  <2>4. HeldByControl' BY <1>11 DEF SendsBack, Audio, HeldByControl, Publishing,
        AudioVisits, Unlinking
  <2>5. WorkerAlone' BY <1>11 DEF SendsBack, WorkerAlone, Unready, Claimed,
        ListsApart, AudioVisits
  <2>6. PointersKept' BY <1>11 DEF SendsBack, PointersKept, Publishing, Refusing,
        Calling
  <2>7. PointersAgree' BY <1>11 DEF SendsBack, PointersAgree, Unready, Born,
        ListsApart, AudioVisits
  <2>8. OutForAReason' BY <1>11 DEF SendsBack, OutForAReason, Doomed
  <2> QED BY <2>1, <2>2, <2>3, <2>4, <2>5, <2>6, <2>7, <2>8
<1>12. ASSUME PromotesAll PROVE LifeInv'
  <2>1. AudioVisits' BY <1>12 DEF PromotesAll, Audio, AudioVisits, Unlinking
  <2>2. HeldByControl' BY <1>12 DEF PromotesAll, Audio, HeldByControl, Publishing,
        Unlinking
  <2>3. /\ Types' /\ ListsApart' /\ WorkerAlone' /\ PointersKept' /\ PointersAgree'
        /\ OutForAReason'
    BY <1>12, Untouched DEF PromotesAll
  <2> QED BY <2>1, <2>2, <2>3
<1>13. ASSUME NEW i \in Impls, Syncs(i) PROVE LifeInv'
  <2>1. AudioVisits' BY <1>13 DEF Syncs, Audio, AudioVisits, Unlinking
  <2>2. HeldByControl' BY <1>13 DEF Syncs, Audio, HeldByControl, Publishing,
        Unlinking
  <2>3. /\ Types' /\ ListsApart' /\ WorkerAlone' /\ PointersKept' /\ PointersAgree'
        /\ OutForAReason'
    BY <1>13, Untouched DEF Syncs
  <2> QED BY <2>1, <2>2, <2>3
<1>14. ASSUME NEW i \in Impls, Stops(i) PROVE LifeInv'
  <2>1. Types' BY <1>14 DEF Stops, Status
  <2>2. ListsApart' BY <1>14 DEF Stops, ListsApart, Unready, AudioVisits
  <2>3. AudioVisits' BY <1>14 DEF Stops, Audio, AudioVisits, Unlinking
  <2>4. HeldByControl' BY <1>14 DEF Stops, Audio, HeldByControl, Publishing,
        AudioVisits, Unlinking
  <2>5. WorkerAlone' BY <1>14 DEF Stops, WorkerAlone, Claimed, ListsApart,
        AudioVisits
  <2>6. PointersKept' BY <1>14 DEF Stops, PointersKept, Publishing, Refusing,
        Calling
  <2>7. PointersAgree' BY <1>14 DEF Stops, Orphaned, PointersAgree, Born
  <2>8. OutForAReason' BY <1>14 DEF Stops, OutForAReason, Doomed
  <2> QED BY <2>1, <2>2, <2>3, <2>4, <2>5, <2>6, <2>7, <2>8
<1>15. ASSUME NEW i \in Impls, Releases(i) PROVE LifeInv'
  <2>1. Types' BY <1>15 DEF Releases, Status
  <2>2. ListsApart' BY <1>15 DEF Releases, ListsApart, Unready, AudioVisits
  <2>3. AudioVisits' BY <1>15 DEF Releases, Audio, AudioVisits, Unready, ListsApart
  <2>4. HeldByControl' BY <1>15 DEF Releases, Audio, HeldByControl, Publishing,
        AudioVisits, Unlinking
  <2>5. WorkerAlone' BY <1>15 DEF Releases, WorkerAlone, Claimed, ListsApart,
        AudioVisits
  <2>6. PointersKept' BY <1>15 DEF Releases, PointersKept, Publishing, Refusing,
        Calling
  <2>7. PointersAgree' BY <1>15 DEF Releases, Orphaned, PointersAgree, Born
  <2>8. OutForAReason' BY <1>15 DEF Releases, Orphaned, OutForAReason, Doomed
  <2> QED BY <2>1, <2>2, <2>3, <2>4, <2>5, <2>6, <2>7, <2>8
<1>16. ASSUME NEW heard \in SUBSET Impls, Renders(heard) PROVE LifeInv'
  <2>1. AudioVisits' BY <1>16 DEF Renders, Audio, AudioVisits, Unlinking
  <2>2. HeldByControl' BY <1>16 DEF Renders, Audio, HeldByControl, Publishing,
        Unlinking
  <2>3. /\ Types' /\ ListsApart' /\ WorkerAlone' /\ PointersKept' /\ PointersAgree'
        /\ OutForAReason'
    BY <1>16, Untouched DEF Renders
  <2> QED BY <2>1, <2>2, <2>3
<1> QED BY <1>1, <1>2, <1>3, <1>4, <1>5, <1>6, <1>7, <1>8, <1>9, <1>10, <1>11,
    <1>12, <1>13, <1>14, <1>15, <1>16 DEF AudioNext, AudioSteps

\* The worker: what it claims is not ready, and what it frees is marked.
LEMMA WorkerKeeps == ASSUME LifeInv, WorkerNext PROVE LifeInv'
<1> USE DEF LifeInv, Types, implVars, faceVars, listVars, jobVars
<1>1. ASSUME TakesJob PROVE LifeInv'
  <2>1. WorkerAlone' BY <1>1 DEF TakesJob, Worker, Born, WorkerAlone, Claimed
  <2>2. OutForAReason' BY <1>1 DEF TakesJob, Worker, OutForAReason, Doomed
  <2>3. /\ Types' /\ ListsApart' /\ AudioVisits' /\ HeldByControl' /\ PointersKept'
        /\ PointersAgree'
    BY <1>1, Untouched DEF TakesJob
  <2> QED BY <2>1, <2>2, <2>3
<1>2. ASSUME NEW i \in Impls, Claims(i) PROVE LifeInv'
  <2>1. Types' BY <1>2 DEF Claims, Status
  <2>2. ListsApart' BY <1>2 DEF Claims, Claimable, ListsApart, Unready
  <2>3. AudioVisits' BY <1>2 DEF Claims, Claimable, AudioVisits, Unlinking
  <2>4. HeldByControl' BY <1>2 DEF Claims, Claimable, HeldByControl, Unready,
        Unlinking, Publishing
  <2>5. WorkerAlone' BY <1>2 DEF Claims, Worker, WorkerAlone, Claimed
  <2>6. PointersKept' BY <1>2 DEF Claims, PointersKept, Publishing, Refusing,
        Calling
  <2>7. PointersAgree' BY <1>2 DEF Claims, Claimable, PointersAgree, Born
  <2>8. OutForAReason' BY <1>2 DEF Claims, Worker, OutForAReason, Doomed
  <2> QED BY <2>1, <2>2, <2>3, <2>4, <2>5, <2>6, <2>7, <2>8
<1>3. ASSUME NEW i \in Impls, PassesBy(i) PROVE LifeInv'
  <2>1. WorkerAlone' BY <1>3 DEF PassesBy, Worker, WorkerAlone, Claimed
  <2>2. OutForAReason' BY <1>3 DEF PassesBy, Worker, OutForAReason, Doomed
  <2>3. /\ Types' /\ ListsApart' /\ AudioVisits' /\ HeldByControl' /\ PointersKept'
        /\ PointersAgree'
    BY <1>3, Untouched DEF PassesBy
  <2> QED BY <2>1, <2>2, <2>3
<1>4. ASSUME ClaimsAll PROVE LifeInv'
  <2>1. WorkerAlone' BY <1>4 DEF ClaimsAll, Worker, WorkerAlone, Claimed
  <2>2. OutForAReason' BY <1>4 DEF ClaimsAll, Worker, OutForAReason, Doomed
  <2>3. /\ Types' /\ ListsApart' /\ AudioVisits' /\ HeldByControl' /\ PointersKept'
        /\ PointersAgree'
    BY <1>4, Untouched DEF ClaimsAll
  <2> QED BY <2>1, <2>2, <2>3
<1>5. ASSUME NEW i \in Impls, SetsUp(i) PROVE LifeInv'
  <2>1. WorkerAlone' BY <1>5 DEF SetsUp, Worker, Verdict, WorkerAlone, Claimed
  <2>2. OutForAReason' BY <1>5 DEF SetsUp, Worker, Verdict, OutForAReason, Doomed
  <2>3. /\ Types' /\ ListsApart' /\ AudioVisits' /\ HeldByControl' /\ PointersKept'
        /\ PointersAgree'
    BY <1>5, Untouched DEF SetsUp
  <2> QED BY <2>1, <2>2, <2>3
<1>6. ASSUME StoresVerdict PROVE LifeInv'
  <2>1. Types' BY <1>6 DEF StoresVerdict, WorkerAlone, Status
  <2>2. ListsApart' BY <1>6 DEF StoresVerdict, ListsApart, Unready, Claimed,
        WorkerAlone
  <2>3. AudioVisits' BY <1>6 DEF StoresVerdict, AudioVisits, Unlinking, Claimed,
        WorkerAlone
  <2>4. HeldByControl' BY <1>6 DEF StoresVerdict, HeldByControl, Unready, Unlinking,
        Publishing, Claimed, WorkerAlone
  <2>5. WorkerAlone' BY <1>6 DEF StoresVerdict, Worker, WorkerAlone, Claimed
  <2>6. PointersKept' BY <1>6 DEF StoresVerdict, PointersKept, Publishing, Refusing,
        Calling, WorkerAlone
  <2>7. PointersAgree' BY <1>6 DEF StoresVerdict, PointersAgree, Claimed, Born,
        WorkerAlone
  <2>8. OutForAReason' BY <1>6 DEF StoresVerdict, Worker, OutForAReason, Doomed,
        WorkerAlone
  <2> QED BY <2>1, <2>2, <2>3, <2>4, <2>5, <2>6, <2>7, <2>8
<1>7. ASSUME NEW i \in Impls, ReadsHead(i) PROVE LifeInv'
  <2>1. WorkerAlone' BY <1>7 DEF ReadsHead, Worker, Deletable, WorkerAlone, Claimed
  <2>2. OutForAReason' BY <1>7 DEF ReadsHead, Worker, Deletable, OutForAReason,
        Doomed
  <2>3. /\ Types' /\ ListsApart' /\ AudioVisits' /\ HeldByControl' /\ PointersKept'
        /\ PointersAgree'
    BY <1>7, Untouched DEF ReadsHead
  <2> QED BY <2>1, <2>2, <2>3
<1>8. ASSUME NEW i \in Impls, SkipsLive(i) PROVE LifeInv'
  <2>1. WorkerAlone' BY <1>8 DEF SkipsLive, Worker, WorkerAlone, Claimed
  <2>2. OutForAReason' BY <1>8 DEF SkipsLive, Worker, OutForAReason, Doomed
  <2>3. /\ Types' /\ ListsApart' /\ AudioVisits' /\ HeldByControl' /\ PointersKept'
        /\ PointersAgree'
    BY <1>8, Untouched DEF SkipsLive
  <2> QED BY <2>1, <2>2, <2>3
<1>9. ASSUME Frees PROVE LifeInv'
  <2>1. Types' BY <1>9 DEF Frees, WorkerAlone, Status
  <2>2. ListsApart' BY <1>9 DEF Frees, ListsApart, Unready, WorkerAlone
  <2>3. AudioVisits' BY <1>9 DEF Frees, AudioVisits, Unlinking, WorkerAlone
  <2>4. HeldByControl' BY <1>9 DEF Frees, HeldByControl, Unready, Unlinking,
        Publishing, WorkerAlone
  <2>5. WorkerAlone' BY <1>9 DEF Frees, Worker, WorkerAlone, Claimed
  <2>6. PointersKept' BY <1>9 DEF Frees, PointersKept, Publishing, Refusing,
        Calling, HeldByControl
  <2>7. PointersAgree' BY <1>9 DEF Frees, PointersAgree, Born, WorkerAlone,
        OutForAReason
  <2>8. OutForAReason' BY <1>9 DEF Frees, Worker, OutForAReason, Doomed, WorkerAlone
  <2> QED BY <2>1, <2>2, <2>3, <2>4, <2>5, <2>6, <2>7, <2>8
<1>10. ASSUME NEW j \in Jobs, Finishes(j) PROVE LifeInv'
  <2>1. WorkerAlone' BY <1>10 DEF Finishes, Worker, WorkerAlone, Claimed
  <2>2. OutForAReason' BY <1>10 DEF Finishes, Worker, OutForAReason, Doomed
  <2>3. /\ Types' /\ ListsApart' /\ AudioVisits' /\ HeldByControl' /\ PointersKept'
        /\ PointersAgree'
    BY <1>10, Untouched DEF Finishes
  <2> QED BY <2>1, <2>2, <2>3
<1> QED BY <1>1, <1>2, <1>3, <1>4, <1>5, <1>6, <1>7, <1>8, <1>9, <1>10 DEF WorkerNext

\* A load that ends is about a file only.
LEMMA LoadsKeep == ASSUME LifeInv, Loads PROVE LifeInv'
<1> USE DEF LifeInv, implVars, faceVars, listVars, jobVars
<1> PICK i \in Impls, outcome \in FileOutcomes : LoadsFile(i, outcome) BY DEF Loads
<1>1. Types' BY SoundAssumption DEF LoadsFile, Types
<1>2. OutForAReason' BY DEF LoadsFile, OutForAReason, Doomed, Types
<1>3. /\ ListsApart' /\ AudioVisits' /\ HeldByControl' /\ WorkerAlone'
      /\ PointersKept' /\ PointersAgree'
  BY Untouched DEF LoadsFile
<1> QED BY <1>1, <1>2, <1>3

\* Nothing is there at first.
LEMMA InitEstablishesInv == Init => LifeInv
<1> SUFFICES ASSUME Init PROVE LifeInv OBVIOUS
<1> USE DEF Init
<1>1. Types BY DEF Types, Status
<1>2. ListsApart /\ AudioVisits BY DEF ListsApart, AudioVisits, Unlinking
<1>3. HeldByControl BY DEF HeldByControl, Publishing
<1>4. WorkerAlone BY DEF WorkerAlone, Claimed
<1>5. PointersKept BY DEF PointersKept, Publishing, Calling, Refusing
<1>6. PointersAgree /\ OutForAReason BY DEF PointersAgree, Born, OutForAReason
<1> QED BY <1>1, <1>2, <1>3, <1>4, <1>5, <1>6 DEF LifeInv

\* The invariant is inductive.
LEMMA StepKeepsInv == LifeInv /\ [Next]_vars => LifeInv'
<1>1. ASSUME LifeInv, UNCHANGED vars PROVE LifeInv'
  BY <1>1, Untouched DEF LifeInv, vars, implVars, faceVars, listVars
<1> QED BY <1>1, ControlKeeps, AudioKeeps, WorkerKeeps, LoadsKeep DEF Next

\* The invariant holds in every state of every behaviour.
THEOREM LifeInvHolds == Spec => []LifeInv
BY InitEstablishesInv, StepKeepsInv, PTL DEF Spec

\* An implementation the delete job may free, or has freed, is in no list the
\* audio thread walks: it was unlinked before it was marked, whoever marked it.
THEOREM UnlinkedBeforeDeleted == Spec => []DeleteMeansUnlinked
<1>1. LifeInv => DeleteMeansUnlinked
  BY DEF LifeInv, ListsApart, Unready, DeleteMeansUnlinked
<1> QED BY <1>1, LifeInvHolds, PTL

\* While the worker sets an implementation up, resizing what the callback
\* renders with, the audio thread neither renders it nor frees it.
THEOREM SetupIsAlone == Spec => []SetupAlone
<1>1. LifeInv => SetupAlone
  BY DEF LifeInv, Types, ListsApart, Unready, WorkerAlone, Claimed, SetupAlone
<1> QED BY <1>1, LifeInvHolds, PTL

\* An implementation that points at an interface is the one that interface points
\* at, so that its destructor clears nobody else's pointer.
THEOREM PointersAlwaysAgree == Spec => []PointersAgree
<1>1. LifeInv => PointersAgree BY DEF LifeInv
<1> QED BY <1>1, LifeInvHolds, PTL

\* As long as its file is not invalid, a call through pimpl reaches a live
\* implementation, and the destructor of an implementation writes into no
\* interface that is gone.
THEOREM CallsReachTheLiving == Spec => []SafeUnlessInvalid
<1>1. LifeInv => SafeUnlessInvalid
  BY SoundAssumption DEF LifeInv, Types, HeldByControl, PointersKept, Calling, OutForAReason,
     WorkerAlone, Doomed, SafeUnlessInvalid
<1> QED BY <1>1, LifeInvHolds, PTL

=============================================================================
