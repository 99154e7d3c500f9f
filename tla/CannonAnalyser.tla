--------------------------- MODULE CannonAnalyser ---------------------------
(***************************************************************************)
(* The analysis of cannon placements: CannonStartModule::onFrame on the    *)
(* frame loop's thread fills BasicAnalyser's maps (recalculate), starts an *)
(* analysis with std::async and takes the result over through an atomic    *)
(* pointer; the analysis runs on a thread of its own.                      *)
(*                                                                         *)
(* Every access to an atomic of BasicAnalyser is a step. The maps and the  *)
(* transient fields of the recursion are not atomic: recalculate writes    *)
(* them while loop = "recalculate", analyze uses them while a thread is at *)
(* "work". Assigning to lastCalculationFuture waits for the thread of the  *)
(* old future, which by then runs beside the new one.                      *)
(***************************************************************************)
EXTENDS Naturals, FiniteSets

CONSTANTS Run,  \* slots for analyses: a thread and the BaseAnalysis it makes
          None

ASSUME RunAssumption == IsFiniteSet(Run) /\ None \notin Run

VARIABLES
  loop,            \* where the frame loop is in onFrame
  strategy,        \* CannonStartModule::strategy, or "exit" when the bot is destroyed
  needRecalculation,
  currentAnalysis, \* the BaseAnalysis the module owns
  fresh,           \* analysisRevision # latestProcessedRevision
  thread,          \* where each thread is in analyze
  prev,            \* the pointer a thread got from its exchange
  future, waitingFor, \* lastCalculationFuture, and the thread of the old one
  latestAnalysis, analysing, cancelRequested,
  loaded,          \* the pointer cleanup has read
  deletes          \* how often each BaseAnalysis has been deleted

loopVars   == <<strategy, needRecalculation, currentAnalysis>>
futureVars == <<future, waitingFor>>
sharedVars == <<latestAnalysis, analysing, cancelRequested>>
vars == <<loop, loopVars, fresh, thread, prev, futureVars, sharedVars, loaded, deletes>>

(* Operators whose names end in _Mutant are variations of the definition   *)
(* that follows them; no behaviour of the specification uses them.         *)
Idle    == {"none", "rejected", "done"}
Running == {r \in Run : thread[r] \notin Idle}

\* `delete p` in C++ does nothing for a null pointer.
Delete(p) == deletes' = IF p = None THEN deletes ELSE [deletes EXCEPT ![p] = @ + 1]

Init ==
  /\ loop = "frame" /\ strategy = "cannons"
  /\ needRecalculation = FALSE /\ currentAnalysis = None /\ fresh = TRUE
  /\ thread = [r \in Run |-> "none"]
  /\ prev = [r \in Run |-> None]
  /\ future = None /\ waitingFor = None
  /\ latestAnalysis = None /\ analysing = FALSE /\ cancelRequested = FALSE
  /\ loaded = None
  /\ deletes = [r \in Run |-> 0]

-----------------------------------------------------------------------------
(* The frame loop. *)
LoopGoto(from, to) == loop = from /\ loop' = to

(* CannonStartModule::newUnitCallback, for a building. *)
NewBuilding ==
  /\ loop = "frame"
  /\ strategy # "exit"
  /\ needRecalculation' = TRUE
  /\ UNCHANGED <<loop, strategy, currentAnalysis, fresh, thread, prev, futureVars,
                 sharedVars, loaded, deletes>>

(* onFrame, with both scouts on their way, every 200 frames or after a new *)
(* building: recalculate looks at analysing first.                         *)
FrameCalculates ==
  /\ loop = "frame"
  /\ strategy = "cannons"
  /\ loop' = IF analysing THEN "wait" ELSE "recalculate"
  /\ UNCHANGED <<loopVars, fresh, thread, prev, futureVars, sharedVars, loaded, deletes>>

FrameSkips_Mutant == \* only the timer counts
  /\ LoopGoto("frame", "take")
  /\ strategy = "cannons"
  /\ UNCHANGED <<loopVars, fresh, thread, prev, futureVars, sharedVars, loaded, deletes>>

FrameSkips ==
  /\ LoopGoto("frame", "take")
  /\ strategy = "cannons" /\ ~needRecalculation
  /\ UNCHANGED <<loopVars, fresh, thread, prev, futureVars, sharedVars, loaded, deletes>>

(* The wait of 5 ms on the future is over: the thread has ended, or not. *)
WaitEnds ==
  /\ \/ (LoopGoto("wait", "take") /\ future \in Running)
     \/ (LoopGoto("wait", "recalculate") /\ future \notin Running)
  /\ UNCHANGED <<loopVars, fresh, thread, prev, futureVars, sharedVars, loaded, deletes>>

(* The maps are filled. *)
Recalculated ==
  /\ LoopGoto("recalculate", "launch")
  /\ needRecalculation' = FALSE
  /\ UNCHANGED <<strategy, currentAnalysis, fresh, thread, prev, futureVars, sharedVars,
                 loaded, deletes>>

(* analyzeAsync discards the request while an analysis is running. *)
Discard ==
  /\ LoopGoto("launch", "take")
  /\ analysing
  /\ UNCHANGED <<loopVars, fresh, thread, prev, futureVars, sharedVars, loaded, deletes>>

(* std::async starts the thread; then the old future is let go.            *)
(* A slot is used again when its thread and its analysis are gone.         *)
Vacant(r) == thread[r] = "none" \/ (thread[r] = "done" /\ deletes[r] = 1)

Launch(r) ==
  /\ LoopGoto("launch", "join")
  /\ ~analysing
  /\ Vacant(r)
  /\ thread' = [thread EXCEPT ![r] = "launched"]
  /\ deletes' = [deletes EXCEPT ![r] = 0]
  /\ future' = r
  /\ waitingFor' = future
  /\ UNCHANGED <<loopVars, fresh, prev, sharedVars, loaded>>

Joined_Mutant == \* a future that does not wait
  /\ LoopGoto("join", "take")
  /\ waitingFor' = None
  /\ UNCHANGED <<loopVars, fresh, thread, prev, future, sharedVars, loaded, deletes>>

Joined ==
  /\ LoopGoto("join", "take")
  /\ waitingFor \notin Running
  /\ waitingFor' = None
  /\ UNCHANGED <<loopVars, fresh, thread, prev, future, sharedVars, loaded, deletes>>

(* latestAnalysis.exchange(NULL), and currentAnalysis.reset. *)
Take_Mutant == \* load instead of exchange
  /\ LoopGoto("take", "read")
  /\ IF latestAnalysis = None
       THEN UNCHANGED <<currentAnalysis, deletes>>
       ELSE currentAnalysis' = latestAnalysis /\ Delete(currentAnalysis)
  /\ UNCHANGED <<strategy, needRecalculation, fresh, thread, prev, futureVars, sharedVars,
                 loaded>>

Take ==
  /\ LoopGoto("take", "read")
  /\ IF latestAnalysis = None
       THEN UNCHANGED <<currentAnalysis, deletes>>
       ELSE currentAnalysis' = latestAnalysis /\ Delete(currentAnalysis)
  /\ latestAnalysis' = None
  /\ UNCHANGED <<strategy, needRecalculation, fresh, thread, prev, futureVars, analysing,
                 cancelRequested, loaded>>

(* The placements are chosen anew when the revision has changed. *)
Read ==
  /\ LoopGoto("read", "frame")
  /\ fresh' = (fresh /\ currentAnalysis = None)
  /\ UNCHANGED <<loopVars, thread, prev, futureVars, sharedVars, loaded, deletes>>

(* updateStrategy: FirstPylonPlacementOrder has given the cannon rush up.  *)
LeaveStrategy ==
  /\ LoopGoto("frame", "cancel")
  /\ strategy = "cannons"
  /\ strategy' = "macro"
  /\ needRecalculation' = FALSE
  /\ currentAnalysis' = None /\ Delete(currentAnalysis)
  /\ cancelRequested' = TRUE
  /\ UNCHANGED <<fresh, thread, prev, futureVars, latestAnalysis, analysing, loaded>>

(* requestCancel cleans up unless an analysis is running. *)
CancelTested ==
  /\ loop = "cancel"
  /\ loop' = IF analysing THEN "frame" ELSE "cleanup"
  /\ UNCHANGED <<loopVars, fresh, thread, prev, futureVars, sharedVars, loaded, deletes>>

(* The bot is destroyed: the module's unique_ptr, then ~BasicAnalyser. *)
Shutdown ==
  /\ LoopGoto("frame", "cleanup")
  /\ strategy # "exit"
  /\ strategy' = "exit"
  /\ currentAnalysis' = None /\ Delete(currentAnalysis)
  /\ UNCHANGED <<needRecalculation, fresh, thread, prev, futureVars, sharedVars, loaded>>

(* cleanup reads the pointer, deletes what it points to and leaves it. *)
CleanupLoad ==
  /\ LoopGoto("cleanup", "delete")
  /\ loaded' = latestAnalysis
  /\ UNCHANGED <<loopVars, fresh, thread, prev, futureVars, sharedVars, deletes>>

CleanupDelete ==
  /\ LoopGoto("delete", "release")
  /\ Delete(loaded)
  /\ loaded' = None
  /\ UNCHANGED <<loopVars, fresh, thread, prev, futureVars, sharedVars>>

CleanupRelease ==
  /\ loop = "release"
  /\ future \notin Running
  /\ future' = None
  /\ loop' = IF strategy = "exit" THEN "off" ELSE "frame"
  /\ UNCHANGED <<loopVars, fresh, thread, prev, waitingFor, sharedVars, loaded, deletes>>

Off == loop = "off" /\ UNCHANGED vars

-----------------------------------------------------------------------------
(* BasicAnalyser::analyze on its own thread. *)
ThreadGoto(r, from, to) == thread[r] = from /\ thread' = [thread EXCEPT ![r] = to]

Begin(r) ==
  /\ ThreadGoto(r, "launched", "check")
  /\ analysing' = TRUE
  /\ UNCHANGED <<loop, loopVars, fresh, prev, futureVars, latestAnalysis, cancelRequested,
                 loaded, deletes>>

Check(r) ==
  /\ \/ cancelRequested /\ ThreadGoto(r, "check", "reject")
     \/ ~cancelRequested /\ ThreadGoto(r, "check", "work")
  /\ UNCHANGED <<loop, loopVars, fresh, prev, futureVars, sharedVars, loaded, deletes>>

Reject_Mutant(r) == \* the early return forgets the flag
  /\ ThreadGoto(r, "reject", "rejected")
  /\ UNCHANGED <<loop, loopVars, fresh, prev, futureVars, sharedVars, loaded, deletes>>

Reject(r) ==
  /\ ThreadGoto(r, "reject", "rejected")
  /\ analysing' = FALSE
  /\ UNCHANGED <<loop, loopVars, fresh, prev, futureVars, latestAnalysis, cancelRequested,
                 loaded, deletes>>

(* The recursion is over, or was cut short by cancelRequested. *)
Publish(r) ==
  /\ ThreadGoto(r, "work", "delete")
  /\ prev' = [prev EXCEPT ![r] = latestAnalysis]
  /\ latestAnalysis' = r
  /\ UNCHANGED <<loop, loopVars, fresh, futureVars, analysing, cancelRequested, loaded,
                 deletes>>

DeletePrevious(r) ==
  /\ ThreadGoto(r, "delete", "clear")
  /\ Delete(prev[r])
  /\ prev' = [prev EXCEPT ![r] = None]
  /\ UNCHANGED <<loop, loopVars, fresh, futureVars, sharedVars, loaded>>

Clear(r) ==
  /\ ThreadGoto(r, "clear", "count")
  /\ analysing' = FALSE
  /\ UNCHANGED <<loop, loopVars, fresh, prev, futureVars, latestAnalysis, cancelRequested,
                 loaded, deletes>>

(* ++analysisRevision *)
Count(r) ==
  /\ ThreadGoto(r, "count", "done")
  /\ fresh' = TRUE
  /\ UNCHANGED <<loop, loopVars, prev, futureVars, sharedVars, loaded, deletes>>

-----------------------------------------------------------------------------
LoopStep ==
  \/ FrameCalculates \/ FrameSkips \/ WaitEnds \/ Recalculated \/ Discard
  \/ \E r \in Run : Launch(r)
  \/ Joined \/ Take \/ Read
  \/ CancelTested \/ CleanupLoad \/ CleanupDelete \/ CleanupRelease

ThreadStep(r) ==
  \/ Begin(r) \/ Check(r) \/ Reject(r) \/ Publish(r) \/ DeletePrevious(r) \/ Clear(r)
  \/ Count(r)

Next ==
  \/ NewBuilding \/ LeaveStrategy \/ Shutdown \/ Off
  \/ LoopStep
  \/ \E r \in Run : ThreadStep(r)

Spec == Init /\ [][Next]_vars

(* The frame loop goes on and reaches the analysis (both scouts live), and *)
(* the recursion, which is finite, ends.                                   *)
FairSpec == Spec /\ WF_vars(LoopStep) /\ \A r \in Run : WF_vars(ThreadStep(r))

-----------------------------------------------------------------------------
(* Every variable has its type. *)
TypeOK ==
  /\ loop \in {"frame", "wait", "recalculate", "launch", "join", "take", "read", "cancel",
               "cleanup", "delete", "release", "off"}
  /\ strategy \in {"cannons", "macro", "exit"}
  /\ needRecalculation \in BOOLEAN /\ fresh \in BOOLEAN
  /\ thread \in [Run -> Idle \cup {"launched", "check", "reject", "work", "delete",
                                   "clear", "count"}]
  /\ prev \in [Run -> Run \cup {None}]
  /\ {currentAnalysis, future, waitingFor, latestAnalysis, loaded} \subseteq Run \cup {None}
  /\ analysing \in BOOLEAN /\ cancelRequested \in BOOLEAN
  /\ deletes \in [Run -> Nat]

(* As long as the cannon rush goes on, every analysis that was made has    *)
(* exactly one owner (the thread that makes it, the shared pointer, a      *)
(* thread that took it out again, the module), or was deleted once:        *)
(* nothing leaks, nothing is deleted twice or used after its deletion.     *)
Born(a) == thread[a] \in {"work", "delete", "clear", "count", "done"}

Holding(r, a) == \/ thread[r] = "work" /\ r = a
                 \/ thread[r] = "delete" /\ prev[r] = a

Owners(a) ==
  {<<"thread", r>> : r \in {q \in Run : Holding(q, a)}}
  \cup (IF latestAnalysis = a THEN {<<"pointer", a>>} ELSE {})
  \cup (IF currentAnalysis = a THEN {<<"module", a>>} ELSE {})

SingleOwner ==
  strategy = "cannons" =>
    \A a \in Run : Born(a) =>
      \/ deletes[a] = 0 /\ Cardinality(Owners(a)) = 1
      \/ deletes[a] = 1 /\ Owners(a) = {}

(* No more than two analyses run at a time, and while onFrame does         *)
(* anything but wait for the older one, it is the one in                   *)
(* lastCalculationFuture (so the maps are never waited for in vain).       *)
OneBehindTheFuture ==
  IF loop = "join" THEN Running \subseteq {future, waitingFor} ELSE Running \subseteq {future}

(* Once the cannon rush is given up and the last thread is over, the flag  *)
(* that makes requestCancel and recalculate wait is down.                  *)
FlagDownAtRest == Running = {} => ~analysing

(* A new building is taken into account: the maps are filled again in some *)
(* later frame, whatever the analysis is doing, unless the rush is over.   *)
RecalculationServed == needRecalculation ~> (~needRecalculation \/ strategy # "cannons")

(* What the log message in recalculate fears (BasicAnalyser.cpp, line 16)  *)
(* and the test of analysing is there to prevent: the maps are modified    *)
(* while an analysis reads them.                                           *)
NoConcurrentModification ==
  loop = "recalculate" => \A r \in Run : thread[r] # "work"
=============================================================================
