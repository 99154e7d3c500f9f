------------------------- MODULE CannonAnalyserProofs -------------------------
(* Theorems about CannonAnalyser, for any number of analyses. *)
EXTENDS CannonAnalyser, FiniteSetTheorems, TLAPS

(* The parts of the inductive invariant. *)
Published(a) == thread[a] \in {"delete", "clear", "count", "done"}

\* What somebody points to has been published and is not deleted.
PointersValid ==
  /\ latestAnalysis # None => Published(latestAnalysis) /\ deletes[latestAnalysis] = 0
  /\ currentAnalysis # None => Published(currentAnalysis) /\ deletes[currentAnalysis] = 0
  /\ \A r \in Run : thread[r] = "delete" /\ prev[r] # None =>
                      Published(prev[r]) /\ deletes[prev[r]] = 0

\* No two of the pointers are the same.
PointersApart ==
  /\ latestAnalysis = currentAnalysis => latestAnalysis = None
  /\ \A r \in Run : thread[r] = "delete" /\ prev[r] # None =>
                      prev[r] # latestAnalysis /\ prev[r] # currentAnalysis
  /\ \A r, q \in Run : thread[r] = "delete" /\ thread[q] = "delete" /\ prev[r] = prev[q] =>
                         r = q \/ prev[r] = None

\* What is published and not deleted is pointed to; what is not published is not deleted.
NothingLost ==
  /\ \A a \in Run : deletes[a] \in {0, 1}
  /\ \A a \in Run : thread[a] \in {"launched", "check", "work"} => deletes[a] = 0
  /\ \A a \in Run : Published(a) /\ deletes[a] = 0 =>
       \/ latestAnalysis = a \/ currentAnalysis = a
       \/ \E r \in Run : thread[r] = "delete" /\ prev[r] = a

Rush ==
  /\ loop \in {"frame", "wait", "recalculate", "launch", "join", "take", "read"}
  /\ PointersValid /\ PointersApart /\ NothingLost

\* Whoever has raised the flag will lower it.
FlagHeld == analysing => \E r \in Run : thread[r] \in {"check", "reject", "work", "delete",
                                                       "clear"}

IInv == TypeOK /\ (strategy = "cannons" => Rush) /\ OneBehindTheFuture /\ FlagHeld

LEMMA NewBuildingStep ==
  ASSUME IInv, NewBuilding
  PROVE  IInv'
<1> USE RunAssumption DEF IInv, NewBuilding, loopVars, futureVars, sharedVars
<1>1. TypeOK'
  BY DEF TypeOK, Idle
<1>2. strategy' = "cannons" => Rush'
  BY DEF Rush, PointersValid, PointersApart, NothingLost, Published
<1>3. OneBehindTheFuture' /\ FlagHeld'
  BY DEF OneBehindTheFuture, FlagHeld, Running, Idle
<1> QED BY <1>1, <1>2, <1>3

LEMMA FrameCalculatesStep ==
  ASSUME IInv, FrameCalculates
  PROVE  IInv'
<1> USE RunAssumption DEF IInv, FrameCalculates, loopVars, futureVars, sharedVars
<1>1. TypeOK'
  BY DEF TypeOK, Idle
<1>2. strategy' = "cannons" => Rush'
  BY DEF Rush, PointersValid, PointersApart, NothingLost, Published
<1>3. OneBehindTheFuture' /\ FlagHeld'
  BY DEF OneBehindTheFuture, FlagHeld, Running, Idle
<1> QED BY <1>1, <1>2, <1>3

LEMMA FrameSkipsStep ==
  ASSUME IInv, FrameSkips
  PROVE  IInv'
<1> USE RunAssumption DEF IInv, FrameSkips, LoopGoto, loopVars, futureVars, sharedVars
<1>1. TypeOK'
  BY DEF TypeOK, Idle
<1>2. strategy' = "cannons" => Rush'
  BY DEF Rush, PointersValid, PointersApart, NothingLost, Published
<1>3. OneBehindTheFuture' /\ FlagHeld'
  BY DEF OneBehindTheFuture, FlagHeld, Running, Idle
<1> QED BY <1>1, <1>2, <1>3

LEMMA WaitEndsStep ==
  ASSUME IInv, WaitEnds
  PROVE  IInv'
<1> USE RunAssumption DEF IInv, WaitEnds, LoopGoto, loopVars, futureVars, sharedVars
<1>1. TypeOK'
  BY DEF TypeOK, Idle
<1>2. strategy' = "cannons" => Rush'
  BY DEF Rush, PointersValid, PointersApart, NothingLost, Published
<1>3. OneBehindTheFuture' /\ FlagHeld'
  BY DEF OneBehindTheFuture, FlagHeld, Running, Idle
<1> QED BY <1>1, <1>2, <1>3

LEMMA RecalculatedStep ==
  ASSUME IInv, Recalculated
  PROVE  IInv'
<1> USE RunAssumption DEF IInv, Recalculated, LoopGoto, loopVars, futureVars, sharedVars
<1>1. TypeOK'
  BY DEF TypeOK, Idle
<1>2. strategy' = "cannons" => Rush'
  BY DEF Rush, PointersValid, PointersApart, NothingLost, Published
<1>3. OneBehindTheFuture' /\ FlagHeld'
  BY DEF OneBehindTheFuture, FlagHeld, Running, Idle
<1> QED BY <1>1, <1>2, <1>3

LEMMA DiscardStep ==
  ASSUME IInv, Discard
  PROVE  IInv'
<1> USE RunAssumption DEF IInv, Discard, LoopGoto, loopVars, futureVars, sharedVars
<1>1. TypeOK'
  BY DEF TypeOK, Idle
<1>2. strategy' = "cannons" => Rush'
  BY DEF Rush, PointersValid, PointersApart, NothingLost, Published
<1>3. OneBehindTheFuture' /\ FlagHeld'
  BY DEF OneBehindTheFuture, FlagHeld, Running, Idle
<1> QED BY <1>1, <1>2, <1>3

LEMMA LaunchStep ==
  ASSUME IInv, NEW r \in Run, Launch(r)
  PROVE  IInv'
<1> USE RunAssumption DEF IInv, Launch, LoopGoto, Vacant, loopVars, futureVars, sharedVars
<1>1. TypeOK'
  BY DEF TypeOK, Idle
<1>2. ASSUME strategy' = "cannons"
      PROVE  PointersValid'
  BY <1>2 DEF PointersValid, Published, Rush, PointersApart, TypeOK, NothingLost
<1>3. ASSUME strategy' = "cannons"
      PROVE  PointersApart'
  BY <1>3 DEF PointersApart, PointersValid, Published, Rush, TypeOK, NothingLost
<1>4. ASSUME strategy' = "cannons"
      PROVE  NothingLost'
  BY <1>4 DEF NothingLost, PointersApart, PointersValid, Published, Rush, TypeOK
<1>5. strategy' = "cannons" => loop' \in {"frame", "wait", "recalculate", "launch", "join",
                                          "take", "read"}
  BY DEF Rush
<1>6. OneBehindTheFuture' /\ FlagHeld'
  BY DEF OneBehindTheFuture, FlagHeld, Running, Idle, TypeOK
<1> QED BY <1>1, <1>2, <1>3, <1>4, <1>5, <1>6 DEF Rush

LEMMA JoinedStep ==
  ASSUME IInv, Joined
  PROVE  IInv'
<1> USE RunAssumption DEF IInv, Joined, LoopGoto, loopVars, futureVars, sharedVars
<1>1. TypeOK'
  BY DEF TypeOK, Idle
<1>2. strategy' = "cannons" => Rush'
  BY DEF Rush, PointersValid, PointersApart, NothingLost, Published
<1>3. OneBehindTheFuture' /\ FlagHeld'
  BY DEF OneBehindTheFuture, FlagHeld, Running, Idle
<1> QED BY <1>1, <1>2, <1>3

LEMMA TakeStep ==
  ASSUME IInv, Take
  PROVE  IInv'
<1> USE RunAssumption DEF IInv, Take, LoopGoto, Delete, loopVars, futureVars, sharedVars
<1>1. TypeOK'
  BY DEF TypeOK, Idle
<1>2. ASSUME strategy' = "cannons"
      PROVE  PointersValid'
  BY <1>2 DEF PointersValid, Published, Rush, PointersApart, TypeOK, NothingLost
<1>3. ASSUME strategy' = "cannons"
      PROVE  PointersApart'
  BY <1>3 DEF PointersApart, PointersValid, Published, Rush, TypeOK, NothingLost
<1>4. ASSUME strategy' = "cannons"
      PROVE  NothingLost'
  BY <1>4 DEF NothingLost, PointersApart, PointersValid, Published, Rush, TypeOK
<1>5. strategy' = "cannons" => loop' \in {"frame", "wait", "recalculate", "launch", "join",
                                          "take", "read"}
  BY DEF Rush
<1>6. OneBehindTheFuture' /\ FlagHeld'
  BY DEF OneBehindTheFuture, FlagHeld, Running, Idle, TypeOK
<1> QED BY <1>1, <1>2, <1>3, <1>4, <1>5, <1>6 DEF Rush

LEMMA ReadStep ==
  ASSUME IInv, Read
  PROVE  IInv'
<1> USE RunAssumption DEF IInv, Read, LoopGoto, loopVars, futureVars, sharedVars
<1>1. TypeOK'
  BY DEF TypeOK, Idle
<1>2. strategy' = "cannons" => Rush'
  BY DEF Rush, PointersValid, PointersApart, NothingLost, Published
<1>3. OneBehindTheFuture' /\ FlagHeld'
  BY DEF OneBehindTheFuture, FlagHeld, Running, Idle
<1> QED BY <1>1, <1>2, <1>3

LEMMA LeaveStrategyStep ==
  ASSUME IInv, LeaveStrategy
  PROVE  IInv'
<1> USE RunAssumption DEF IInv, LeaveStrategy, LoopGoto, Delete, loopVars, futureVars, sharedVars
<1>1. TypeOK'
  <2>1. deletes' \in [Run -> Nat]
    BY DEF TypeOK
  <2> QED BY <2>1 DEF TypeOK
<1>2. OneBehindTheFuture' /\ FlagHeld'
  BY DEF OneBehindTheFuture, FlagHeld, Running, Idle
<1> QED BY <1>1, <1>2 DEF Rush

LEMMA CancelTestedStep ==
  ASSUME IInv, CancelTested
  PROVE  IInv'
<1> USE RunAssumption DEF IInv, CancelTested, loopVars, futureVars, sharedVars
<1>1. TypeOK'
  BY DEF TypeOK, Idle
<1>2. strategy' = "cannons" => Rush'
  BY DEF Rush, PointersValid, PointersApart, NothingLost, Published
<1>3. OneBehindTheFuture' /\ FlagHeld'
  BY DEF OneBehindTheFuture, FlagHeld, Running, Idle
<1> QED BY <1>1, <1>2, <1>3

LEMMA ShutdownStep ==
  ASSUME IInv, Shutdown
  PROVE  IInv'
<1> USE RunAssumption DEF IInv, Shutdown, LoopGoto, Delete, loopVars, futureVars, sharedVars
<1>1. TypeOK'
  BY DEF TypeOK, Idle
<1>2. OneBehindTheFuture' /\ FlagHeld'
  BY DEF OneBehindTheFuture, FlagHeld, Running, Idle
<1> QED BY <1>1, <1>2 DEF Rush

LEMMA CleanupLoadStep ==
  ASSUME IInv, CleanupLoad
  PROVE  IInv'
<1> USE RunAssumption DEF IInv, CleanupLoad, LoopGoto, loopVars, futureVars, sharedVars
<1>1. TypeOK'
  BY DEF TypeOK, Idle
<1>2. strategy' = "cannons" => Rush'
  BY DEF Rush, PointersValid, PointersApart, NothingLost, Published
<1>3. OneBehindTheFuture' /\ FlagHeld'
  BY DEF OneBehindTheFuture, FlagHeld, Running, Idle
<1> QED BY <1>1, <1>2, <1>3

LEMMA CleanupDeleteStep ==
  ASSUME IInv, CleanupDelete
  PROVE  IInv'
<1> USE RunAssumption DEF IInv, CleanupDelete, LoopGoto, Delete, loopVars, futureVars, sharedVars
<1>1. TypeOK'
  BY DEF TypeOK, Idle
<1>2. OneBehindTheFuture' /\ FlagHeld'
  BY DEF OneBehindTheFuture, FlagHeld, Running, Idle
<1> QED BY <1>1, <1>2 DEF Rush

LEMMA CleanupReleaseStep ==
  ASSUME IInv, CleanupRelease
  PROVE  IInv'
<1> USE RunAssumption DEF IInv, CleanupRelease, loopVars, futureVars, sharedVars
<1>1. TypeOK'
  BY DEF TypeOK, Idle
<1>2. strategy' = "cannons" => Rush'
  BY DEF Rush, PointersValid, PointersApart, NothingLost, Published
<1>3. OneBehindTheFuture' /\ FlagHeld'
  BY DEF OneBehindTheFuture, FlagHeld, Running, Idle
<1> QED BY <1>1, <1>2, <1>3

LEMMA BeginStep ==
  ASSUME IInv, NEW r \in Run, Begin(r)
  PROVE  IInv'
<1> USE RunAssumption DEF IInv, Begin, ThreadGoto, loopVars, futureVars, sharedVars
<1>1. TypeOK'
  BY DEF TypeOK, Idle
<1>2. ASSUME strategy' = "cannons"
      PROVE  PointersValid'
  BY <1>2 DEF PointersValid, Published, Rush, PointersApart, TypeOK, NothingLost
<1>3. ASSUME strategy' = "cannons"
      PROVE  PointersApart'
  BY <1>3 DEF PointersApart, PointersValid, Published, Rush, TypeOK, NothingLost
<1>4. ASSUME strategy' = "cannons"
      PROVE  NothingLost'
  BY <1>4 DEF NothingLost, PointersApart, PointersValid, Published, Rush, TypeOK
<1>5. strategy' = "cannons" => loop' \in {"frame", "wait", "recalculate", "launch", "join",
                                          "take", "read"}
  BY DEF Rush
<1>6. OneBehindTheFuture' /\ FlagHeld'
  BY DEF OneBehindTheFuture, FlagHeld, Running, Idle, TypeOK
<1> QED BY <1>1, <1>2, <1>3, <1>4, <1>5, <1>6 DEF Rush

LEMMA CheckStep ==
  ASSUME IInv, NEW r \in Run, Check(r)
  PROVE  IInv'
<1> USE RunAssumption DEF IInv, Check, ThreadGoto, loopVars, futureVars, sharedVars
<1>1. TypeOK'
  BY DEF TypeOK, Idle
<1>2. ASSUME strategy' = "cannons"
      PROVE  PointersValid'
  BY <1>2 DEF PointersValid, Published, Rush, PointersApart, TypeOK, NothingLost
<1>3. ASSUME strategy' = "cannons"
      PROVE  PointersApart'
  BY <1>3 DEF PointersApart, PointersValid, Published, Rush, TypeOK, NothingLost
<1>4. ASSUME strategy' = "cannons"
      PROVE  NothingLost'
  BY <1>4 DEF NothingLost, PointersApart, PointersValid, Published, Rush, TypeOK
<1>5. strategy' = "cannons" => loop' \in {"frame", "wait", "recalculate", "launch", "join",
                                          "take", "read"}
  BY DEF Rush
<1>6. OneBehindTheFuture' /\ FlagHeld'
  BY DEF OneBehindTheFuture, FlagHeld, Running, Idle, TypeOK
<1> QED BY <1>1, <1>2, <1>3, <1>4, <1>5, <1>6 DEF Rush

LEMMA RejectStep ==
  ASSUME IInv, NEW r \in Run, Reject(r)
  PROVE  IInv'
<1> USE RunAssumption DEF IInv, Reject, ThreadGoto, loopVars, futureVars, sharedVars
<1>1. TypeOK'
  BY DEF TypeOK, Idle
<1>2. ASSUME strategy' = "cannons"
      PROVE  PointersValid'
  BY <1>2 DEF PointersValid, Published, Rush, PointersApart, TypeOK, NothingLost
<1>3. ASSUME strategy' = "cannons"
      PROVE  PointersApart'
  BY <1>3 DEF PointersApart, PointersValid, Published, Rush, TypeOK, NothingLost
<1>4. ASSUME strategy' = "cannons"
      PROVE  NothingLost'
  BY <1>4 DEF NothingLost, PointersApart, PointersValid, Published, Rush, TypeOK
<1>5. strategy' = "cannons" => loop' \in {"frame", "wait", "recalculate", "launch", "join",
                                          "take", "read"}
  BY DEF Rush
<1>6. OneBehindTheFuture' /\ FlagHeld'
  BY DEF OneBehindTheFuture, FlagHeld, Running, Idle, TypeOK
<1> QED BY <1>1, <1>2, <1>3, <1>4, <1>5, <1>6 DEF Rush

LEMMA PublishStep ==
  ASSUME IInv, NEW r \in Run, Publish(r)
  PROVE  IInv'
<1> USE RunAssumption DEF IInv, Publish, ThreadGoto, loopVars, futureVars, sharedVars
<1>1. TypeOK'
  BY DEF TypeOK, Idle
<1>2. ASSUME strategy' = "cannons"
      PROVE  PointersValid'
  BY <1>2 DEF PointersValid, Published, Rush, PointersApart, TypeOK, NothingLost
<1>3. ASSUME strategy' = "cannons"
      PROVE  PointersApart'
  BY <1>3 DEF PointersApart, PointersValid, Published, Rush, TypeOK, NothingLost
<1>4. ASSUME strategy' = "cannons"
      PROVE  NothingLost'
  BY <1>4 DEF NothingLost, PointersApart, PointersValid, Published, Rush, TypeOK
<1>5. strategy' = "cannons" => loop' \in {"frame", "wait", "recalculate", "launch", "join",
                                          "take", "read"}
  BY DEF Rush
<1>6. OneBehindTheFuture' /\ FlagHeld'
  BY DEF OneBehindTheFuture, FlagHeld, Running, Idle, TypeOK
<1> QED BY <1>1, <1>2, <1>3, <1>4, <1>5, <1>6 DEF Rush

LEMMA DeletePreviousStep ==
  ASSUME IInv, NEW r \in Run, DeletePrevious(r)
  PROVE  IInv'
<1> USE RunAssumption DEF IInv, DeletePrevious, ThreadGoto, Delete, loopVars, futureVars, sharedVars
<1>1. TypeOK'
  BY DEF TypeOK, Idle
<1>2. ASSUME strategy' = "cannons"
      PROVE  PointersValid'
  BY <1>2 DEF PointersValid, Published, Rush, PointersApart, TypeOK, NothingLost
<1>3. ASSUME strategy' = "cannons"
      PROVE  PointersApart'
  BY <1>3 DEF PointersApart, PointersValid, Published, Rush, TypeOK, NothingLost
<1>4. ASSUME strategy' = "cannons"
      PROVE  NothingLost'
  BY <1>4 DEF NothingLost, PointersApart, PointersValid, Published, Rush, TypeOK
<1>5. strategy' = "cannons" => loop' \in {"frame", "wait", "recalculate", "launch", "join",
                                          "take", "read"}
  BY DEF Rush
<1>6. OneBehindTheFuture' /\ FlagHeld'
  BY DEF OneBehindTheFuture, FlagHeld, Running, Idle, TypeOK
<1> QED BY <1>1, <1>2, <1>3, <1>4, <1>5, <1>6 DEF Rush

LEMMA ClearStep ==
  ASSUME IInv, NEW r \in Run, Clear(r)
  PROVE  IInv'
<1> USE RunAssumption DEF IInv, Clear, ThreadGoto, loopVars, futureVars, sharedVars
<1>1. TypeOK'
  BY DEF TypeOK, Idle
<1>2. ASSUME strategy' = "cannons"
      PROVE  PointersValid'
  BY <1>2 DEF PointersValid, Published, Rush, PointersApart, TypeOK, NothingLost
<1>3. ASSUME strategy' = "cannons"
      PROVE  PointersApart'
  BY <1>3 DEF PointersApart, PointersValid, Published, Rush, TypeOK, NothingLost
<1>4. ASSUME strategy' = "cannons"
      PROVE  NothingLost'
  BY <1>4 DEF NothingLost, PointersApart, PointersValid, Published, Rush, TypeOK
<1>5. strategy' = "cannons" => loop' \in {"frame", "wait", "recalculate", "launch", "join",
                                          "take", "read"}
  BY DEF Rush
<1>6. OneBehindTheFuture' /\ FlagHeld'
  BY DEF OneBehindTheFuture, FlagHeld, Running, Idle, TypeOK
<1> QED BY <1>1, <1>2, <1>3, <1>4, <1>5, <1>6 DEF Rush

LEMMA CountStep ==
  ASSUME IInv, NEW r \in Run, Count(r)
  PROVE  IInv'
<1> USE RunAssumption DEF IInv, Count, ThreadGoto, loopVars, futureVars, sharedVars
<1>1. TypeOK'
  BY DEF TypeOK, Idle
<1>2. ASSUME strategy' = "cannons"
      PROVE  PointersValid'
  BY <1>2 DEF PointersValid, Published, Rush, PointersApart, TypeOK, NothingLost
<1>3. ASSUME strategy' = "cannons"
      PROVE  PointersApart'
  BY <1>3 DEF PointersApart, PointersValid, Published, Rush, TypeOK, NothingLost
<1>4. ASSUME strategy' = "cannons"
      PROVE  NothingLost'
  BY <1>4 DEF NothingLost, PointersApart, PointersValid, Published, Rush, TypeOK
<1>5. strategy' = "cannons" => loop' \in {"frame", "wait", "recalculate", "launch", "join",
                                          "take", "read"}
  BY DEF Rush
<1>6. OneBehindTheFuture' /\ FlagHeld'
  BY DEF OneBehindTheFuture, FlagHeld, Running, Idle, TypeOK
<1> QED BY <1>1, <1>2, <1>3, <1>4, <1>5, <1>6 DEF Rush
-----------------------------------------------------------------------------
LEMMA InitInvariant == Init => IInv
<1> SUFFICES ASSUME Init
             PROVE  IInv
  OBVIOUS
<1> USE RunAssumption DEF Init
<1>1. TypeOK
  BY DEF TypeOK, Idle
<1>2. Rush
  BY DEF Rush, PointersValid, PointersApart, NothingLost, Published
<1>3. OneBehindTheFuture /\ FlagHeld
  BY DEF OneBehindTheFuture, Running, Idle, FlagHeld
<1> QED BY <1>1, <1>2, <1>3 DEF IInv

LEMMA NextInvariant == IInv /\ [Next]_vars => IInv'
<1> SUFFICES ASSUME IInv, [Next]_vars
             PROVE  IInv'
  OBVIOUS
<1>1. CASE UNCHANGED vars
  BY <1>1 DEF vars, loopVars, futureVars, sharedVars, IInv, TypeOK, Rush, PointersValid,
              PointersApart, NothingLost, Published, OneBehindTheFuture, Running, FlagHeld
<1>2. CASE NewBuilding \/ LeaveStrategy \/ Shutdown
  BY <1>2, NewBuildingStep, LeaveStrategyStep, ShutdownStep
<1>3. CASE LoopStep
  BY <1>3, FrameCalculatesStep, FrameSkipsStep, WaitEndsStep, RecalculatedStep,
     DiscardStep, LaunchStep, JoinedStep, TakeStep, ReadStep, CancelTestedStep,
     CleanupLoadStep, CleanupDeleteStep, CleanupReleaseStep
     DEF LoopStep
<1>4. CASE \E r \in Run : ThreadStep(r)
  BY <1>4, BeginStep, CheckStep, RejectStep, PublishStep, DeletePreviousStep, ClearStep,
     CountStep
     DEF ThreadStep
<1> QED BY <1>1, <1>2, <1>3, <1>4 DEF Next, Off

THEOREM Invariance == Spec => []IInv
<1> QED BY InitInvariant, NextInvariant, PTL DEF Spec

(* Every variable keeps its type. *)
THEOREM TypeCorrect == Spec => []TypeOK
<1>1. IInv => TypeOK
  BY DEF IInv
<1> QED BY <1>1, Invariance, PTL

LEMMA OneElement == \A S, o : S = {o} => Cardinality(S) = 1
BY FS_Singleton

(* During the rush no BaseAnalysis leaks or is deleted twice, whatever the *)
(* threads do, although two analyses may overlap: every transfer is an     *)
(* exchange.                                                               *)
THEOREM Ownership == Spec => []SingleOwner
<1>1. IInv => SingleOwner
  <2> SUFFICES ASSUME IInv, strategy = "cannons", NEW a \in Run, Born(a)
               PROVE  \/ deletes[a] = 0 /\ Cardinality(Owners(a)) = 1
                      \/ deletes[a] = 1 /\ Owners(a) = {}
    BY DEF SingleOwner
  <2> USE DEF IInv, Rush, PointersValid, PointersApart, NothingLost, Published
  <2>1. CASE thread[a] = "work"
    <3>1. Owners(a) = {<<"thread", a>>} /\ deletes[a] = 0
      BY <2>1, RunAssumption DEF Owners, Holding
    <3>2. Cardinality(Owners(a)) = 1
      BY <3>1, OneElement
    <3> QED BY <3>1, <3>2
  <2>2. CASE deletes[a] = 1
    BY <2>2, RunAssumption DEF Owners, Holding
  <2>3. CASE thread[a] # "work" /\ deletes[a] = 0
    <3>1. Published(a)
      BY <2>3 DEF Born
    <3>2. \/ latestAnalysis = a \/ currentAnalysis = a
          \/ \E r \in Run : thread[r] = "delete" /\ prev[r] = a
      BY <2>3, <3>1
    <3>3. CASE latestAnalysis = a
      <4>1. Owners(a) = {<<"pointer", a>>}
        BY <2>3, <3>3, RunAssumption DEF Owners, Holding
      <4>2. Cardinality(Owners(a)) = 1
        BY <4>1, OneElement
      <4> QED BY <2>3, <4>2
    <3>4. CASE currentAnalysis = a
      <4>1. Owners(a) = {<<"module", a>>}
        BY <2>3, <3>4, RunAssumption DEF Owners, Holding
      <4>2. Cardinality(Owners(a)) = 1
        BY <4>1, OneElement
      <4> QED BY <2>3, <4>2
    <3>5. CASE \E r \in Run : thread[r] = "delete" /\ prev[r] = a
      <4>1. PICK r \in Run : thread[r] = "delete" /\ prev[r] = a
        BY <3>5
      <4>2. {q \in Run : Holding(q, a)} = {r}
        BY <2>3, <4>1, RunAssumption DEF Holding
      <4>3. latestAnalysis # a /\ currentAnalysis # a
        BY <4>1, RunAssumption
      <4>4. Owners(a) = {<<"thread", r>>}
        BY <4>2, <4>3 DEF Owners
      <4>5. Cardinality(Owners(a)) = 1
        BY <4>4, OneElement
      <4> QED BY <2>3, <4>5
    <3> QED BY <3>2, <3>3, <3>4, <3>5
  <2> QED BY <2>1, <2>2, <2>3
<1> QED BY <1>1, Invariance, PTL

(* No more than two analyses run at a time, and only the one of the future *)
(* runs while onFrame does anything but wait for the other.                *)
THEOREM Threads == Spec => []OneBehindTheFuture
<1>1. IInv => OneBehindTheFuture
  BY DEF IInv
<1> QED BY <1>1, Invariance, PTL

(* The flag is never left up by a thread that is gone. *)
THEOREM FlagLowered == Spec => []FlagDownAtRest
<1>1. IInv => FlagDownAtRest
  BY DEF IInv, FlagHeld, FlagDownAtRest, Running, Idle
<1> QED BY <1>1, Invariance, PTL
===============================================================================
