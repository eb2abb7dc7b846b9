-------------------------- MODULE MCThreadPrograms --------------------------
(***************************************************************************)
(* Model-checking instance of the small thread programs: any one of them   *)
(* runs, with small limits in place of the sources' large ones.            *)
(***************************************************************************)
EXTENDS ForkHandlers, Cancellation, ConditionPrograms, MutexPrograms, OncePrograms,
  SemaphorePrograms, StreamPrograms, ProcessPrograms

Init ==
  \/ AtforkInit \/ CancelInit \/ CleanpInit \/ SubcontractInit
  \/ CountInit \/ CondInit \/ SigwaitInit \/ ExpiryInit \/ QtInit
  \/ TrylockInit \/ DotInit \/ AccumulateInit
  \/ OnceInit \/ TsdInit \/ OrderInit \/ TimerInit
  \/ FlockInit \/ PutcharInit \/ PipeInit \/ BeeInit \/ ChatInit

Step(t) ==
  \/ AtforkStep(t) \/ CancelStep(t) \/ CleanpStep(t) \/ SubcontractStep(t)
  \/ CountStep(t) \/ CondStep(t) \/ SigwaitStep(t) \/ ExpiryStep(t) \/ QtStep(t)
  \/ TrylockStep(t) \/ DotStep(t) \/ AccumulateStep(t)
  \/ OnceStep(t) \/ TsdStep(t) \/ OrderStep(t) \/ TimerStep(t)
  \/ FlockStep(t) \/ PutcharStep(t) \/ PipeStep(t) \/ BeeStep(t) \/ ChatStep(t)

Next ==
  \/ \E t \in Threads : Step(t)
  \/ Spurious \/ Interrupt \/ Minute \/ Tick \/ timer_thread
  \/ Answer \/ BeeAcceptFails \/ ChatAcceptFails

\* Every thread that can run does, the timer goes on, the minute passes, a signal
\* is delivered, and the deadline of cond.c passes, which stays the same however
\* often main is woken before it.  Interrupts, the user's answers, wakeups that nobody
\* sent and accepts that fail need not come.
Spec ==
  /\ Init /\ [][Next]_vars
  /\ \A t \in Threads : WF_vars(Step(t))
  /\ WF_vars(Minute) /\ WF_vars(Tick) /\ WF_vars(timer_thread)
  /\ WF_vars(Delivery) /\ SF_vars(Deadline)

\* The properties of the programs together.
ProgramsEnd ==
  /\ AtforkEnds /\ CancellationEnds /\ WaitsEnd /\ ResultsEnd /\ OnceEnds /\ SemaphoresEnd
  /\ StreamsEnd /\ ProcessesEnd
=============================================================================
