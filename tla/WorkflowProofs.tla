--------------------------- MODULE WorkflowProofs ----------------------------
(***************************************************************************)
(* Proofs about Workflow, for any set of tasks: Run waits for its tasks,   *)
(* goes on after a failure only if the handler has suppressed it, and      *)
(* returns nil after errors only if the handler has suppressed an error of *)
(* each of its parts that had any: of the tasks' errors, the group's first.*)
(***************************************************************************)
EXTENDS Workflow, TLAPS

(* Where Run goes on after each of the three errors.                       *)
LEMMA ResumePoints ==
    /\ DOMAIN Resume = {"preFailed", "tasksFailed", "postFailed"}
    /\ Resume["preFailed"] = "tasks"
    /\ Resume["tasksFailed"] = "post"
    /\ Resume["postFailed"] = "returned"
BY DEF Resume

(* Every variable of Run has its type.                                     *)
LEMMA TypeStep == TypeOK /\ [Next]_vars => TypeOK'
<1>. SUFFICES ASSUME TypeOK, [Next]_vars PROVE TypeOK'
  OBVIOUS
<1>. USE DEF TypeOK, PCs, Steps
<1>1. CASE Precondition  BY <1>1 DEF Precondition, Call
<1>2. CASE Dispatch  BY <1>2 DEF Dispatch
<1>3. CASE Wait  BY <1>3 DEF Wait
<1>4. CASE Postcondition  BY <1>4 DEF Postcondition, Call
<1>5. ASSUME NEW t \in Tasks, TaskSucceeds(t) PROVE TypeOK'
  BY <1>5 DEF TaskSucceeds
<1>6. ASSUME NEW t \in Tasks, TaskFails(t) PROVE TypeOK'
  BY <1>6 DEF TaskFails
<1>7. CASE Suppress
  <2>1. pc' \in PCs  BY <1>7, ResumePoints DEF Suppress, Failing
  <2>. QED BY <1>7, <2>1 DEF Suppress
<1>8. CASE RaiseFromHandler  BY <1>8 DEF RaiseFromHandler
<1>9. CASE Raise  BY <1>9 DEF Raise
<1>10. CASE UNCHANGED vars  BY <1>10 DEF vars
<1>. QED BY <1>1, <1>2, <1>3, <1>4, <1>5, <1>6, <1>7, <1>8, <1>9, <1>10 DEF Next

THEOREM TypeCorrect == Spec => []TypeOK
<1>1. Init => TypeOK  BY DEF Init, TypeOK, PCs
<1>. QED BY <1>1, TypeStep, PTL DEF Spec

-----------------------------------------------------------------------------
(* No task before Dispatch, hence no error of one.                         *)
NothingDispatched ==
    pc \in {"pre", "preFailed", "tasks"} => taskErr = {}

(* The error being handled is that of the step Run is at.                  *)
CurrentIsLast ==
    /\ pc = "preFailed" => current = {Pre}
    /\ pc = "tasksFailed" => current = taskErr /\ current # {}
    /\ pc = "postFailed" => current = {Post}

(* What has failed before that step is known to the handler.               *)
EarlierHandled ==
    /\ Pre \in failed => pc # "pre" /\ (pc \in {"preFailed", "returned"} \/ Pre \in handled)
    /\ pc \in {"post", "postFailed"} => taskErr \subseteq handled
    /\ Post \in failed => pc \in {"postFailed", "returned"}

(* The group keeps the error of a task that failed, if one did.            *)
GroupKeepsOne ==
    /\ taskErr \subseteq failed \cap Tasks
    /\ failed \cap Tasks # {} => taskErr # {}

(* The errors Run does not lose, once it has returned nil.                 *)
KeptHandled ==
    pc = "returned" /\ result = {} =>
        (failed \ Tasks) \cup taskErr \subseteq handled

RunInv ==
    /\ NothingDispatched /\ CurrentIsLast /\ EarlierHandled
    /\ TasksAreJoined /\ GroupKeepsOne /\ KeptHandled

LEMMA RunInit == Init => RunInv
BY DEF Init, RunInv, NothingDispatched, CurrentIsLast, EarlierHandled,
       TasksAreJoined, GroupKeepsOne, KeptHandled

(* Calling a precondition or postcondition neither starts a task nor lets  *)
(* its error pass by.                                                      *)
LEMMA PreconditionStep == TypeOK /\ RunInv /\ Precondition => RunInv'
BY DistinctSteps
   DEF TypeOK, Precondition, Call, RunInv, NothingDispatched, CurrentIsLast,
       EarlierHandled, TasksAreJoined, GroupKeepsOne, KeptHandled

LEMMA PostconditionStep == TypeOK /\ RunInv /\ Postcondition => RunInv'
<1>. SUFFICES ASSUME TypeOK, RunInv, Postcondition PROVE RunInv'
  OBVIOUS
<1>. USE DistinctSteps
     DEF TypeOK, Postcondition, Call, RunInv, NothingDispatched, CurrentIsLast,
         EarlierHandled, TasksAreJoined
<1>1. KeptHandled'
  BY DEF Steps, KeptHandled
<1>2. GroupKeepsOne'
  BY DEF GroupKeepsOne
<1>. QED BY <1>1, <1>2

LEMMA TasksStep ==
    ASSUME TypeOK, RunInv,
           Dispatch \/ Wait \/ \E t \in Tasks : TaskSucceeds(t) \/ TaskFails(t)
    PROVE  RunInv'
<1>. USE DistinctSteps
     DEF TypeOK, RunInv, NothingDispatched, CurrentIsLast, EarlierHandled,
         TasksAreJoined, GroupKeepsOne, KeptHandled
<1>1. CASE Dispatch  BY <1>1 DEF Dispatch
<1>2. CASE Wait  BY <1>2 DEF Wait
<1>3. ASSUME NEW t \in Tasks, TaskSucceeds(t) PROVE RunInv'
  BY <1>3 DEF TaskSucceeds
<1>4. ASSUME NEW t \in Tasks, TaskFails(t) PROVE RunInv'
  BY <1>4 DEF TaskFails
<1>. QED BY <1>1, <1>2, <1>3, <1>4

(* With the error of its step, the handler has seen all errors so far.     *)
LEMMA HandleStep ==
    ASSUME TypeOK, RunInv, Suppress \/ RaiseFromHandler \/ Raise
    PROVE  RunInv'
<1>. USE DistinctSteps
<1>1. CASE Suppress
  <2>1. /\ pc \in {"preFailed", "tasksFailed", "postFailed"}
        /\ pc = "preFailed" => pc' = "tasks"
        /\ pc = "tasksFailed" => pc' = "post"
        /\ pc = "postFailed" => pc' = "returned"
    BY <1>1, ResumePoints DEF Suppress, Failing
  <2>2. /\ handled' = handled \cup carried \cup current
        /\ UNCHANGED <<task, taskErr, result, failed>>
    BY <1>1 DEF Suppress
  <2>3. NothingDispatched' /\ CurrentIsLast' /\ EarlierHandled' /\ TasksAreJoined'
    BY <2>1, <2>2 DEF RunInv, NothingDispatched, CurrentIsLast, EarlierHandled,
                      TasksAreJoined
  <2>4. pc' = "returned" => (failed' \ Tasks) \cup taskErr' \subseteq handled'
    BY <2>1, <2>2 DEF TypeOK, Steps, RunInv, CurrentIsLast, EarlierHandled
  <2>. QED BY <2>2, <2>3, <2>4 DEF RunInv, GroupKeepsOne, KeptHandled
<1>2. CASE RaiseFromHandler \/ Raise
  <2>1. /\ pc' = "returned" /\ UNCHANGED <<task, taskErr, failed, current>>
        /\ pc \in {"preFailed", "tasksFailed", "postFailed"}
    BY <1>2, ResumePoints DEF RaiseFromHandler, Raise, Failing
  <2>2. result' # {}
    BY <1>2, <2>1 DEF RaiseFromHandler, Raise, RunInv, CurrentIsLast
  <2>. QED BY <2>1, <2>2
       DEF RunInv, NothingDispatched, CurrentIsLast, EarlierHandled,
           TasksAreJoined, GroupKeepsOne, KeptHandled
<1>. QED BY <1>1, <1>2

LEMMA RunStep == TypeOK /\ RunInv /\ [Next]_vars => RunInv'
<1>. SUFFICES ASSUME TypeOK, RunInv, [Next]_vars PROVE RunInv'
  OBVIOUS
<1>1. CASE Next
  BY <1>1, PreconditionStep, PostconditionStep, TasksStep, HandleStep DEF Next
<1>2. CASE UNCHANGED vars
  BY <1>2 DEF vars, RunInv, NothingDispatched, CurrentIsLast, EarlierHandled,
              TasksAreJoined, GroupKeepsOne, KeptHandled
<1>. QED BY <1>1, <1>2

LEMMA RunHolds == Spec => []RunInv
BY RunInit, RunStep, TypeCorrect, PTL DEF Spec

(* No goroutine of a task outlives Run, or runs before its time.           *)
THEOREM TasksJoined == Spec => []TasksAreJoined
<1>1. RunInv => TasksAreJoined  BY DEF RunInv
<1>. QED BY <1>1, RunHolds, PTL

(* Run returns nil after errors only if the handler has suppressed that of *)
(* the precondition, that of the postcondition, and one of the tasks'.     *)
THEOREM NilSuppressed == Spec => []NilMeansSuppressed
<1>1. RunInv => NilMeansSuppressed
  BY DEF RunInv, GroupKeepsOne, KeptHandled, NilMeansSuppressed
<1>. QED BY <1>1, RunHolds, PTL

(* No step runs after a failed one unless the handler suppressed the error.*)
THEOREM FailureStops == Spec => []FailureStopsOrIsHandled
<1>1. RunInv => FailureStopsOrIsHandled
  BY DEF RunInv, EarlierHandled, FailureStopsOrIsHandled
<1>. QED BY <1>1, RunHolds, PTL
=============================================================================
