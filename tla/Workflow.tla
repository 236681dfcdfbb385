------------------------------ MODULE Workflow -------------------------------
(***************************************************************************)
(* Workflow.Run (controller/workflow.go): an optional precondition, tasks  *)
(* that run concurrently in an errgroup, an optional postcondition, and an *)
(* optional error handler that may suppress an error or raise it.          *)
(*                                                                         *)
(* An error is identified with what returned it; errors.Join of several is *)
(* their set, nil the empty set.  The reconciliation functions are the     *)
(* user's: each may fail or not, and when a task ends is up to the task,   *)
(* whether or not the group's context has been cancelled.                  *)
(***************************************************************************)
CONSTANTS Tasks,     \* the tasks of the workflow
          Pre, Post, \* the precondition and the postcondition
          Carried,   \* an error Run is called with
          Raised     \* an error the handler makes up

Steps == Tasks \cup {Pre, Post}

ASSUME DistinctSteps ==
    /\ Pre # Post /\ {Pre, Post} \cap Tasks = {}
    /\ {Carried, Raised} \cap Steps = {} /\ Carried # Raised

VARIABLES
    defined,    \* which of Pre, Post and "handler" the workflow has
    carried,    \* the err Run was called with
    pc,         \* where Run is
    task,       \* per task: "idle", "running", "ok" or "failed"
    taskErr,    \* the error errgroup keeps: the first
    cancelled,  \* the group's context
    current,    \* the error being handled
    result,     \* what Run returned
    failed,     \* history: the functions that returned an error
    handled     \* history: the errors the handler has seen

vars == <<defined, carried, pc, task, taskErr, cancelled, current, result,
          failed, handled>>

PCs == {"pre", "preFailed", "tasks", "waiting", "tasksFailed", "post",
        "postFailed", "returned"}

TypeOK ==
    /\ defined \subseteq {Pre, Post, "handler"}
    /\ carried \in {{}, {Carried}}
    /\ pc \in PCs
    /\ task \in [Tasks -> {"idle", "running", "ok", "failed"}]
    /\ taskErr \in {{}} \cup {{t} : t \in Tasks}
    /\ cancelled \in BOOLEAN
    /\ current \subseteq Steps
    /\ result \subseteq Steps \cup {Raised}
    /\ failed \subseteq Steps
    /\ handled \subseteq Steps \cup {Carried}

Init ==
    /\ defined \in SUBSET {Pre, Post, "handler"}
    /\ carried \in {{}, {Carried}}
    /\ pc = "pre"
    /\ task = [t \in Tasks |-> "idle"]
    /\ taskErr = {}
    /\ cancelled = FALSE
    /\ current = {}
    /\ result = {}
    /\ failed = {}
    /\ handled = {}

-----------------------------------------------------------------------------
(* A precondition or postcondition is called at its place, if defined, and *)
(* Run goes on, or handles the error it returned.                          *)
Call(step, next, onError) ==
    \/ /\ pc' = next
       /\ UNCHANGED <<current, failed>>
    \/ /\ step \in defined
       /\ pc' = onError
       /\ current' = {step}
       /\ failed' = failed \cup {step}

Precondition ==
    /\ pc = "pre"
    /\ Call(Pre, "tasks", "preFailed")
    /\ UNCHANGED <<defined, carried, task, taskErr, cancelled, result, handled>>

(* g.Go for every task.                                                    *)
Dispatch ==
    /\ pc = "tasks"
    /\ pc' = "waiting"
    /\ task' = [t \in Tasks |-> "running"]
    /\ UNCHANGED <<defined, carried, taskErr, cancelled, current, result,
                   failed, handled>>

TaskSucceeds(t) ==
    /\ task[t] = "running"
    /\ task' = [task EXCEPT ![t] = "ok"]
    /\ UNCHANGED <<defined, carried, pc, taskErr, cancelled, current, result,
                   failed, handled>>

(* The group keeps the first error and cancels its context.                *)
TaskFails(t) ==
    /\ task[t] = "running"
    /\ task' = [task EXCEPT ![t] = "failed"]
    /\ taskErr' = IF taskErr = {} THEN {t} ELSE taskErr
    /\ cancelled' = TRUE
    /\ failed' = failed \cup {t}
    /\ UNCHANGED <<defined, carried, pc, current, result, handled>>

(* Mutant: the group is left at the first error.                           *)
WaitForError ==
    /\ pc = "waiting"
    /\ taskErr # {} \/ \A t \in Tasks : task[t] # "running"
    /\ cancelled' = TRUE
    /\ current' = taskErr
    /\ pc' = IF taskErr = {} THEN "post" ELSE "tasksFailed"
    /\ UNCHANGED <<defined, carried, task, taskErr, result, failed, handled>>

(* g.Wait returns when all tasks have, and cancels the context.            *)
Wait ==
    /\ pc = "waiting"
    /\ \A t \in Tasks : task[t] # "running"
    /\ cancelled' = TRUE
    /\ current' = taskErr
    /\ pc' = IF taskErr = {} THEN "post" ELSE "tasksFailed"
    /\ UNCHANGED <<defined, carried, task, taskErr, result, failed, handled>>

Postcondition ==
    /\ pc = "post"
    /\ Call(Post, "returned", "postFailed")
    /\ UNCHANGED <<defined, carried, task, taskErr, cancelled, result, handled>>

(* Mutant: a precondition whose error was suppressed is run again.         *)
RetryPrecondition == [preFailed |-> "pre", tasksFailed |-> "post",
                      postFailed |-> "returned"]

(* Where Run goes on when the handler suppressed the error.                *)
Resume == [preFailed |-> "tasks", tasksFailed |-> "post",
           postFailed |-> "returned"]

Failing == pc \in DOMAIN Resume

(* Mutant: the error is not passed on.                                     *)
SuppressUnseen ==
    /\ Failing /\ "handler" \in defined
    /\ handled' = handled \cup carried
    /\ pc' = Resume[pc]
    /\ current' = {}
    /\ UNCHANGED <<defined, carried, task, taskErr, cancelled, result, failed>>

(* Workflow.handle: the error, joined with the one carried over, goes to   *)
(* the handler, which suppresses it, ...                                   *)
Suppress ==
    /\ Failing /\ "handler" \in defined
    /\ handled' = handled \cup carried \cup current
    /\ pc' = Resume[pc]
    /\ current' = {}
    /\ UNCHANGED <<defined, carried, task, taskErr, cancelled, result, failed>>

(* ... or returns one to be raised.                                        *)
RaiseFromHandler ==
    /\ Failing /\ "handler" \in defined
    /\ handled' = handled \cup carried \cup current
    /\ result' = {Raised}
    /\ pc' = "returned"
    /\ UNCHANGED <<defined, carried, task, taskErr, cancelled, current, failed>>

(* Mutant: without a handler, the error is dropped.                        *)
DropWithoutHandler ==
    /\ Failing /\ "handler" \notin defined
    /\ pc' = Resume[pc]
    /\ UNCHANGED <<defined, carried, task, taskErr, cancelled, current, result,
                   failed, handled>>

(* Without a handler the error is raised as it is.                         *)
Raise ==
    /\ Failing /\ "handler" \notin defined
    /\ result' = current
    /\ pc' = "returned"
    /\ UNCHANGED <<defined, carried, task, taskErr, cancelled, current, failed,
                   handled>>

Next ==
    \/ Precondition \/ Dispatch \/ Wait \/ Postcondition
    \/ \E t \in Tasks : TaskSucceeds(t) \/ TaskFails(t)
    \/ Suppress \/ RaiseFromHandler \/ Raise

Spec == Init /\ [][Next]_vars

FairSpec == Spec /\ WF_vars(Next)

-----------------------------------------------------------------------------
(* No task runs before the precondition has passed or its error has been   *)
(* suppressed, nor once Run has left the group: a task that ignores the    *)
(* cancelled context holds Run back, and no goroutine outlives it.         *)
TasksAreJoined == (\E t \in Tasks : task[t] = "running") => pc = "waiting"

(* Run returns nil after errors only if its handler suppressed them, those *)
(* of the precondition and the postcondition each, and of the tasks one at *)
(* least.  It is not said of the errors of the other tasks: errgroup keeps *)
(* the first only, so when two tasks fail, one error reaches the handler   *)
(* and the other nobody, where the comment of the type (workflow.go:16-20) *)
(* has the handler called "if any of the reconciliation functions returns  *)
(* an error".                                                              *)
NilMeansSuppressed ==
    pc = "returned" /\ result = {} =>
        /\ failed \ Tasks \subseteq handled
        /\ failed \cap Tasks # {} => failed \cap Tasks \cap handled # {}

(* A step that follows a failed one runs only because the handler          *)
(* suppressed the error.                                                   *)
FailureStopsOrIsHandled ==
    /\ pc \in {"tasks", "waiting", "post"} /\ Pre \in failed => Pre \in handled
    /\ pc = "post" => taskErr \subseteq handled

(* Every call of Run returns when its functions do.                        *)
Returns == <>(pc = "returned")
=============================================================================
