-------------------------- MODULE LangChainCallback --------------------------
(***************************************************************************)
(* LangChainGuardCallback of python/src/gradia_guard/frameworks.py over    *)
(* the Python recorder, with runs of the framework on threads of their own *)
(* and an application that uses the recorder beside them.                  *)
(*                                                                         *)
(* The start callback holds the callback's lock across its two calls of    *)
(* the recorder; the end callbacks hold it only while they take the        *)
(* operation of their run.                                                 *)
(*                                                                         *)
(* LangChain is external: it performs a call if its start callback         *)
(* returned, and then calls one end callback, as the call went.            *)
(***************************************************************************)
EXTENDS PythonRecorder

CONSTANT Run   \* ids of the framework's runs: an operation is named after its run

ASSUME CallbackAssumption == Run \subseteq Logical /\ None \notin Run /\ MaxAttempts > 0

VARIABLES
  run,          \* where each run of the framework is
  told,         \* how its call went, once it is over
  lock,         \* the run whose thread is in the start callback
  operations,   \* runs that have an operation in _operations
  occurrences   \* runs that have one in _occurrences

callbackVars == <<run, told, lock, operations, occurrences>>
vars == <<recorderVars, callbackVars>>

TypeOK ==
  /\ RecorderTypeOK
  /\ run \in [Run -> {"idle", "starting", "refused", "called", "taken", "closing", "done"}]
  /\ told \in [Run -> {"success", "failure", None}]
  /\ lock \in Run \cup {None}
  /\ operations \subseteq Run /\ occurrences \subseteq Run

Init ==
  /\ RecorderInit
  /\ run = [r \in Run |-> "idle"]
  /\ told = [r \in Run |-> None]
  /\ lock = None
  /\ operations = {} /\ occurrences = {}

Of(r) == <<r, 1>>
Moves(r, where) == run' = [run EXCEPT ![r] = where]

-----------------------------------------------------------------------------

\* _begin_model, on_tool_start: a run is recorded under the run it says it is part of, if
\* the callback knows that one.
OnStart(r, c, parent, policy) ==
  /\ lock = None
  /\ run[r] = "idle"
  /\ Begin(r, 1, c, None, IF parent \in occurrences THEN Of(parent) ELSE None, policy)
  /\ lock' = r
  /\ Moves(r, "starting")
  /\ UNCHANGED <<told, operations, occurrences>>

\* The tool is not registered, the payload can not be serialized, the policy resolver
\* raises, or the recorder is finalized.
StartRaises(r) ==
  /\ lock = None
  /\ run[r] = "idle"
  /\ Moves(r, "refused")
  /\ UNCHANGED <<recorderVars, told, lock, operations, occurrences>>

\* _remember: what is censored must not be called, and the exception says so.
Returned(r) == handle[Of(r)] # "censored"
Remember(r) ==
  /\ lock = r
  /\ call = Idle
  /\ handle[Of(r)] # "none"
  /\ operations' = operations \cup {r}
  /\ occurrences' = occurrences \cup {r}
  /\ IF handle[Of(r)] = "open" THEN MarkDispatched(Of(r)) ELSE UNCHANGED recorderVars
  /\ Moves(r, IF Returned(r) THEN "called" ELSE "refused")
  /\ lock' = None
  /\ UNCHANGED told

\* on_llm_end, on_llm_error, on_tool_end, on_tool_error: _take
Take(r, how) ==
  /\ lock = None
  /\ run[r] = "called"
  /\ told' = [told EXCEPT ![r] = how]
  /\ IF r \in operations /\ handle[Of(r)] # "censored" THEN Moves(r, "taken")
     ELSE Moves(r, "done")
  /\ operations' = operations \ {r}
  /\ UNCHANGED <<recorderVars, lock, occurrences>>

\* What the end callbacks tell the operation; an output that can not be serialized raises
\* when nothing knows of the operation any more.
Told_Success(r) == "success"
Told(r) == told[r]
Settle(r) ==
  /\ run[r] = "taken"
  /\ Close(Of(r), Told(r))
  /\ Moves(r, "closing")
  /\ UNCHANGED <<told, lock, operations, occurrences>>

EndRaises(r) ==
  /\ run[r] = "taken" /\ told[r] = "success"
  /\ Moves(r, "done")
  /\ UNCHANGED <<recorderVars, told, lock, operations, occurrences>>

\* A call of the recorder writes a frame of the run.
Writes(r) ==
  call.stage \in {"line", "manifest", "count"} /\ call.frame.occurrence = Of(r)

\* A call of the recorder raises into the callback it was made from.
Raises ==
  /\ HostFails \/ TemporaryExists
  /\ IF lock # None /\ Writes(lock)
     THEN Moves(lock, "refused") /\ lock' = None
     ELSE UNCHANGED <<run, lock>>
  /\ UNCHANGED <<told, operations, occurrences>>

\* The writes of a call, whoever made it.
Record ==
  /\ WriteLine \/ Admit \/ CountAction \/ WriteCount \/ WriteFinal
  /\ UNCHANGED callbackVars

\* The application uses the recorder itself.
Application ==
  /\ \/ \E l \in Logical \ Run, n \in Attempt, c \in Context, retryOf \in Occurrence \cup {None},
           parent \in Known \cup {None}, policy \in Policy :
          Begin(l, n, c, retryOf, parent, policy)
     \/ \E o \in (Logical \ Run) \X Attempt :
          MarkDispatched(o) \/ (\E outcome \in Terminal : Close(o, outcome)) \/ CloseRaises(o)
     \/ Finalize
  /\ UNCHANGED callbackVars

Next ==
  \/ \E r \in Run :
       \/ \E c \in Context, parent \in (Run \ {r}) \cup {None}, policy \in Policy :
            OnStart(r, c, parent, policy)
       \/ StartRaises(r)
       \/ Remember(r)
       \/ \E how \in {"success", "failure"} : Take(r, how)
       \/ Settle(r)
       \/ EndRaises(r)
  \/ Raises
  \/ Record
  \/ Application

Spec == Init /\ [][Next]_vars

-----------------------------------------------------------------------------

Called(r) == run[r] \in {"called", "taken", "closing", "done"}

\* A bundle that verifies tells of every call the framework performed, whether it is
\* still running or its end callback raised, and tells how it went; and it tells of no
\* call the framework did not perform.
VerdictTellsCalls ==
  Verifies =>
    \A r \in Run :
      /\ Called(r) => \E i \in Actions(log) : log[i].occurrence = Of(r) /\ log[i].outcome = told[r]
      /\ run[r] = "refused" =>
           \A i \in Actions(log) : log[i].occurrence = Of(r) => log[i].outcome \in Censored

\* A verdict is for good: no thread that comes late, no callback that raises, no call the
\* application still makes and no fault of the host changes the files of a bundle that
\* verifies, although the recorder stays in use.
VerdictStable == [][Verifies => UNCHANGED <<log, torn, disk>>]_vars

\* An operation whose end raised before anything was recorded of it.
Lost(o) ==
  \/ handle[o] = "closed" /\ o \notin Recorded
  \/ \E r \in Run : o = Of(r) /\ run[r] = "done" /\ handle[o] = "dispatched"

\* When the host works and no end callback or output is refused, the recorder can be
\* finalized as soon as nothing is under way, and what it sealed verifies, unless an
\* identity mismatch is in it.
GoodSessionVerifies ==
  faults = 0 /\ call = Idle /\ (\A o \in Occurrence : ~Lost(o)) =>
    /\ open = Cardinality({o \in Occurrence : handle[o] \in {"open", "dispatched"}})
    /\ disk.status = "finalized" /\ (\A i \in Actions(log) : log[i].outcome # "identity_mismatch")
         => Verifies

(***************************************************************************)
(* Why the verdict tells of every call: a run the framework called has a   *)
(* handle that was dispatched, which stays in the way of finalize until    *)
(* the end of the run is in the log as it was told.                        *)
(***************************************************************************)
RunSound(r) ==
  /\ run[r] = "idle" => handle[Of(r)] = "none" /\ Of(r) \notin Known /\ ~Writes(r)
  /\ run[r] = "starting" =>
       /\ lock = r
       /\ handle[Of(r)] \in IF Writes(r) THEN {"none"} ELSE {"open", "censored"}
  /\ run[r] = "refused" => handle[Of(r)] \in {"none", "censored"} /\ ~Writes(r)
  /\ run[r] \in {"called", "taken", "done"} => handle[Of(r)] = "dispatched" /\ ~Writes(r)
  /\ run[r] = "closing" => handle[Of(r)] = "closed"

CallbackSound ==
  /\ \A r \in Run : RunSound(r)
  /\ \A r \in Run : lock = r => run[r] = "starting"
  /\ \A r \in Run : run[r] = "called" => r \in operations
  /\ \A r \in Run : run[r] \in {"taken", "closing"} => told[r] \in {"success", "failure"}

\* What is written of the end of a run is what the framework told.
ToldSound ==
  \A r \in Run :
    /\ \A i \in Actions(log) :
         log[i].occurrence = Of(r) => log[i].outcome \in Censored \cup {told[r]}
    /\ Writes(r) /\ call.frame.kind = "action" =>
         call.frame.outcome \in Censored \cup {told[r]}

IInv == TypeOK /\ Sound /\ CallbackSound /\ ToldSound
=============================================================================
