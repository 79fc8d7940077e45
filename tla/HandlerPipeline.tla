--------------------------- MODULE HandlerPipeline ---------------------------
(***************************************************************************)
(* The fixed course of one unary call, GrpcHandlerInterface::Run           *)
(* (include/qtrade/grpc/grpc_handler_interface.hpp), around the hooks that *)
(* a handler overrides.  A hook returns success, returns an error code, or *)
(* throws; so does Rollback, which returns nothing.  A result's text is    *)
(* copied when an error is returned, and that may throw as well.           *)
(*                                                                         *)
(* The "writing" handlers of this repository (AddAccount, UpdateAccount)   *)
(* do their work in a transaction: their Rollback is empty, and the hooks  *)
(* after ExecuteBusiness return a constant success, too short a text to    *)
(* need memory.  The reading ones have no effect that could be left.  The  *)
(* base class also serves "compensating" handlers, of which there is none  *)
(* here yet, whose Rollback undoes what ExecuteBusiness did.  All          *)
(* exceptions are std::exception.                                          *)
(***************************************************************************)
EXTENDS Naturals

CONSTANTS
  Handlers,    \* which handlers: a subset of {"writing", "compensating"}
  Codes        \* the error codes a hook may return

ASSUME HandlersAndCodes ==
  /\ Handlers \subseteq {"writing", "compensating"}
  /\ "kSystemError" \in Codes
  /\ Codes \cap {"none", "kSuccess"} = {}

VARIABLES
  handler,    \* whose call it is
  next,       \* the hook that is called next, or where Run is
  seen,       \* hook -> what it did in this call
  armed,      \* rollback_on_exception
  effect,     \* what there is of the effect of ExecuteBusiness
  undone,     \* how many calls of Rollback have returned
  stuck,      \* has a call of Rollback thrown
  result      \* the error code that Run has at hand, at last its answer

vars == <<handler, next, seen, armed, effect, undone, stuck, result>>

Hooks == {"permission", "convert", "validate", "preconditions",
          "execute", "verify", "notify", "build"}
Outcomes == {"uncalled", "ok", "error", "throws"}

Init ==
  /\ handler \in Handlers
  /\ next = "permission"
  /\ seen = [hook \in Hooks |-> "uncalled"]
  /\ armed = FALSE
  /\ effect = "none"
  /\ undone = 0
  /\ stuck = FALSE
  /\ result = "none"

----------------------------------------------------------------------------
(* The hooks                                                               *)

After(hook) ==
  CASE hook = "permission"    -> "convert"
    [] hook = "convert"       -> "validate"
    [] hook = "validate"      -> "preconditions"
    [] hook = "preconditions" -> "execute"
    [] hook = "execute"       -> "verify"
    [] hook = "verify"        -> "notify"
    [] hook = "notify"        -> "build"
    [] hook = "build"         -> "return"

(* Is an exception of this hook to be rolled back?  The mutant raises the  *)
(* flag when ExecuteBusiness has returned.                                 *)
GuardedLate(hook) == hook \in {"verify", "build"}
Guarded(hook) == hook \in {"execute", "verify", "build"}

(* Whose errors end the call; the mutant takes a failed check for a        *)
(* warning.                                                                *)
FatalButVerify(hook) == hook \notin {"verify", "notify"}
Fatal(hook) == hook # "notify"

(* Which hooks may do something else than succeed.  The mutant gives       *)
(* writing handlers a check of what they wrote, and no Rollback.           *)
FallibleVerify(hook) == handler = "writing" => hook \notin {"notify", "build"}
Fallible(hook) == handler = "writing" => hook \notin {"verify", "notify", "build"}

(* What ExecuteBusiness leaves.  Its early returns end the transaction, an *)
(* exception does not, and whether a commit that fails has taken effect is *)
(* in doubt.                                                               *)
Leaves(outcome) ==
  CASE outcome = "ok" -> {"made"}
    [] outcome # "ok" /\ handler = "compensating" -> {"none", "partial"}
    [] outcome = "error" /\ handler = "writing"   -> {"none", "doubtful"}
    [] outcome = "throws" /\ handler = "writing"  -> {"none", "doubtful", "open"}

Called(hook, outcome) ==
  /\ next = hook
  /\ outcome # "ok" => Fallible(hook)
  /\ seen' = [seen EXCEPT ![hook] = outcome]
  /\ effect' \in IF hook = "execute" THEN Leaves(outcome) ELSE {effect}
  /\ UNCHANGED <<handler, undone, stuck>>

Succeeds(hook) ==
  /\ Called(hook, "ok")
  /\ next' = After(hook)
  /\ armed' = (Guarded(hook) /\ hook # "build")
  /\ result' = IF hook = "build" THEN "kSuccess" ELSE result

(* An error is logged; where it counts, Run returns it, after a Rollback   *)
(* if there is something to roll back.                                     *)
Fails(hook, code) ==
  /\ Called(hook, "error")
  /\ armed' = Guarded(hook)
  /\ IF Fatal(hook)
     THEN /\ next' = IF Guarded(hook) THEN "rollback" ELSE "return"
          /\ result' = code
     ELSE /\ next' = After(hook)
          /\ UNCHANGED result

Throws(hook) ==
  /\ Called(hook, "throws")
  /\ armed' = Guarded(hook)
  /\ next' = "catch"
  /\ UNCHANGED result

(* ConvertToServerData succeeds and brings no data. *)
ConvertsToNothing ==
  /\ Called("convert", "error")
  /\ next' = "return"
  /\ result' = "kInternalError"
  /\ UNCHANGED armed

----------------------------------------------------------------------------
(* Rollback                                                                *)

Undo == effect' = IF handler = "compensating" /\ effect # "none"
                  THEN "undone" ELSE effect

(* A Rollback that throws may have undone a part; an empty one does not    *)
(* throw.                                                                  *)
UndoPartly ==
  /\ handler = "compensating"
  /\ effect' \in IF effect # "none" THEN {effect, "partial"} ELSE {effect}

(* Rollback(server_data); rollback_on_exception = false; *)
StayArmed == UNCHANGED armed                                 \* mutant
Disarm == armed' = FALSE

RollsBack ==
  /\ next = "rollback"
  /\ Undo
  /\ Disarm
  /\ undone' = undone + 1
  /\ next' = "return"
  /\ UNCHANGED <<handler, seen, stuck, result>>

RollbackThrows ==
  /\ next = "rollback"
  /\ UndoPartly
  /\ stuck' = TRUE
  /\ next' = "catch"
  /\ UNCHANGED <<handler, seen, armed, undone, result>>

----------------------------------------------------------------------------
(* Leaving Run                                                             *)

Return ==
  /\ next = "return"
  /\ next' = "answered"
  /\ UNCHANGED <<handler, seen, armed, effect, undone, stuck, result>>

(* The copy of an error's text finds no memory. *)
ReturnThrows ==
  /\ next = "return" /\ result # "kSuccess"
  /\ next' = "catch"
  /\ UNCHANGED <<handler, seen, armed, effect, undone, stuck, result>>

(* The catch block ends with the answer "handler run exception", or with   *)
(* another exception when there is no memory for that text either; gRPC    *)
(* then answers the caller itself.                                         *)
Caught ==
  /\ \/ next' = "answered" /\ result' = "kSystemError"
     \/ next' = "outOfMemory" /\ UNCHANGED result
  /\ UNCHANGED <<handler, seen, armed>>

Catch ==
  /\ next = "catch" /\ ~armed
  /\ Caught
  /\ UNCHANGED <<effect, undone, stuck>>

CatchRollsBack ==
  /\ next = "catch" /\ armed
  /\ Undo
  /\ undone' = undone + 1
  /\ Caught
  /\ UNCHANGED stuck

(* Mutant: nothing catches what Rollback throws inside the catch block. *)
CatchEscapes ==
  /\ next = "catch" /\ armed
  /\ UndoPartly
  /\ stuck' = TRUE
  /\ next' = "escaped"
  /\ UNCHANGED <<handler, seen, armed, undone, result>>

CatchRollbackThrows ==
  /\ next = "catch" /\ armed
  /\ UndoPartly
  /\ stuck' = TRUE
  /\ Caught
  /\ UNCHANGED undone

----------------------------------------------------------------------------
Next ==
  \/ \E hook \in Hooks : Succeeds(hook) \/ Throws(hook)
  \/ \E hook \in Hooks, code \in Codes : Fails(hook, code)
  \/ ConvertsToNothing
  \/ RollsBack \/ RollbackThrows
  \/ Return \/ ReturnThrows
  \/ Catch \/ CatchRollsBack \/ CatchRollbackThrows

Spec == Init /\ [][Next]_vars

(* A call runs on one thread that is scheduled, and its hooks return. *)
FairSpec == Spec /\ WF_vars(Next)

----------------------------------------------------------------------------
(* Properties                                                              *)

(* Every variable has its type, and Run is at one of its places. *)
TypeOK ==
  /\ handler \in Handlers
  /\ next \in Hooks \cup {"rollback", "return", "catch", "answered", "outOfMemory"}
  /\ seen \in [Hooks -> Outcomes]
  /\ armed \in BOOLEAN
  /\ effect \in {"none", "partial", "made", "undone", "open", "doubtful"}
  /\ undone \in 0..2 /\ stuck \in BOOLEAN
  /\ result \in Codes \cup {"none", "kSuccess", "kInternalError"}

Answered == next \in {"answered", "outOfMemory"}
ErrorAnswered == Answered /\ result # "kSuccess"

(* A call that is answered with an error has left no effect, or has undone *)
(* it, whichever hook failed, by its result or by an exception.  The       *)
(* exceptions: NotifyService threw, or no Rollback came to its end         *)
(* (compensating); the commit was not confirmed, or an exception left the  *)
(* transaction open (writing, whose Rollback does nothing).                *)
ErrorLeavesNothing ==
  ErrorAnswered =>
    \/ effect \in {"none", "undone"}
    \/ /\ handler = "compensating"
       /\ seen["notify"] = "throws" \/ (stuck /\ undone = 0)
    \/ /\ handler = "writing"
       /\ \/ seen["execute"] # "ok" /\ effect = "doubtful"
          \/ seen["execute"] = "throws" /\ effect = "open"

(* The caller is told of success exactly when every hook was called and    *)
(* succeeded, NotifyService perhaps excepted; then the effect stands.      *)
AnswerMatchesHooks ==
  Answered =>
    /\ result = "kSuccess" <=>
         /\ \A hook \in Hooks \ {"notify"} : seen[hook] = "ok"
         /\ seen["notify"] \in {"ok", "error"}
    /\ result = "kSuccess" => effect = "made" /\ undone = 0

(* What has been rolled back is not rolled back again, and nothing is      *)
(* rolled back before ExecuteBusiness was called.                          *)
RollbackOnce ==
  /\ undone <= 1
  /\ next = "rollback" \/ undone > 0 => seen["execute"] # "uncalled"
  /\ next = "catch" /\ undone > 0 => ~armed

(* Every call gets an answer; no exception leaves Run, except for want of  *)
(* the memory for its last text.                                           *)
EveryCallAnswered == <>Answered
=============================================================================
