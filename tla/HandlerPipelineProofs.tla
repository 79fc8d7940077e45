------------------------ MODULE HandlerPipelineProofs ------------------------
(***************************************************************************)
(* For any error codes: what a call of HandlerPipeline leaves behind, what *)
(* its answer says, and how often it is rolled back.                       *)
(***************************************************************************)
EXTENDS HandlerPipeline, TLAPS

(* The hooks that were called before this one. *)
Earlier(hook) ==
  CASE hook = "permission"    -> {}
    [] hook = "convert"       -> {"permission"}
    [] hook = "validate"      -> {"permission", "convert"}
    [] hook = "preconditions" -> {"permission", "convert", "validate"}
    [] hook = "execute"       -> {"permission", "convert", "validate", "preconditions"}
    [] hook = "verify"        -> {"permission", "convert", "validate", "preconditions",
                                  "execute"}
    [] hook = "notify"        -> {"permission", "convert", "validate", "preconditions",
                                  "execute", "verify"}
    [] hook = "build"         -> Hooks \ {"build"}

(* Every hook did what success takes. *)
Passed(hook) == seen[hook] = "ok" \/ (hook = "notify" /\ seen[hook] = "error")
AllPassed == \A hook \in Hooks : Passed(hook)

(* Between two hooks: those before have passed, those after are uncalled,  *)
(* and the effect is there once ExecuteBusiness is among those before.     *)
Course ==
  next \in Hooks =>
    /\ \A hook \in Earlier(next) : Passed(hook)
    /\ \A hook \in Hooks \ Earlier(next) : seen[hook] = "uncalled"
    /\ result = "none" /\ undone = 0 /\ ~stuck
    /\ effect = IF "execute" \in Earlier(next) THEN "made" ELSE "none"
    /\ "execute" \notin Earlier(next) => ~armed

(* On the way out, with success and without. *)
Leaving ==
  /\ next \in {"return", "answered", "outOfMemory"} /\ result = "kSuccess" =>
       AllPassed /\ effect = "made" /\ undone = 0
  /\ next \in {"rollback", "catch"} => ~AllPassed
  /\ next \in {"return", "answered", "outOfMemory"} /\ result # "kSuccess" => ~AllPassed
  /\ next = "rollback" => armed /\ result # "kSuccess" /\ ~stuck
  /\ next = "catch" => result # "kSuccess"

(* The flag is up only while there is a hook's work to roll back. *)
Armed ==
  /\ armed /\ next \in {"rollback", "catch"} =>
       undone = 0 /\ seen["execute"] # "uncalled"
  /\ next = "return" => ~armed
  /\ undone <= 1
  /\ undone = 1 => seen["execute"] # "uncalled" /\ next \notin Hooks

(* What an error leaves of the effect. *)
Settled ==
  \/ effect \in {"none", "undone"}
  \/ /\ handler = "compensating"
     /\ seen["notify"] = "throws" \/ (stuck /\ undone = 0)
  \/ /\ handler = "writing"
     /\ \/ seen["execute"] # "ok" /\ effect = "doubtful"
        \/ seen["execute"] = "throws" /\ effect = "open"
Cleared ==
  /\ handler = "writing" /\ next \in {"rollback", "catch"} => Settled
  /\ next \in {"return", "answered", "outOfMemory"} /\ result # "kSuccess" => Settled
  /\ next = "catch" /\ ~armed => Settled

IInv == TypeOK /\ Course /\ Leaving /\ Armed /\ Cleared

USE DEF Hooks

LEMMA InitIInv == Init => IInv
<1>. SUFFICES ASSUME Init PROVE IInv
  OBVIOUS
<1>1. TypeOK
  <2>1. seen \in [Hooks -> Outcomes]
    BY DEF Init, Outcomes
  <2>2. undone \in 0..2
    BY DEF Init
  <2>3. armed \in BOOLEAN /\ stuck \in BOOLEAN
    BY Zenon DEF Init
  <2>. QED  BY <2>1, <2>2, <2>3 DEF Init, TypeOK
<1>2. Course
  BY DEF Init, Course, Earlier
<1>3. Leaving /\ Armed /\ Cleared
  BY DEF Init, Leaving, Armed, Cleared
<1>. QED  BY <1>1, <1>2, <1>3 DEF IInv

(* The order of the hooks. *)
LEMMA AfterEarlier ==
  ASSUME NEW hook \in Hooks, hook # "build"
  PROVE  After(hook) \in Hooks /\ Earlier(After(hook)) = Earlier(hook) \cup {hook}
BY DEF After, Earlier

LEMMA Before ==
  ASSUME NEW hook \in Hooks, "execute" \notin Earlier(hook), hook # "execute"
  PROVE  hook \in {"permission", "convert", "validate", "preconditions"}
BY DEF Earlier

(* Calling a hook: what the next place may rely on. *)
LEMMA CalledIInv ==
  ASSUME IInv, NEW hook \in Hooks, NEW outcome \in Outcomes \ {"uncalled"},
         Called(hook, outcome)
  PROVE  /\ seen' = [seen EXCEPT ![hook] = outcome] /\ seen' \in [Hooks -> Outcomes]
         /\ \A h \in Earlier(hook) : Passed(h)'
         /\ \A h \in Hooks \ (Earlier(hook) \cup {hook}) : seen'[h] = "uncalled"
         /\ undone = 0 /\ ~stuck /\ result = "none"
         /\ UNCHANGED <<handler, undone, stuck>>
         /\ effect' \in {"none", "partial", "made", "open", "doubtful"}
         /\ handler \in {"writing", "compensating"}
         /\ hook \in {"verify", "notify", "build"} /\ outcome # "ok" => handler = "compensating"
         /\ handler = "writing" /\ hook = "execute" =>
              \/ effect' = "none"
              \/ outcome # "ok" /\ effect' = "doubtful"
              \/ outcome = "throws" /\ effect' = "open"
              \/ outcome = "ok"
         /\ hook \in {"permission", "convert", "validate", "preconditions"} => effect' = "none"
         /\ "execute" \in Earlier(hook) => effect' = "made"
         /\ hook = "execute" /\ outcome = "ok" => effect' = "made"
         /\ "execute" \in Earlier(hook) => seen'["execute"] # "uncalled"
BY HandlersAndCodes
   DEF IInv, TypeOK, Course, Called, Passed, Earlier, Leaves, Fallible, Outcomes

LEMMA SucceedsIInv == ASSUME IInv, NEW hook \in Hooks, Succeeds(hook) PROVE IInv'
<1>1. Called(hook, "ok") /\ "ok" \in Outcomes \ {"uncalled"}
  BY DEF Succeeds, Outcomes
<1>2. Passed(hook)' /\ seen'[hook] # "uncalled"
  BY <1>1, CalledIInv DEF Passed
<1>3. TypeOK'
  BY <1>1, CalledIInv DEF Succeeds, IInv, TypeOK, After, Guarded
<1>4. ASSUME hook = "build" PROVE Course' /\ Leaving' /\ Armed' /\ Cleared'
  <2>1. next' = "return" /\ result' = "kSuccess" /\ ~armed'
    BY <1>4 DEF Succeeds, After
  <2>2. AllPassed' /\ effect' = "made" /\ undone' = 0
    BY <1>1, <1>2, <1>4, CalledIInv DEF AllPassed, Earlier
  <2>. QED  BY <2>1, <2>2 DEF Course, Leaving, Armed, Cleared
<1>5. ASSUME hook # "build" PROVE Course' /\ Leaving' /\ Armed' /\ Cleared'
  <2>1. next' = After(hook) /\ result' = result /\ (~Guarded(hook) => ~armed')
    BY <1>5 DEF Succeeds
  <2>2. next' \in Hooks /\ Earlier(next') = Earlier(hook) \cup {hook}
    BY <1>5, <2>1, AfterEarlier
  <2>3. "execute" \notin Earlier(next') => effect' = "none" /\ ~armed'
    BY <1>1, <2>1, <2>2, CalledIInv, Before DEF Guarded
  <2>4. "execute" \in Earlier(next') => effect' = "made"
    BY <1>1, <2>2, CalledIInv
  <2>5. Course'
    BY <1>1, <1>2, <2>1, <2>2, <2>3, <2>4, CalledIInv DEF Course
  <2>. QED  BY <1>1, <2>2, <2>5, CalledIInv DEF Leaving, Armed, Cleared
<1>. QED  BY <1>3, <1>4, <1>5 DEF IInv

(* Every other outcome of a hook. *)
LEMMA ThrowsIInv == ASSUME IInv, NEW hook \in Hooks, Throws(hook) PROVE IInv'
<1>1. Called(hook, "throws") /\ "throws" \in Outcomes \ {"uncalled"}
  BY DEF Throws, Outcomes
<1>2. ~Passed(hook)' /\ ~AllPassed' /\ seen'[hook] = "throws"
  BY <1>1, CalledIInv DEF Passed, AllPassed
<1>3. TypeOK'
  BY <1>1, CalledIInv DEF Throws, IInv, TypeOK, Guarded
<1>4. Course' /\ Leaving'
  BY <1>1, <1>2, CalledIInv DEF Throws, Course, Leaving
<1>6. Guarded(hook) => seen'["execute"] # "uncalled"
  BY <1>1, <1>2, CalledIInv DEF Guarded, Earlier
<1>7. Armed'
  BY <1>1, <1>6, CalledIInv DEF Throws, Armed
<1>5. Cleared'
  BY <1>1, <1>2, CalledIInv DEF Throws, Cleared, Settled, Guarded
<1>. QED  BY <1>3, <1>4, <1>5, <1>7 DEF IInv

LEMMA FailsIInv ==
  ASSUME IInv, NEW hook \in Hooks, NEW code \in Codes, Fails(hook, code)
  PROVE  IInv'
<1>1. Called(hook, "error") /\ "error" \in Outcomes \ {"uncalled"}
  BY DEF Fails, Outcomes
<1>2. code # "kSuccess" /\ seen'[hook] = "error"
  BY <1>1, CalledIInv, HandlersAndCodes
<1>3. TypeOK'
  BY <1>1, CalledIInv DEF Fails, IInv, TypeOK, Guarded, After, Fatal
<1>4. CASE hook = "notify"
  <2>1. Passed(hook)'
    BY <1>2, <1>4 DEF Passed
  <2>2. Course' /\ Leaving' /\ Armed' /\ Cleared'
    BY <1>1, <1>2, <1>4, <2>1, CalledIInv DEF Fails, Fatal, Guarded, After, Earlier, Course, Leaving,
      Armed, Cleared
  <2>. QED  BY <1>3, <2>2 DEF IInv
<1>5. CASE hook # "notify"
  <2>1. ~AllPassed'
    BY <1>2, <1>5 DEF Passed, AllPassed
  <2>2. Course' /\ Leaving'
    BY <1>1, <1>2, <1>5, <2>1, CalledIInv DEF Fails, Fatal, Course, Leaving
  <2>4. Guarded(hook) => seen'["execute"] # "uncalled"
    BY <1>1, <1>2, CalledIInv DEF Guarded, Earlier
  <2>5. Armed'
    BY <1>1, <1>5, <2>4, CalledIInv DEF Fails, Fatal, Armed
  <2>3. Cleared'
    BY <1>1, <1>2, <1>5, CalledIInv DEF Fails, Fatal, Guarded, Cleared, Settled
  <2>. QED  BY <1>3, <2>2, <2>3, <2>5 DEF IInv
<1>. QED  BY <1>4, <1>5

LEMMA NothingIInv == ASSUME IInv, ConvertsToNothing PROVE IInv'
<1>1. Called("convert", "error") /\ "error" \in Outcomes \ {"uncalled"}
  BY DEF ConvertsToNothing, Outcomes
<1>2. ~AllPassed' /\ seen'["convert"] = "error"
  BY <1>1, CalledIInv DEF Passed, AllPassed
<1>3. TypeOK'
  BY <1>1, CalledIInv DEF ConvertsToNothing, IInv, TypeOK
<1>4. ~armed'
  BY DEF ConvertsToNothing, Called, IInv, Course, Earlier
<1>5. Course' /\ Leaving' /\ Armed'
  BY <1>1, <1>2, <1>4, CalledIInv DEF ConvertsToNothing, Course, Leaving, Armed
<1>6. Cleared'
  BY <1>1, CalledIInv DEF ConvertsToNothing, Cleared, Settled
<1>. QED  BY <1>3, <1>5, <1>6 DEF IInv

LEMMA RollbackIInv == ASSUME IInv, RollsBack \/ RollbackThrows PROVE IInv'
<1>1. CASE RollsBack
  <2>0. undone' \in 0..2 /\ effect' \in {"none", "partial", "made", "undone", "open", "doubtful"}
    BY <1>1 DEF RollsBack, Undo, IInv, TypeOK, Leaving, Armed
  <2>1. TypeOK'
    BY <1>1, <2>0 DEF RollsBack, Disarm, IInv, TypeOK
  <2>2. Course' /\ Leaving'
    BY <1>1 DEF RollsBack, IInv, Course, Leaving, AllPassed, Passed
  <2>3. Armed'
    BY <1>1 DEF RollsBack, Disarm, IInv, TypeOK, Leaving, Armed
  <2>4. Cleared'
    BY <1>1, HandlersAndCodes DEF RollsBack, Undo, Disarm, IInv, TypeOK, Cleared, Settled
  <2>. QED  BY <2>1, <2>2, <2>3, <2>4 DEF IInv
<1>2. CASE RollbackThrows
  BY <1>2 DEF RollbackThrows, UndoPartly, IInv, TypeOK, Course, Leaving, Armed, Cleared, Settled,
    AllPassed, Passed
<1>. QED  BY <1>1, <1>2

LEMMA LeavingIInv ==
  ASSUME IInv, Return \/ ReturnThrows \/ Catch \/ CatchRollsBack \/ CatchRollbackThrows
  PROVE  IInv'
<1>1. CASE Return
  BY <1>1 DEF Return, IInv, TypeOK, Course, Leaving, Armed, Cleared, Settled, AllPassed, Passed
<1>2. CASE ReturnThrows
  BY <1>2 DEF ReturnThrows, IInv, TypeOK, Course, Leaving, Armed, Cleared, Settled, AllPassed, Passed
<1>3. CASE Catch
  BY <1>3, HandlersAndCodes DEF Catch, Caught, IInv, TypeOK, Course, Leaving, Armed, Cleared, Settled,
    AllPassed, Passed
<1>4. CASE CatchRollsBack
  BY <1>4, HandlersAndCodes DEF CatchRollsBack, Caught, Undo, IInv, TypeOK, Course, Leaving, Armed,
    Cleared, Settled, AllPassed, Passed
<1>5. CASE CatchRollbackThrows
  BY <1>5, HandlersAndCodes DEF CatchRollbackThrows, Caught, UndoPartly, IInv, TypeOK, Course, Leaving,
    Armed, Cleared, Settled, AllPassed, Passed
<1>. QED  BY <1>1, <1>2, <1>3, <1>4, <1>5

LEMMA StepIInv == IInv /\ [Next]_vars => IInv'
<1>. SUFFICES ASSUME IInv, [Next]_vars PROVE IInv'
  OBVIOUS
<1>1. ASSUME NEW hook \in Hooks, Succeeds(hook) PROVE IInv'
  BY <1>1, SucceedsIInv
<1>2. ASSUME NEW hook \in Hooks, Throws(hook) PROVE IInv'
  BY <1>2, ThrowsIInv
<1>3. ASSUME NEW hook \in Hooks, NEW code \in Codes, Fails(hook, code) PROVE IInv'
  BY <1>3, FailsIInv
<1>4. CASE ConvertsToNothing
  BY <1>4, NothingIInv
<1>5. CASE RollsBack \/ RollbackThrows
  BY <1>5, RollbackIInv
<1>6. CASE Return \/ ReturnThrows \/ Catch \/ CatchRollsBack \/ CatchRollbackThrows
  BY <1>6, LeavingIInv
<1>7. CASE UNCHANGED vars
  BY <1>7 DEF vars, IInv, TypeOK, Course, Leaving, Armed, Cleared, Settled, AllPassed, Passed
<1>. QED  BY <1>1, <1>2, <1>3, <1>4, <1>5, <1>6, <1>7 DEF Next

(* IInv holds of every state of a call. *)
THEOREM Invariant == Spec => []IInv
BY InitIInv, StepIInv, PTL DEF Spec

(* Run is always at one of its places, with values of their types: no      *)
(* exception escapes it.                                                   *)
THEOREM TypeCorrect == Spec => []TypeOK
<1>1. IInv => TypeOK
  BY DEF IInv
<1>. QED  BY <1>1, Invariant, PTL

(* Whatever the hooks do, a call that is answered with an error has left   *)
(* no effect: for a compensating handler unless NotifyService threw or no  *)
(* Rollback came to its end, for a writing one unless its commit was not   *)
(* confirmed or an exception left its transaction open.                    *)
THEOREM ErrorLeavesNothingHolds == Spec => []ErrorLeavesNothing
<1>1. IInv => ErrorLeavesNothing
  BY DEF IInv, Cleared, Settled, ErrorLeavesNothing, ErrorAnswered, Answered
<1>. QED  BY <1>1, Invariant, PTL

(* The answer is success exactly when every hook did what success takes,   *)
(* and then the effect stands.                                             *)
THEOREM AnswerMatchesHooksHolds == Spec => []AnswerMatchesHooks
<1>1. AllPassed <=> /\ \A hook \in Hooks \ {"notify"} : seen[hook] = "ok"
                    /\ seen["notify"] \in {"ok", "error"}
  BY DEF AllPassed, Passed
<1>2. IInv => AnswerMatchesHooks
  BY <1>1 DEF IInv, Leaving, AnswerMatchesHooks, Answered
<1>. QED  BY <1>2, Invariant, PTL

(* No call is rolled back twice, or before its ExecuteBusiness. *)
THEOREM RollbackOnceHolds == Spec => []RollbackOnce
<1>1. IInv => RollbackOnce
  BY DEF IInv, TypeOK, Leaving, Armed, RollbackOnce
<1>. QED  BY <1>1, Invariant, PTL
=============================================================================
