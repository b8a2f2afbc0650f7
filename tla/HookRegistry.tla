---------------------------- MODULE HookRegistry ----------------------------
(***************************************************************************)
(* What the inline-hook API promises its callers, whatever array, page and *)
(* thread bookkeeping implements it: a set of registered functions, the    *)
(* subset of them that is hooked, and an answer to every call that is true *)
(* at the moment the call returns.  InlineHook implements this module.     *)
(***************************************************************************)

CONSTANT Target     \* the functions callers may ask to hook

VARIABLES
  registered,       \* functions with an inlineHookItem
  hooked,           \* functions whose entry is redirected
  answer            \* the last call and the code it returned

regVars == <<registered, hooked, answer>>

NoCall == [call |-> "none"]

(* The answers of the API that are truthful for a set reg of registered    *)
(* and a set hkd of hooked functions.  registerInlineHook returns OK only  *)
(* after adding the function, inlineHook returns OK only when the function *)
(* is hooked, inlineUnHook only when it is gone; the two "All" calls       *)
(* return nothing, and leave nothing undone.                               *)
Truthful(a, reg, hkd) ==
  \/ \E t \in Target :
       \/ a = [call |-> "register", fn |-> t, ret |-> "NOT_EXECUTABLE"]
       \/ a = [call |-> "register", fn |-> t, ret |-> "OK"] /\ t \in reg \ hkd
       \/ a = [call |-> "register", fn |-> t, ret |-> "ALREADY_REGISTERED"]
          /\ t \in reg \ hkd
       \/ a = [call |-> "register", fn |-> t, ret |-> "ALREADY_HOOKED"]
          /\ t \in hkd
       \/ a = [call |-> "hook", fn |-> t, ret |-> "OK"] /\ t \in hkd
       \/ a = [call |-> "hook", fn |-> t, ret |-> "ALREADY_HOOKED"] /\ t \in hkd
       \/ a = [call |-> "hook", fn |-> t, ret |-> "NOT_REGISTERED"] /\ t \notin reg
       \/ a = [call |-> "unhook", fn |-> t, ret |-> "OK"] /\ t \notin reg
       \/ a = [call |-> "unhook", fn |-> t, ret |-> "NOT_HOOKED"] /\ t \notin hkd
  \/ a = [call |-> "hookAll"] /\ hkd = reg
  \/ a = [call |-> "unhookAll"] /\ hkd = {}

RegInit ==
  /\ registered = {}
  /\ hooked = {}
  /\ answer = NoCall

Add(t) ==
  /\ t \notin registered
  /\ registered' = registered \cup {t}
  /\ hooked' = hooked
  /\ Truthful(answer', registered', hooked')

Enable(t) ==
  /\ t \in registered \ hooked
  /\ hooked' = hooked \cup {t}
  /\ UNCHANGED <<registered, answer>>

Remove(t) ==
  /\ t \in hooked
  /\ registered' = registered \ {t}
  /\ hooked' = hooked \ {t}
  /\ UNCHANGED answer

Reply ==
  /\ UNCHANGED <<registered, hooked>>
  /\ Truthful(answer', registered, hooked)

RegNext ==
  \/ \E t \in Target : Add(t) \/ Enable(t) \/ Remove(t)
  \/ Reply

RegSpec == RegInit /\ [][RegNext]_regVars
=============================================================================
