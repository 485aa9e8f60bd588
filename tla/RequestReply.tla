---------------------------- MODULE RequestReply ----------------------------
(***************************************************************************)
(* What call_service() promises to the tasks that use it: a call either    *)
(* ends with an error or with the reply to that very call, never with the  *)
(* reply to another one.  There is no table, no semaphore and no link      *)
(* here; module Transactions is shown to implement this specification when *)
(* the link answers in time.                                               *)
(***************************************************************************)
EXTENDS Naturals

CONSTANTS
  Callers,   \* the tasks that call services
  MaxCalls   \* bound: calls issued in one behaviour

VARIABLES
  issued,    \* how many calls have been issued; call n is the n-th one
  call,      \* call[c]: the call c is blocked in, 0 when it is in none
  answer     \* answer[c]: how the last call of c ended

vars == <<issued, call, answer>>

Calls == 1..MaxCalls

NoReply == 0   \* the call ended with an error code

(* A finished call and the call whose reply it handed to its caller. *)
Answers == [call : Calls \cup {0}, reply : Calls \cup {NoReply}]

NoAnswer == [call |-> 0, reply |-> NoReply]

Init ==
  /\ issued = 0
  /\ call = [c \in Callers |-> 0]
  /\ answer = [c \in Callers |-> NoAnswer]

Begin(c) ==
  /\ call[c] = 0
  /\ issued < MaxCalls
  /\ issued' = issued + 1
  /\ call' = [call EXCEPT ![c] = issued + 1]
  /\ answer' = [answer EXCEPT ![c] = NoAnswer]

End(c, r) ==
  /\ call[c] # 0
  /\ call' = [call EXCEPT ![c] = 0]
  /\ answer' = [answer EXCEPT ![c] = [call |-> call[c], reply |-> r]]
  /\ UNCHANGED issued

Succeed(c) == End(c, call[c])

Fail(c) == End(c, NoReply)

Next == \E c \in Callers : Begin(c) \/ Succeed(c) \/ Fail(c)

Spec == Init /\ [][Next]_vars
=============================================================================
