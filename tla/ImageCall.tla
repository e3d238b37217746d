----------------------------- MODULE ImageCall -----------------------------
(* What a stage relies on when it awaits the ComfyUI adapter: a call ends, *)
(* once, with an error or with a picture of what that call was given.      *)

CONSTANTS Callers

VARIABLE answer    \* of each call: none yet, an error, or whose picture

vars == <<answer>>

Pending == [kind |-> "pending"]
Error == [kind |-> "error"]
Picture(c) == [kind |-> "picture", of |-> c]

Init == answer = [c \in Callers |-> Pending]

Return(c) ==
  /\ answer[c] = Pending
  /\ answer' = [answer EXCEPT ![c] = Picture(c)]

Raise(c) ==
  /\ answer[c] = Pending
  /\ answer' = [answer EXCEPT ![c] = Error]

Next == \E c \in Callers : Return(c) \/ Raise(c)

Spec == Init /\ [][Next]_vars /\ \A c \in Callers : WF_vars(Return(c) \/ Raise(c))
=============================================================================
