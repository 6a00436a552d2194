----------------------------- MODULE PropStore -----------------------------
(***************************************************************************)
(* What a property daemon promises the clients of one storage: a map from  *)
(* keys to values on which gets, sets and deletions act atomically, at     *)
(* some moment between the request and its answer.  A request may fail, in *)
(* which case it has had no effect.                                        *)
(***************************************************************************)
CONSTANTS Threads, Keys, Values, NoValue

VARIABLES
  value,    \* value[k], NoValue if k has none
  request,  \* request[t]: what t was asked, NoRequest if nothing
  answer    \* answer[t]: "none" before the request has taken effect

absVars == <<value, request, answer>>

NoRequest == [op |-> "none"]
Requests ==
  [op : {"get", "del"}, key : Keys] \cup [op : {"set"}, key : Keys, value : Values]

Init ==
  /\ value \in [Keys -> Values \cup {NoValue}]
  /\ request = [t \in Threads |-> NoRequest]
  /\ answer = [t \in Threads |-> "none"]

Ask(t, r) ==
  /\ request[t] = NoRequest
  /\ request' = [request EXCEPT ![t] = r]
  /\ UNCHANGED <<value, answer>>

Answer(t, a) ==
  /\ request[t] # NoRequest
  /\ answer[t] = "none"
  /\ answer' = [answer EXCEPT ![t] = a]
  /\ UNCHANGED request

Get(t) ==
  /\ request[t].op = "get"
  /\ value[request[t].key] # NoValue
  /\ Answer(t, value[request[t].key])
  /\ UNCHANGED value

Set(t) ==
  /\ request[t].op = "set"
  /\ Answer(t, "ok")
  /\ value' = [value EXCEPT ![request[t].key] = request[t].value]

Del(t) ==
  /\ request[t].op = "del"
  /\ Answer(t, "ok")
  /\ value' = [value EXCEPT ![request[t].key] = NoValue]

Fail(t) ==
  /\ Answer(t, "error")
  /\ UNCHANGED value

Return(t) ==
  /\ answer[t] # "none"
  /\ request' = [request EXCEPT ![t] = NoRequest]
  /\ answer' = [answer EXCEPT ![t] = "none"]
  /\ UNCHANGED value

Next ==
  \E t \in Threads :
    \/ \E r \in Requests : Ask(t, r)
    \/ Get(t) \/ Set(t) \/ Del(t) \/ Fail(t)
    \/ Return(t)

Spec == Init /\ [][Next]_absVars
=============================================================================
