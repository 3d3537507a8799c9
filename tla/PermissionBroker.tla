--------------------------- MODULE PermissionBroker ---------------------------
(***************************************************************************)
(* api/permission_broker.py: one future per approval request that some     *)
(* turn awaits.  An entry is in _pending from register() until wait()'s    *)
(* finally; in between its future is settled at most once, by the response *)
(* of any connection or by the timer.  A decision list is reduced to "were *)
(* the calls approved".  _early is never written by the code.              *)
(***************************************************************************)
CONSTANT Requests

VARIABLE pending  \* [Requests -> Entries]

Verdicts == {"approved", "denied"}
Entries  == {"absent", "open"} \cup Verdicts

NothingPending == [r \in Requests |-> "absent"]

\* register(), with its timer armed.
Register(r) == pending' = [pending EXCEPT ![r] = "open"]

Settled(r) == pending[r] \in Verdicts

\* A slip: a second response overwrites the first.
ResolveTwice(r, verdict) ==
  /\ pending[r] # "absent"
  /\ pending' = [pending EXCEPT ![r] = verdict]

\* resolve(): TRUE exactly when the request is known and not settled.
Resolve(r, verdict) ==
  /\ pending[r] = "open"
  /\ pending' = [pending EXCEPT ![r] = verdict]

\* A slip: future.done() tested the wrong way round.
TimesOutLate(r) ==
  /\ Settled(r)
  /\ pending' = [pending EXCEPT ![r] = "denied"]

\* A slip: the future gets no decision list.
TimesOutBlank(r) ==
  /\ pending[r] = "open"
  /\ pending' = [pending EXCEPT ![r] = "none"]

\* A slip: the timer lets the calls through.
TimesOutOpen(r) ==
  /\ pending[r] = "open"
  /\ pending' = [pending EXCEPT ![r] = "approved"]

\* _on_timeout: deny all.
TimesOut(r) ==
  /\ pending[r] = "open"
  /\ pending' = [pending EXCEPT ![r] = "denied"]

\* A slip: no finally.
DiscardNothing(r) == UNCHANGED pending /\ r \in Requests

\* wait()'s finally, also when the waiter is cancelled.
Discard(r) == pending' = [pending EXCEPT ![r] = "absent"]

\* pending_for over the requests rs of a conversation.
PendingFor(rs) == \E r \in rs : pending[r] = "open"
===============================================================================
