--------------------------- MODULE MailboxService ---------------------------
(***************************************************************************)
(* What a mailbox channel promises its callers (spec sections 3, 6 and 8): *)
(* send calls are made one after another; each is refused with an error,  *)
(* fails with -ENOSPC, or is accepted; the callback of a call runs at     *)
(* most once, with the call's own response, or with the NULL cancellation *)
(* when the channel is destroyed; destruction cancels every accepted call *)
(* still unanswered at once, and after it nothing more happens.  Calls    *)
(* that keep running return, and accepted calls are eventually answered  *)
(* unless the channel is destroyed first.                                 *)
(*                                                                         *)
(* status[k] is where send call k stands:                                  *)
(*   "none"      not yet made                                              *)
(*   "sending"   inside xdna_mailbox_send_msg, its record allocated        *)
(*   "accepted"  returned 0, callback not yet run                          *)
(*   "refused"   returned -EINVAL or an id allocation error               *)
(*   "failed"    returned -ENOSPC, record freed without the callback       *)
(*   "replied"   callback ran with the response to this call               *)
(*   "cancelled" callback ran with NULL data at channel destruction        *)
(***************************************************************************)
EXTENDS Naturals

CONSTANT Calls          \* the send calls, 1 .. N

VARIABLES status, open

svcVars == <<status, open>>

Status == {"none", "sending", "accepted", "refused", "failed", "replied",
           "cancelled"}

Init ==
  /\ status = [k \in Calls |-> "none"]
  /\ open = TRUE

\* Call k is the next one made.
Begin(k) ==
  /\ open
  /\ status[k] = "none"
  /\ \A j \in Calls : j < k => status[j] # "none"

Send(k) ==
  /\ Begin(k)
  /\ status' = [status EXCEPT ![k] = "sending"]
  /\ UNCHANGED open

Refuse(k) ==
  /\ Begin(k)
  /\ status' = [status EXCEPT ![k] = "refused"]
  /\ UNCHANGED open

Accept(k) ==
  /\ status[k] = "sending"
  /\ status' = [status EXCEPT ![k] = "accepted"]
  /\ UNCHANGED open

Fail(k) ==
  /\ status[k] = "sending"
  /\ status' = [status EXCEPT ![k] = "failed"]
  /\ UNCHANGED open

\* The response may come before the send call has returned.
Reply(k) ==
  /\ open
  /\ status[k] \in {"sending", "accepted"}
  /\ status' = [status EXCEPT ![k] = "replied"]
  /\ UNCHANGED open

\* Destruction, which callers start only when no send call is running.
Close ==
  /\ open
  /\ \A k \in Calls : status[k] # "sending"
  /\ status' = [k \in Calls |->
                  IF status[k] = "accepted" THEN "cancelled" ELSE status[k]]
  /\ open' = FALSE

Next ==
  \/ \E k \in Calls : Send(k) \/ Refuse(k) \/ Accept(k) \/ Fail(k) \/ Reply(k)
  \/ Close

\* A running send call returns; an accepted one is answered while the
\* channel is open.
Spec ==
  /\ Init /\ [][Next]_svcVars
  /\ \A k \in Calls : WF_svcVars(Accept(k) \/ Fail(k) \/ Reply(k))

=============================================================================
