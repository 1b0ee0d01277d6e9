---------------------------- MODULE CallResults ----------------------------
(***************************************************************************)
(* The results of nh.Execute (internal/nh/client.go) a caller tells apart. *)
(***************************************************************************)

\* "partial" is the response of an execution that was cancelled, "error" one
\* that carries an error detail.
Outcomes == {"unknown", "refused", "complete", "error", "partial"}

\* "ok": a response and no error. "reported": a response and the failure the
\* engine reported. "stopped": a response and the cancellation. "cancelled":
\* the cancellation only. "busy": a *BusyError. "failed": any other error.
Results == {"ok", "reported", "stopped", "cancelled", "busy", "failed"}

\* Whether a call may return r.
MayReturn(r, end, out) ==
    \/ r = "ok" /\ out = "complete"
    \/ r = "reported" /\ out = "error"
    \/ r = "stopped" /\ end /\ out \in {"complete", "error", "partial"}
    \/ r = "cancelled" /\ end
    \/ r = "busy" /\ out = "refused"
    \/ r = "failed"

=============================================================================
