----------------------------- MODULE TcpClient -----------------------------
(***************************************************************************)
(* TcpBenchmarkClientImpl: a fixed pool of slots over plain TCP. A slot's  *)
(* connection ("link") is reopened when it closes and, after a number of   *)
(* messages, replaced by a standby while its outstanding echoes come in.   *)
(*                                                                         *)
(* Everything runs on one dispatcher: an action is one of its callbacks,   *)
(* or a call of the worker between two runs of it. A close with NoFlush    *)
(* raises the close event before it returns, so the link is let go of in   *)
(* the same step; one with FlushWrite leaves it Closed until CloseEvent.   *)
(* Bytes are abstracted to "the exact echo" and "anything else", the       *)
(* backoff, from 10 ms doubling to a second, to "some time later".         *)
(***************************************************************************)
EXTENDS Integers, FiniteSets, FiniteSetsExt

CONSTANTS
    Connections,  \* connection_count_
    MaxInflight,  \* max_inflight_per_connection_
    RotateAfter,  \* max_messages_per_connection_, 0 for never
    MaxOpens,     \* bound: connects attempted
    MaxSends      \* bound: messages sent

VARIABLES
    phase,         \* where the worker is with this client
    exiting,       \* maybeExitWaitLoop has asked the dispatcher to exit
    expectEcho,    \* expect_echo_
    link,          \* every link there is, by an id; NoLink for a free id
    retry,         \* the slots whose retry timer is enabled
    nextSlot, pendingOpens,
    attempts,      \* history: connects attempted
    opened, initials, reconnects, rotated,   \* connection counters
    sent, received, lost                     \* message counters

conns == <<retry, pendingOpens, attempts, opened, initials, reconnects, rotated>>
messages == <<nextSlot, sent, received, lost>>
vars == <<phase, exiting, expectEcho, link, conns, messages>>

Slots == 0 .. Connections - 1
LinkIds == 1 .. MaxOpens

NoLink == [slot |-> 0, role |-> "none", state |-> "closed", initial |-> FALSE,
           pending |-> FALSE, inflight |-> 0, sent |-> 0, blocked |-> FALSE]
NewLink(s, role, initial) ==
    [NoLink EXCEPT !.slot = s, !.role = role, !.state = "connecting",
                   !.initial = initial, !.pending = initial]

Links == {l \in LinkIds : link[l].role # "none"}
In(s, role) == {l \in Links : link[l].slot = s /\ link[l].role = role}
ActiveOpen(s) == \E l \in In(s, "active") : link[l].state = "open"
Outstanding(f) == MapThenSumSet(LAMBDA l : f[l].inflight, LinkIds)
FreeId(f) == Min({l \in LinkIds : f[l].role = "none"})
Finished == phase \in {"draining", "finished", "terminated"}

TypeOK ==
    /\ phase \in {"new", "preparing", "running", "draining", "finished", "terminated"}
    /\ exiting \in BOOLEAN /\ expectEcho \in BOOLEAN
    /\ link \in [LinkIds -> [slot : Slots, role : {"none", "active", "standby", "retiring"},
                             state : {"connecting", "open", "retiring", "closed"},
                             initial : BOOLEAN, pending : BOOLEAN, inflight : 0 .. MaxInflight,
                             sent : 0 .. RotateAfter, blocked : BOOLEAN]]
    /\ retry \subseteq Slots /\ nextSlot \in Slots
    /\ pendingOpens = Cardinality({l \in Links : link[l].pending})
    /\ {attempts, opened, initials, reconnects, rotated, sent, received, lost} \subseteq Nat

Init ==
    /\ phase = "new" /\ exiting = FALSE /\ expectEcho \in BOOLEAN
    /\ link = [l \in LinkIds |-> NoLink]
    /\ retry = {} /\ nextSlot = 0 /\ pendingOpens = 0
    /\ attempts = 0 /\ opened = 0 /\ initials = 0 /\ reconnects = 0 /\ rotated = 0
    /\ sent = 0 /\ received = 0 /\ lost = 0

\* prepare: one connect per slot; `reached` are those the cluster gave a connection for.
Prepare ==
    /\ phase = "new"
    /\ \E reached \in SUBSET Slots :
         /\ link' = [l \in LinkIds |-> IF l - 1 \in reached
                                       THEN NewLink(l - 1, "active", TRUE) ELSE NoLink]
         /\ retry' = Slots \ reached
         /\ pendingOpens' = Cardinality(reached)
         /\ attempts' = Cardinality(reached)
         /\ phase' = IF reached = {} THEN "running" ELSE "preparing"
    /\ UNCHANGED <<exiting, expectEcho, opened, initials, reconnects, rotated, messages>>

\* The dispatcher's run of prepare() returns.
PrepareReturns ==
    /\ phase = "preparing" /\ exiting
    /\ phase' = "running" /\ exiting' = FALSE
    /\ UNCHANGED <<expectEcho, link, conns, messages>>

\* Fault: the drain is not told that its last message is gone.
ExitOnOpensOnly == exiting' = (exiting \/ (phase = "preparing" /\ pendingOpens' = 0))
MaybeExitWaitLoop ==
    exiting' = \/ exiting
               \/ phase = "preparing" /\ pendingOpens' = 0
               \/ phase = "draining" /\ Outstanding(link') = 0

ScheduleRetry(slots) == retry' = IF Finished THEN retry ELSE retry \cup slots

\* A connection for the slot, or none to be had: the latter is retried.
Open(f, s, role) ==
    \/ /\ attempts < MaxOpens
       /\ link' = [f EXCEPT ![FreeId(f)] = NewLink(s, role, FALSE)]
       /\ attempts' = attempts + 1
       /\ retry' = retry \ {s}
    \/ /\ link' = f
       /\ retry' = retry \cup {s}
       /\ UNCHANGED attempts

RotationDue(r) == RotateAfter > 0 /\ r.sent >= RotateAfter

\* Which role connectNext opens a link for, "none" when it opens nothing.
ConnectNext(f, s) ==
    LET active == {l \in LinkIds : f[l].role = "active" /\ f[l].slot = s}
    IN  IF In(s, "standby") # {} THEN "none"
        ELSE IF active = {} THEN "active"
        ELSE IF \E l \in active : f[l].state = "open" /\ RotationDue(f[l]) THEN "standby"
        ELSE "none"

RetryRuns(s) ==
    /\ s \in retry /\ ~Finished
    /\ LET role == ConnectNext(link, s)
       IN  IF role = "none"
           THEN retry' = retry \ {s} /\ UNCHANGED <<link, attempts>>
           ELSE Open(link, s, role)
    /\ UNCHANGED <<phase, exiting, expectEcho, pendingOpens, opened, initials, reconnects,
                   rotated, messages>>

\* initialAttemptDone: the first connects among the links in ls.
FirstAttempts(ls) == Cardinality({l \in ls : link[l].pending})
\* Fault: what a retiring link had outstanding is not counted.
LostActive(ls) ==
    MapThenSumSet(LAMBDA l : link[l].inflight, {l \in ls : link[l].role = "active"})
\* completeInflight without success.
LostWith(ls) == MapThenSumSet(LAMBDA l : link[l].inflight, ls)
EndOf(ls) ==
    /\ pendingOpens' = pendingOpens - FirstAttempts(ls)
    /\ lost' = lost + LostWith(ls)

Without(ls) == [l \in LinkIds |-> IF l \in ls THEN NoLink ELSE link[l]]
\* Nothing but its place is read of a link that is Closed.
Closed(r) == [NoLink EXCEPT !.slot = r.slot, !.role = r.role]

\* The link the standby replaces: it waits for its echoes, or closes at once.
Retire(r) ==
    IF r.state = "open" /\ r.inflight > 0
    THEN [r EXCEPT !.role = "retiring", !.state = "retiring", !.blocked = FALSE]
    ELSE [Closed(r) EXCEPT !.role = "retiring"]
RotationOf(old) == IF old = {} THEN 0 ELSE 1
\* Fault: the standby takes its place before it is marked as open.
PromotedUnopened(r) == [r EXCEPT !.role = "active"]
Promoted(r) == [r EXCEPT !.state = "open", !.role = "active"]
Promote(l) ==
    LET s == link[l].slot
        old == In(s, "active")
    IN  /\ link' = [k \in LinkIds |->
                      IF k = l THEN Promoted(link[l])
                      ELSE IF k \in old THEN Retire(link[k]) ELSE link[k]]
        /\ retry' = retry \ {s}
        /\ rotated' = rotated + RotationOf(old)
        /\ reconnects' = reconnects + (IF old = {} THEN 1 ELSE 0)
        /\ UNCHANGED <<pendingOpens, initials>>

\* onEvent(Connected).
OnConnected(l) ==
    /\ link[l].state = "connecting"
    /\ opened' = opened + 1
    /\ IF link[l].role = "standby"
       THEN Promote(l)
       ELSE /\ link' = [link EXCEPT ![l] = [@ EXCEPT !.state = "open", !.pending = FALSE,
                                                      !.initial = FALSE]]
            /\ pendingOpens' = pendingOpens - (IF link[l].pending THEN 1 ELSE 0)
            /\ initials' = initials + (IF link[l].initial THEN 1 ELSE 0)
            /\ reconnects' = reconnects + (IF link[l].initial THEN 0 ELSE 1)
            /\ UNCHANGED <<retry, rotated>>
    /\ MaybeExitWaitLoop
    /\ UNCHANGED <<phase, expectEcho, attempts, messages>>

\* The slot to reconnect after a close nobody here asked for.
RetryAfterClose(r) == IF r.role = "retiring" THEN {} ELSE {r.slot}
\* onEvent(RemoteClose) of a link nobody here closed, whatever it was doing.
OnRemoteClose(l) ==
    /\ l \in Links /\ link[l].state # "closed"
    /\ EndOf({l})
    /\ link' = Without({l})
    /\ ScheduleRetry(RetryAfterClose(link[l]))
    /\ MaybeExitWaitLoop
    /\ UNCHANGED <<phase, expectEcho, attempts, opened, initials, reconnects, rotated,
                   nextSlot, sent, received>>

\* The close event of a flush that is done.
CloseEvent(l) ==
    /\ phase \in {"preparing", "running", "draining"}
    /\ l \in Links /\ link[l].state = "closed"
    /\ link' = Without({l})
    /\ UNCHANGED <<phase, expectEcho, conns, messages>>
    /\ MaybeExitWaitLoop

\* The connect timed out, or the echoes a retired link waited for did not come.
OnTimer(l) ==
    /\ link[l].state \in {"connecting", "retiring"}
    /\ EndOf({l})
    /\ link' = Without({l})
    /\ ScheduleRetry(IF link[l].state = "connecting" THEN {link[l].slot} ELSE {})
    /\ MaybeExitWaitLoop
    /\ UNCHANGED <<phase, expectEcho, attempts, opened, initials, reconnects, rotated,
                   nextSlot, sent, received>>

\* A message for the next slot. Without an open, unblocked link that has room it is dropped.
TryStartRequest ==
    /\ phase = "running"
    /\ nextSlot' = (nextSlot + 1) % Connections
    /\ LET s == nextSlot
           usable == {l \in In(s, "active") : /\ link[l].state = "open"
                                              /\ ~link[l].blocked
                                              /\ link[l].inflight < MaxInflight}
       IN  \/ usable = {} /\ UNCHANGED <<link, retry, attempts, sent>>
           \/ \E l \in usable :
                LET after == [link EXCEPT ![l].inflight = @ + (IF expectEcho THEN 1 ELSE 0),
                                          ![l].sent = IF @ < RotateAfter THEN @ + 1 ELSE @]
                IN  /\ sent < MaxSends /\ sent' = sent + 1
                    /\ IF s \notin retry /\ ConnectNext(after, s) = "standby"
                       THEN Open(after, s, "standby")
                       ELSE link' = after /\ UNCHANGED <<retry, attempts>>
    /\ UNCHANGED <<phase, exiting, expectEcho, pendingOpens, opened, initials, reconnects,
                   rotated, received, lost>>

\* onData with an exact echo of the oldest outstanding message.
OnEcho(l) ==
    /\ link[l].state \in {"open", "retiring"} /\ link[l].inflight > 0
    /\ received' = received + 1
    /\ LET r == [link[l] EXCEPT !.inflight = @ - 1]
       IN  link' = [link EXCEPT ![l] = IF r.state = "retiring" /\ r.inflight = 0
                                       THEN Closed(r) ELSE r]
    /\ UNCHANGED <<phase, expectEcho, conns, nextSlot, sent, lost>>
    /\ MaybeExitWaitLoop

\* Bytes that are no echo of what is outstanding: nothing more is matched on this link.
OnEchoMismatch(l) ==
    /\ expectEcho /\ link[l].state \in {"open", "retiring"}
    /\ EndOf({l})
    /\ link' = Without({l})
    /\ ScheduleRetry(IF link[l].role = "active" THEN {link[l].slot} ELSE {})
    /\ MaybeExitWaitLoop
    /\ UNCHANGED <<phase, expectEcho, attempts, opened, initials, reconnects, rotated,
                   nextSlot, sent, received>>

\* The watermark callbacks; the flag is only read of an open link.
OnWriteBlocked(l) ==
    /\ link[l].state = "open"
    /\ link' = [link EXCEPT ![l].blocked = ~@]
    /\ UNCHANGED <<phase, exiting, expectEcho, conns, messages>>

\* finish() after its wait: what the drain did not bring is lost, every link closes.
CloseAll(f) == [l \in LinkIds |-> IF f[l].role = "none" THEN NoLink ELSE Closed(f[l])]

Finish ==
    /\ phase = "running"
    /\ retry' = {}
    /\ LET connecting == {l \in Links : link[l].state = "connecting"}
           kept == Without(connecting)
       IN  /\ EndOf(connecting)
           /\ IF Outstanding(kept) > 0
              THEN phase' = "draining" /\ link' = kept
              ELSE phase' = "finished" /\ link' = CloseAll(kept)
    /\ UNCHANGED <<exiting, expectEcho, attempts, opened, initials, reconnects, rotated,
                   nextSlot, sent, received>>

\* Fault: the drain timer is not started.
DrainOverUntimed == phase = "draining" /\ exiting
\* The drain's run of the dispatcher returns: on the drain timer, or asked to before.
DrainOver == phase = "draining"
DrainReturns ==
    /\ DrainOver
    /\ phase' = "finished" /\ exiting' = FALSE
    /\ EndOf(Links)
    /\ link' = CloseAll(link)
    /\ UNCHANGED <<expectEcho, retry, attempts, opened, initials, reconnects, rotated,
                   nextSlot, sent, received>>

\* terminate() cuts short the flushes that are not done.
Terminate ==
    /\ phase = "finished"
    /\ phase' = "terminated"
    /\ link' = [l \in LinkIds |-> NoLink]
    /\ UNCHANGED <<exiting, expectEcho, conns, messages>>

Next ==
    \/ Prepare \/ PrepareReturns \/ TryStartRequest
    \/ Finish \/ DrainReturns \/ Terminate
    \/ \E s \in Slots : RetryRuns(s)
    \/ \E l \in LinkIds :
         \/ OnConnected(l) \/ OnRemoteClose(l) \/ CloseEvent(l) \/ OnTimer(l)
         \/ OnEcho(l) \/ OnEchoMismatch(l) \/ OnWriteBlocked(l)

Spec == Init /\ [][Next]_vars

\* The dispatcher's timers run, and a run of it that was asked to exit returns.
Fairness ==
    /\ \A l \in LinkIds : WF_vars(OnTimer(l))
    /\ WF_vars(PrepareReturns) /\ WF_vars(DrainReturns)

FairSpec == Spec /\ Fairness

(***************************************************************************)
(* Properties                                                              *)
(***************************************************************************)
\* Every message sent with an echo expected is received, lost or outstanding, whatever closes,
\* rotates or stops its link; after finish() none is outstanding (tcp_messages_sent_,
\* tcp_messages_received_, tcp_inflight_lost_).
MessagesAddUp ==
    /\ expectEcho => sent = received + lost + Outstanding(link)
    /\ phase \in {"finished", "terminated"} => Outstanding(link) = 0

\* Every connection that opened was a slot's first, a reconnect or a rotation, and only one of
\* them (tcp_connections_opened_, tcp_reconnects_, tcp_connections_rotated_).
ConnectionsAddUp == opened = initials + reconnects + rotated

\* While the client runs no slot is given up: it has a connection, one connecting, or a retry
\* pending; a standby only ever connects, and never beside an active link that does too.
NoSlotStranded ==
    phase \in {"preparing", "running"} =>
        \A s \in Slots :
            /\ In(s, "active") \cup In(s, "standby") = {} => s \in retry
            /\ Cardinality(In(s, "active")) <= 1 /\ Cardinality(In(s, "standby")) <= 1
            /\ \A l \in In(s, "standby") : link[l].state = "connecting"
            /\ In(s, "standby") # {} => \A l \in In(s, "active") : link[l].state = "open"

\* A wait whose condition is met has asked the dispatcher to exit: finish() does not sit out
\* its drain window, nor prepare() its connects' timeouts, for nothing.
NoIdleWait ==
    /\ phase = "preparing" /\ pendingOpens = 0 => exiting
    /\ phase = "draining" /\ Outstanding(link) = 0 => exiting

\* A rotation drops nothing: no message is lost to it and every slot that could send still can.
RotationDropsNothing ==
    rotated' # rotated =>
         /\ Outstanding(link') = Outstanding(link)
         /\ \A s \in Slots : ActiveOpen(s) => ActiveOpen(s)'
=============================================================================
