--------------------------- MODULE LiveSubscriber ---------------------------
(***************************************************************************)
(* internal/base/live.go: LiveSubscriber.Run reads logs from a bounded     *)
(* channel and hands them to emit until the context is cancelled, emit     *)
(* fails, or the subscription ends with an error, a nil error or a closed  *)
(* channel.  The subscription (go-ethereum's, or any that fits             *)
(* SubscriptionClient) fills the channels and blocks while one is full; it *)
(* sends no log after it ended, and reports an error before it closes.     *)
(***************************************************************************)
EXTENDS Integers, Sequences

CONSTANTS
  BufferSize,  \* LiveConfig.BufferSize
  MaxLogs      \* bound: logs the subscription sends

ASSUME LiveAssumption == BufferSize \in Nat \ {0} /\ MaxLogs \in Nat

VARIABLES
  logs,        \* the log channel's buffer
  logsClosed,
  errs,        \* the error channel's buffer: "error" or "nil"
  errsClosed,
  cancelled,   \* ctx is done
  sent,        \* history: the number of logs sent; the n-th is log n
  ended,       \* the subscription has ended
  reported,    \* history: it ended with an error
  delivered,   \* the logs emit was called with
  late,        \* history: calls of emit that began after the cancellation
  point,       \* where Run is, or "returned"
  current,     \* the log received and not yet handed to emit, 0 for none
  left,        \* the buffered logs still to drain, -1 before finishSubscription
  terminal,    \* finishSubscription's terminalErr
  result       \* what Run returned

subscription == <<logs, logsClosed, errs, errsClosed, sent, ended, reported>>
run == <<delivered, late, point, current, left, terminal, result>>
liveVars == <<logs, logsClosed, errs, errsClosed, cancelled, sent, ended, reported, delivered, late, point, current,
              left, terminal, result>>

-----------------------------------------------------------------------------
LiveInit ==
  /\ logs = <<>> /\ logsClosed = FALSE /\ errs = <<>> /\ errsClosed = FALSE
  /\ cancelled = FALSE /\ sent = 0 /\ ended = FALSE /\ reported = FALSE
  /\ delivered = <<>> /\ late = 0 /\ point = "loop" /\ current = 0
  /\ left = -1 /\ terminal = "nil" /\ result = "none"

(* The environment *)

SendLog ==
  /\ ~ended /\ sent < MaxLogs /\ Len(logs) < BufferSize
  /\ logs' = Append(logs, sent + 1) /\ sent' = sent + 1
  /\ UNCHANGED <<logsClosed, errs, errsClosed, ended, reported, cancelled, run>>

\* It ends with an error or a nil error, with a closed error channel, or both.
EndSubscription ==
  /\ ~ended /\ ended' = TRUE
  /\ \/ errs' \in {<<"error">>, <<"nil">>} /\ errsClosed' \in BOOLEAN
     \/ errs' = <<>> /\ errsClosed' = TRUE
  /\ reported' = (errs' = <<"error">>)
  /\ UNCHANGED <<logs, logsClosed, sent, cancelled, run>>

CloseLogs ==
  /\ ended /\ ~logsClosed /\ logsClosed' = TRUE
  /\ UNCHANGED <<logs, errs, errsClosed, sent, ended, reported, cancelled, run>>

Cancel ==
  /\ ~cancelled /\ cancelled' = TRUE
  /\ UNCHANGED <<subscription, run>>

-----------------------------------------------------------------------------
(* Run.  A look at ctx.Err() is a step of its own, so the context may be   *)
(* cancelled between it and what follows: a select whose other cases are   *)
(* ready may take one of them with the context done, and a log it took is  *)
(* looked at again before emit is called.                                  *)

Return(how) ==
  /\ point' = "returned" /\ result' = how
  /\ UNCHANGED <<subscription, cancelled, delivered, late, current, left, terminal>>

\* A look at the context that finds it done, or the ctx.Done() case of a select:
\* Run returns, and drops the log it may have received.
Cancelled == cancelled /\ point \notin {"emitting", "poll", "returned"} /\ Return("cancelled")

\* A look that finds it live: Run goes from one point on to the next.
Goes(from, to) ==
  /\ point = from /\ ~cancelled /\ point' = to
  /\ UNCHANGED <<subscription, cancelled, delivered, late, current, left, terminal, result>>

Loop == Goes("loop", "select")

CheckLog == Goes("received", "emitting")

ErrorsReady == errs # <<>> \/ errsClosed

\* Receive from the error channel and enter finishSubscription; the first form, which
\* forgets what it received, is a faulty variant.
TakeErrorForgetting ==
  /\ ErrorsReady
  /\ terminal' = "nil"
  /\ errs' = IF errs = <<>> THEN errs ELSE Tail(errs)
  /\ point' = "drain" /\ left' = Len(logs)
  /\ UNCHANGED <<logs, logsClosed, errsClosed, sent, ended, reported, cancelled, delivered, late, current, result>>

TakeError ==
  /\ ErrorsReady
  /\ terminal' = IF errs = <<>> THEN "nil" ELSE Head(errs)
  /\ errs' = IF errs = <<>> THEN errs ELSE Tail(errs)
  /\ point' = "drain" /\ left' = Len(logs)
  /\ UNCHANGED <<logs, logsClosed, errsClosed, sent, ended, reported, cancelled, delivered, late, current, result>>

SelectError == point = "select" /\ TakeError

SelectLog ==
  /\ point = "select" /\ logs # <<>>
  /\ current' = Head(logs) /\ logs' = Tail(logs) /\ point' = "received"
  /\ UNCHANGED <<logsClosed, errs, errsClosed, sent, ended, reported, cancelled, delivered, late, left, terminal, result>>

\* The look at the context that follows the receive is as good as the one at
\* the end of finishSubscription, with nothing to drain in between.
SelectClosed ==
  /\ point = "select" /\ logs = <<>> /\ logsClosed
  /\ point' = "drain" /\ left' = 0 /\ terminal' = "nil"
  /\ UNCHANGED <<subscription, cancelled, delivered, late, current, result>>

\* emitLiveLog calls emit, which the context may be cancelled before or during.
EmitLiveLog ==
  /\ point = "emitting"
  /\ delivered' = Append(delivered, current) /\ current' = 0
  /\ late' = IF cancelled THEN late + 1 ELSE late
  /\ point' \in {"emitted", "failed"}
  /\ UNCHANGED <<subscription, cancelled, left, terminal, result>>

EmitFailed == point = "failed" /\ ~cancelled /\ Return("emit error")

Emitted == Goes("emitted", IF left = -1 THEN "poll" ELSE "drain")

\* After an emission Run polls the error channel before it selects again.
PollError == point = "poll" /\ TakeError

PollNothing ==
  /\ point = "poll" /\ ~ErrorsReady
  /\ point' = "loop"
  /\ UNCHANGED <<subscription, cancelled, delivered, late, current, left, terminal, result>>

-----------------------------------------------------------------------------
(* finishSubscription *)

DrainNext == left > 0 /\ Goes("drain", "receive")

\* Faulty variants stand before the definitions they would replace.
DrainSkipping ==
  /\ point = "receive"
  /\ left' = 0 /\ point' = "drain"
  /\ UNCHANGED <<subscription, cancelled, delivered, late, current, terminal, result>>

DrainUnchecked ==
  /\ point = "receive"
  /\ logs' = Tail(logs) /\ left' = left - 1 /\ point' = IF left = 1 THEN "drain" ELSE point
  /\ delivered' = Append(delivered, Head(logs)) /\ late' = IF cancelled THEN late + 1 ELSE late
  /\ UNCHANGED <<logsClosed, errs, errsClosed, sent, ended, reported, cancelled, current, terminal, result>>

DrainLog ==
  /\ point = "receive"
  /\ current' = Head(logs) /\ logs' = Tail(logs) /\ left' = left - 1 /\ point' = "received"
  /\ UNCHANGED <<logsClosed, errs, errsClosed, sent, ended, reported, cancelled, delivered, late, terminal, result>>

Terminal ==
  /\ point = "drain" /\ left = 0 /\ ~cancelled /\ terminal = "error"
  /\ Return("error")

\* Without a terminal error, what the error channel holds decides.
LastErrorsIgnored == point = "drain" /\ left = 0 /\ ~cancelled /\ terminal = "nil" /\ Return("closed")

LastErrorsAwaited ==
  /\ point = "drain" /\ left = 0 /\ ~cancelled /\ terminal = "nil" /\ ErrorsReady
  /\ Return(IF "error" \in {errs[i] : i \in 1..Len(errs)} THEN "error" ELSE "closed")

LastErrors ==
  /\ point = "drain" /\ left = 0 /\ ~cancelled /\ terminal = "nil"
  /\ Return(IF "error" \in {errs[i] : i \in 1..Len(errs)} THEN "error" ELSE "closed")

Step ==
  \/ Cancelled \/ Loop \/ SelectError \/ SelectLog \/ SelectClosed \/ CheckLog \/ EmitLiveLog
  \/ EmitFailed \/ Emitted \/ PollError \/ PollNothing \/ DrainNext \/ DrainLog \/ Terminal \/ LastErrors

LiveNext == SendLog \/ EndSubscription \/ CloseLogs \/ Cancel \/ Step

LiveSpec == LiveInit /\ [][LiveNext]_liveVars

\* Run's goroutine is scheduled and emit returns.
LiveFairSpec == LiveSpec /\ WF_liveVars(Step)

-----------------------------------------------------------------------------
(* Every log that was sent is delivered once, in order, is still in the    *)
(* buffer, or is the one Run has received; that one is dropped only when   *)
(* Run returns because the context was cancelled, and a Run that returns   *)
(* because the subscription ended has delivered them all (live.go:88-97,   *)
(* 117-133, 162-174).                                                      *)
NothingLost ==
  /\ \A i \in 1..Len(delivered) : delivered[i] = i
  /\ sent = Len(delivered) + (IF current = 0 THEN 0 ELSE 1) + Len(logs)
  /\ current # 0 => current = Len(delivered) + 1 /\ result \in {"none", "cancelled"}
  /\ result \in {"error", "closed"} => Len(delivered) = sent

(* Run tells a subscription's error from a clean end, in whichever order   *)
(* it notices the error and the closed log channel, and with logs to drain *)
(* in between (live.go:83-106, 138-159).                                   *)
ErrorReported ==
  /\ result = "closed" => ended /\ ~reported
  /\ result = "error" => reported

(* After the context is cancelled at most the one call of emit that was    *)
(* about to be made still is (live.go:119, 162-169).                       *)
CancelStops == late <= 1

(* Run returns once the context is cancelled or the subscription has ended.*)
Returns == (cancelled \/ ended) ~> (point = "returned")
=============================================================================
