------------------------------- MODULE Service -------------------------------
(***************************************************************************)
(* ts/client/services/base.ts: a service whose run loop is started and     *)
(* stopped by asynchronous calls.  Nothing but the state field ties them   *)
(* together: a call of stop sets it and waits until the loop has seen it.  *)
(***************************************************************************)
EXTENDS Integers

\* How many loops run and how many calls of stop wait.
NewService == [state |-> "STOPPED", loops |-> 0, stops |-> 0]

isStopped(service) == service.state = "STOPPED"

\* start only logs that the service is not stopped.
startService(service) == [service EXCEPT !.state = "RUNNING", !.loops = @ + 1]

stopService(service) == [service EXCEPT !.state = "STOPPING", !.stops = @ + 1]

\* onRun returns: the loop goes on, or ends if it is to.
RunOver(service, after) ==
  /\ service.loops > 0
  /\ service.state = "STOPPING"
  /\ after = [service EXCEPT !.state = "FINISHED", !.loops = @ - 1]

\* onRun throws, which nobody catches.
RunFails(service, after) ==
  /\ service.loops > 0
  /\ after = [service EXCEPT !.loops = @ - 1]

\* A waiting call of stop sees that the loop has ended.
StopOver(service, after) ==
  /\ service.stops > 0
  /\ service.state = "FINISHED"
  /\ after = [service EXCEPT !.state = "STOPPED", !.stops = @ - 1]
=============================================================================
