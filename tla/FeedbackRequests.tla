-------------------------- MODULE FeedbackRequests --------------------------
(* The contract between the ending of a meeting and the analysis of its      *)
(* feedback: what becomes of a feedback row and of the one message that asks *)
(* for its analysis.  The message is due, issued, in the queue at the        *)
(* broker, out with the consumer, or done with; the process may stop, which  *)
(* loses what the broker does not have and returns what was out.             *)
(*                                                                           *)
(* Interview implements the first half and FeedbackAnalysis the second; how  *)
(* their turns, rows and handlers bring it about is left out here.           *)
EXTENDS Sequences

VARIABLES
  rows,       \* feedbacks inserted so far
  preparing,  \* those whose row is there and in preparation
  due,        \* those whose meeting is about to request the analysis
  issued,     \* messages issued, not yet at the broker
  queue,      \* messages at the broker, oldest first
  out,        \* the message out for acknowledgement, if any
  done,       \* messages acknowledged
  stopped     \* whether the process ever stopped

vars == <<rows, preparing, due, issued, queue, out, done, stopped>>

Init ==
  /\ rows = {} /\ preparing = {}
  /\ due = {} /\ issued = {}
  /\ queue = <<>> /\ out = <<>>
  /\ done = {}
  /\ stopped = FALSE

(* One more row; its message is due, or issued along with it.                *)
Insert ==
  /\ \E f \in rows' \ rows :
       /\ rows' = rows \cup {f}
       /\ preparing' = preparing \cup {f}
       /\ \/ due' = due \cup {f} /\ issued' = issued
          \/ due' = due /\ issued' = issued \cup {f}
  /\ UNCHANGED <<queue, out, done, stopped>>

Request ==
  /\ \E f \in due : due' = due \ {f} /\ issued' = issued \cup {f}
  /\ UNCHANGED <<rows, preparing, queue, out, done, stopped>>

Publish ==
  /\ \E f \in issued : issued' = issued \ {f} /\ queue' = Append(queue, f)
  /\ UNCHANGED <<rows, preparing, due, out, done, stopped>>

(* One message at a time, in the order they came.                            *)
Deliver ==
  /\ out = <<>> /\ queue # <<>>
  /\ out' = <<Head(queue)>>
  /\ queue' = Tail(queue)
  /\ UNCHANGED <<rows, preparing, due, issued, done, stopped>>

(* The feedback whose message is out gets its result.                        *)
Resolve ==
  /\ out # <<>>
  /\ preparing' = preparing \ {Head(out)}
  /\ UNCHANGED <<rows, due, issued, queue, out, done, stopped>>

Acknowledge ==
  /\ out # <<>>
  /\ done' = done \cup {Head(out)}
  /\ out' = <<>>
  /\ UNCHANGED <<rows, preparing, due, issued, queue, stopped>>

(* The cleanup deletes a row, wherever its message is.                       *)
Discard ==
  /\ \E f \in preparing : preparing' = preparing \ {f}
  /\ UNCHANGED <<rows, due, issued, queue, out, done, stopped>>

Stop ==
  /\ due' = {} /\ issued' = {}
  /\ queue' = out \o queue /\ out' = <<>>
  /\ stopped' = TRUE
  /\ UNCHANGED <<rows, preparing, done>>

Next ==
  \/ Insert \/ Request \/ Publish
  \/ Deliver \/ Resolve \/ Acknowledge
  \/ Discard \/ Stop

Spec == Init /\ [][Next]_vars

-----------------------------------------------------------------------------
(* Properties *)

Elements(s) == {s[i] : i \in DOMAIN s}

(* The message of a feedback is in one place: it is never requested twice,   *)
(* in the queue twice, or delivered again once it was acknowledged.          *)
OnePlace ==
  /\ due \cap issued = {}
  /\ (due \cup issued) \cap (Elements(queue) \cup Elements(out)) = {}
  /\ (due \cup issued) \cap done = {}
  /\ Elements(queue) \cap Elements(out) = {}
  /\ (Elements(queue) \cup Elements(out)) \cap done = {}
  /\ \A i, j \in DOMAIN queue : i # j => queue[i] # queue[j]

(* A feedback in preparation has its message somewhere, unless the process   *)
(* stopped: none waits for an analysis that nobody asks for.                 *)
NoneForgotten ==
  stopped \/ preparing \subseteq
    due \cup issued \cup Elements(queue) \cup Elements(out) \cup done
=============================================================================
