---------------------------- MODULE PullContract -----------------------------
(***************************************************************************)
(* What the dartdoc of PullSubscriber, PullQueryable and PullReplies       *)
(* promises of tryRecv() and recv(), with no threads, no tee and no port:  *)
(*                                                                         *)
(*   - tryRecv answers at once: the oldest value, empty, or disconnected;  *)
(*   - recv waits: it never answers empty, one recv waits at a time, and   *)
(*     an interleaved tryRecv may win the value;                           *)
(*   - a fifo hands over everything it accepted before it disconnects, a   *)
(*     ring keeps the newest values and discards them on disconnection;    *)
(*   - close() answers a waiting recv disconnected.                        *)
(***************************************************************************)
EXTENDS Naturals, Sequences

CONSTANT Capacity

VARIABLES
  kind,      (* "ring" or "fifo", fixed by the declaration                *)
  buf,       (* accepted and not yet handed over, oldest first             *)
  accepted,  (* how many values were accepted                              *)
  alive,     (* the producer is alive                                      *)
  open,      (* close() has not been called                                *)
  waiting,   (* a recv() has not completed                                 *)
  out        (* the last answer                                            *)

vars == <<kind, buf, accepted, alive, open, waiting, out>>

Answer(k)  == [kind |-> k, val |-> 0]
DataOf(v)  == [kind |-> "data", val |-> v]

Init ==
  /\ kind \in {"ring", "fifo"}
  /\ buf = <<>>
  /\ accepted = 0
  /\ alive = TRUE
  /\ open = TRUE
  /\ waiting = FALSE
  /\ out = Answer("none")

\* The producer delivers.  After close() there is nobody to keep it for.
Accept ==
  /\ alive
  /\ accepted' = accepted + 1
  /\ \/ ~open /\ buf' = <<>>
     \/ open /\ Len(buf) < Capacity /\ buf' = Append(buf, accepted')
     \/ /\ open
        /\ kind = "ring"
        /\ Len(buf) = Capacity
        /\ buf' = Append(Tail(buf), accepted')
  /\ UNCHANGED <<alive, open, waiting, out>>

Disconnect ==
  /\ alive
  /\ alive' = FALSE
  /\ buf' = IF kind = "ring" THEN <<>> ELSE buf
  /\ UNCHANGED <<accepted, open, waiting, out>>

\* The answer a look at the buffer gives when it is not "empty": the oldest
\* value, or an error in its place, or the disconnection.
Answered ==
  \/ /\ buf # <<>>
     /\ buf' = Tail(buf)
     /\ out' \in {DataOf(Head(buf)), Answer("fault")}
  \/ /\ buf = <<>>
     /\ ~alive
     /\ out' = Answer("disconnected")
     /\ UNCHANGED buf

\* tryRecv(), or a recv() that finds its answer at once.
Poll ==
  /\ open
  /\ \/ Answered
     \/ buf = <<>> /\ alive /\ out' = Answer("empty") /\ UNCHANGED buf
  /\ UNCHANGED <<accepted, alive, open, waiting>>

\* recv() on an empty, connected channel.
Wait ==
  /\ open
  /\ ~waiting
  /\ alive
  /\ buf = <<>>
  /\ waiting' = TRUE
  /\ UNCHANGED <<buf, accepted, alive, open, out>>

Serve ==
  /\ open
  /\ waiting
  /\ Answered
  /\ waiting' = FALSE
  /\ UNCHANGED <<accepted, alive, open>>

Contend ==
  /\ open
  /\ waiting
  /\ out' = Answer("contended")
  /\ UNCHANGED <<buf, accepted, alive, open, waiting>>

Close ==
  /\ open
  /\ open' = FALSE
  /\ buf' = <<>>
  /\ waiting' = FALSE
  /\ out' = IF waiting THEN Answer("disconnected") ELSE out
  /\ UNCHANGED <<accepted, alive>>

Step == Accept \/ Disconnect \/ Poll \/ Wait \/ Serve \/ Contend \/ Close

Next == Step /\ UNCHANGED kind

Spec == Init /\ [][Next]_vars

==============================================================================
