----------------------------- MODULE MsgDelivery ----------------------------
(***************************************************************************)
(* What SendMsg promises its callers, without channels, acknowledgements   *)
(* or goroutines: a message is put on the connection at most once, a call  *)
(* returns nil only for a message that is on it, and a torn frame is the   *)
(* last thing written.  A call that returns an error promises nothing: its *)
(* message may be on the connection already, or be put there later.        *)
(***************************************************************************)
EXTENDS Naturals, Sequences

CONSTANT Calls

VARIABLES status,   \* "idle", "pending", "ok" or "err", per call
          log,      \* the complete frames on the connection, in order
          torn      \* a frame was cut short

vars == <<status, log, torn>>

Init ==
  /\ status = [c \in Calls |-> "idle"]
  /\ log = <<>>
  /\ torn = FALSE

Delivered(c) == \E i \in 1 .. Len(log) : log[i] = c

Step(c, from, to) ==
  /\ status[c] = from
  /\ status' = [status EXCEPT ![c] = to]
  /\ UNCHANGED <<log, torn>>

Begin(c) == Step(c, "idle", "pending")
ReturnOk(c) == Delivered(c) /\ Step(c, "pending", "ok")
ReturnErr(c) == Step(c, "pending", "err")

Deliver(c) ==
  /\ status[c] # "idle"
  /\ ~torn /\ ~Delivered(c)
  /\ log' = Append(log, c)
  /\ UNCHANGED <<status, torn>>

Tear ==
  /\ ~torn
  /\ torn' = TRUE
  /\ UNCHANGED <<status, log>>

Next ==
  \/ \E c \in Calls : Begin(c) \/ ReturnOk(c) \/ ReturnErr(c) \/ Deliver(c)
  \/ Tear

Spec == Init /\ [][Next]_vars
=============================================================================
