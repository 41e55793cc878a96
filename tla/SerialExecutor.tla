--------------------------- MODULE SerialExecutor ---------------------------
(***************************************************************************)
(* What the work queue promises, without timers, flags and promises: work  *)
(* submitted to it runs one piece at a time, in the order of submission,   *)
(* each piece at most once; what has not been started may be aborted, all  *)
(* of it but the piece that is next in line when none is running.          *)
(***************************************************************************)
EXTENDS Sequences, Naturals

CONSTANTS Work, Idle

VARIABLES
  waiting,   \* submitted, not started, in order
  current,   \* the piece that runs, or Idle
  ended,     \* ran to its end
  aborted    \* submitted and never run

vars == <<waiting, current, ended, aborted>>

Init == waiting = <<>> /\ current = Idle /\ ended = {} /\ aborted = {}

Waiting(w) == \E i \in DOMAIN waiting : waiting[i] = w

Submit(w) ==
  /\ ~Waiting(w)
  /\ w # current
  /\ w \notin ended \union aborted
  /\ IF current = Idle /\ waiting = <<>>
     THEN current' = w /\ UNCHANGED waiting
     ELSE waiting' = Append(waiting, w) /\ UNCHANGED current
  /\ UNCHANGED <<ended, aborted>>

Start ==
  /\ current = Idle
  /\ waiting # <<>>
  /\ current' = Head(waiting)
  /\ waiting' = Tail(waiting)
  /\ UNCHANGED <<ended, aborted>>

End ==
  /\ current # Idle
  /\ ended' = ended \union {current}
  /\ current' = Idle
  /\ UNCHANGED <<waiting, aborted>>

Abort ==
  /\ waiting' = IF current = Idle /\ waiting # <<>> THEN <<Head(waiting)>> ELSE <<>>
  /\ aborted' = aborted \union {w \in Work : /\ Waiting(w)
                                             /\ current = Idle => w # Head(waiting)}
  /\ UNCHANGED <<current, ended>>

Next == (\E w \in Work : Submit(w)) \/ Start \/ End \/ Abort

Spec == Init /\ [][Next]_vars
=============================================================================
