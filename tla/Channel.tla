------------------------------- MODULE Channel -------------------------------
(***************************************************************************)
(* What the two ends of a tunnel may rely on, without buffers, system      *)
(* calls or a loop: once the channel is open, the bytes each end writes,   *)
(* from the first one that is meant for the channel, are passed on to the  *)
(* other end one after the other.  The channel ends for one of three       *)
(* reasons only: an end has stopped writing and all it wrote was passed    *)
(* on, nothing is left to pass on, or an end is gone.  Nothing is passed   *)
(* on before it opens or after it has ended.  The module Exchange is shown *)
(* to implement this one.                                                  *)
(***************************************************************************)
EXTENDS Naturals, Sequences

CONSTANT End  \* the two ends

VARIABLES
  state,     \* "waiting" before the channel is open, then "open", then "ended"
  presence,  \* of each end: "absent", "open", "shut" (no longer writes), "gone"
  wrote,     \* how many bytes each end has written
  first,     \* how many of them came before those for the channel
  passed     \* what has been passed on of each end, in order

channelVars == <<state, presence, wrote, first, passed>>

Init ==
  /\ state = "waiting"
  /\ presence \in [End -> {"absent", "open"}]
  /\ wrote = [e \in End |-> 0]
  /\ first \in [End -> Nat]
  /\ passed = [e \in End |-> << >>]

-----------------------------------------------------------------------------
(* The ends.                                                               *)

Write(e) ==
  /\ presence[e] = "open"
  /\ wrote' = [wrote EXCEPT ![e] = @ + 1]
  /\ UNCHANGED <<state, presence, first, passed>>

Later == [absent |-> {"open"}, open |-> {"shut", "gone"}, shut |-> {"gone"}, gone |-> {}]

Settle(e) ==
  /\ \E p \in Later[presence[e]] : presence' = [presence EXCEPT ![e] = p]
  /\ UNCHANGED <<state, wrote, first, passed>>

-----------------------------------------------------------------------------
(* The channel.                                                            *)

Moves(from, to) ==
  /\ state = from /\ state' = to
  /\ UNCHANGED <<presence, wrote, first, passed>>

Open ==
  /\ Moves("waiting", "open")
  /\ \A e \in End : presence[e] # "absent" /\ first[e] <= wrote[e]

Decline == Moves("waiting", "ended")

(* The next n bytes of e.                                                  *)
Following(e, n) == [k \in 1 .. n |-> <<e, first[e] + Len(passed[e]) + k>>]

Heard(e) == \A o \in End \ {e} : presence[o] # "gone"

Pass(e) ==
  /\ state = "open"
  /\ Heard(e)
  /\ \E n \in 1 .. wrote[e] - (first[e] + Len(passed[e])) :
       passed' = [passed EXCEPT ![e] = @ \o Following(e, n)]
  /\ UNCHANGED <<state, presence, wrote, first>>

(* Nothing of e is left behind that the other end could read.              *)
Through(e) == Heard(e) => first[e] + Len(passed[e]) = wrote[e]

Finish == Moves("open", "ended") /\ \E e \in End : presence[e] # "open" /\ Through(e)
GiveUp == Moves("open", "ended") /\ \A e \in End : Through(e)
Break  == Moves("open", "ended") /\ \E e \in End : presence[e] = "gone"

Next ==
  \/ \E e \in End : Write(e) \/ Settle(e) \/ Pass(e)
  \/ Open \/ Decline \/ Finish \/ GiveUp \/ Break

Spec == Init /\ [][Next]_channelVars
=============================================================================
