------------------------------- MODULE Decoder -------------------------------
(***************************************************************************)
(* What one request is promised, without phases, layers and buffers: after *)
(* it is accepted its tokens come one at a time, each computed from the    *)
(* whole of the input before it and never changed again, up to the limit   *)
(* asked for; when the device is lost the request ends, at most one more   *)
(* token coming with the loss, about which nothing is known.               *)
(***************************************************************************)
EXTENDS Naturals, Sequences

CONSTANTS Ids,    \* the ids that can be sampled
          Limit   \* max_new_tokens

VARIABLES open,      \* the request was accepted
          produced,  \* the tokens so far, each with the inputs behind it
          alive      \* the device is there

vars == <<open, produced, alive>>

Init == open = FALSE /\ produced = << >> /\ alive = TRUE

Accept == ~open /\ open' = TRUE /\ UNCHANGED <<produced, alive>>

Inputs(n) == {<<1, p>> : p \in 0 .. n - 1}

Emit ==
  /\ open /\ alive /\ Len(produced) < Limit
  /\ \E t \in Ids :
       produced' =
         Append(produced, [id |-> t, basis |-> Inputs(Len(produced) + 1)])
  /\ UNCHANGED <<open, alive>>

Lose ==
  /\ open /\ alive /\ alive' = FALSE
  /\ \/ UNCHANGED produced
     \/ /\ Len(produced) < Limit
        /\ Len(produced') = Len(produced) + 1
        /\ SubSeq(produced', 1, Len(produced)) = produced
  /\ UNCHANGED open

Next == Accept \/ Emit \/ Lose

Spec == Init /\ [][Next]_vars
=============================================================================
