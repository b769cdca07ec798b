----------------------------- MODULE ByteStreams -----------------------------
(***************************************************************************)
(* What a WEB session promises to the two ends of its logical streams.     *)
(* The units a side hands over are numbered 1, 2, ...; the other side      *)
(* receives them in that order, each once, with no gap, and the peer       *)
(* receives nothing on a stream that is over for it.  Nothing is promised  *)
(* about the carrier requests that move them.                              *)
(***************************************************************************)
EXTENDS Integers, Sequences

CONSTANT Streams

VARIABLES
  sent,   \* direction -> stream -> units handed over so far
  rcvd,   \* direction -> stream -> units received, in order of arrival
  over    \* streams that are closed as far as the peer knows

Dirs == {"up", "down"}

Init == /\ sent = [d \in Dirs |-> [i \in Streams |-> 0]]
        /\ rcvd = [d \in Dirs |-> [i \in Streams |-> <<>>]]
        /\ over = {}

(* One carrier message may move units of several streams.                  *)
Move ==
  /\ over \subseteq over'
  /\ \A d \in Dirs, i \in Streams :
       /\ sent'[d][i] >= sent[d][i]
       /\ \/ rcvd'[d][i] = rcvd[d][i]
          \/ /\ d = "down" => i \notin over
             /\ \E k \in Len(rcvd[d][i])..sent[d][i] :
                  rcvd'[d][i] = [n \in 1..k |-> n]

Spec == Init /\ [][Move]_<<sent, rcvd, over>>
===============================================================================
