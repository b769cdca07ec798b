------------------------------ MODULE ClientLink ------------------------------
(***************************************************************************)
(* The contract of the ClientLink interface (link.go), which both engines  *)
(* implement: the life of a link, its first start result and first         *)
(* terminal error, and the bounded queue of accepted submissions.          *)
(*                                                                         *)
(* acc is the sizes of the accepted submissions, wire the positions of     *)
(* those the stream has taken, rel how many charges have been released,    *)
(* bytes the charge that is left, sig the coalesced capacity signal.       *)
(***************************************************************************)
EXTENDS Integers, Sequences, UnitSums

CONSTANTS MaxSubs, MaxBytes

VARIABLES phase, start, err, acc, wire, rel, bytes, sig

contract == <<phase, start, err, acc, wire, rel, bytes, sig>>

Charge(q) == SumOf(q)
After(q, n) == SubSeq(q, n + 1, Len(q))

Init ==
  /\ phase = "created" /\ start = "none" /\ err = "none"
  /\ acc = <<>> /\ wire = <<>> /\ rel = 0 /\ bytes = 0 /\ sig = FALSE

Alive == phase \in {"created", "boot", "ready"}

(* Start of a link that has not ended, and its success.                    *)
Begin ==
  /\ phase = "created" /\ phase' = "boot"
  /\ UNCHANGED <<start, err, acc, wire, rel, bytes, sig>>

BecomeReady ==
  /\ phase = "boot" /\ phase' = "ready"
  /\ start = "none" /\ start' = "ok"
  /\ UNCHANGED <<err, acc, wire, rel, bytes, sig>>

(* TrySubmit accepts only on a ready link and within both limits.          *)
Accept(n) ==
  /\ phase = "ready"
  /\ Len(acc) - rel < MaxSubs /\ bytes + n <= MaxBytes
  /\ acc' = Append(acc, n) /\ bytes' = bytes + n
  /\ UNCHANGED <<phase, start, err, wire, rel, sig>>

(* The stream takes submissions in the order of acceptance; only what it   *)
(* has taken completely is released, and a ready link says so.             *)
Progress ==
  /\ \E n \in Len(wire)..Len(acc) : wire' = [i \in 1..n |-> i]
  /\ rel' \in rel..Len(wire')
  /\ bytes' = Charge(After(acc, rel'))
  /\ sig' = (sig \/ (rel' > rel /\ phase = "ready"))
  /\ UNCHANGED <<phase, start, err, acc>>

TakeCapacity ==
  /\ sig /\ sig' = FALSE
  /\ UNCHANGED <<phase, start, err, acc, wire, rel, bytes>>

(* The first terminal action sets the error; a start that has no result    *)
(* fails then or later, and never succeeds.                                *)
StartFails == \/ start' = start
              \/ start = "none" /\ start' \notin {"none", "ok"}

Claim ==
  /\ Alive /\ phase' = "closing"
  /\ err' # "none" /\ StartFails
  /\ UNCHANGED <<acc, wire, rel, bytes, sig>>

PublishFailure ==
  /\ ~Alive /\ StartFails
  /\ UNCHANGED <<phase, err, acc, wire, rel, bytes, sig>>

(* A closed link holds nothing and its start has a result; the claim may   *)
(* be part of this step.                                                   *)
Close ==
  /\ phase # "closed" /\ phase' = "closed"
  /\ IF Alive THEN err' # "none" ELSE err' = err
  /\ StartFails /\ start' # "none"
  /\ rel' = Len(acc) /\ bytes' = 0
  /\ UNCHANGED <<acc, wire, sig>>

Next ==
  \/ Begin \/ BecomeReady \/ (\E n \in 1..MaxBytes : Accept(n))
  \/ Progress \/ TakeCapacity \/ Claim \/ PublishFailure \/ Close

Spec == Init /\ [][Next]_contract
===============================================================================
