--------------------------- MODULE MCBindingManager ---------------------------
(***************************************************************************)
(* Instances of the fixed-binding manager for TLC.  Every limit is as      *)
(* small as Validate allows, so that each one is reached.                  *)
(***************************************************************************)
EXTENDS BindingManagerProps

OneSlot  == <<"dc1">>
TwoSlots == <<"dc1", "dc1">>

(* One request of capacity per slot and two in total; one close per slot   *)
(* beside the reserved probe.                                              *)
TightLimits ==
  [resident |-> 2, residentPerSlot |-> 2,
   reqItemsPerSlot |-> 1, reqBytesPerSlot |-> 2, reqBytesPerBinding |-> 2,
   reqItems |-> 2, reqBytes |-> 2,
   ctlItemsPerSlot |-> 2, ctlItems |-> NumSlots + 1,
   respItemsPerBinding |-> 2, respBytesPerBinding |-> 3,
   respItemsPerSlot |-> 3, respBytesPerSlot |-> 4,
   respItems |-> 3, respBytes |-> 4]

(* One request of capacity for the whole manager, shared by the slots.     *)
SharedLimits == [TightLimits EXCEPT !.reqItems = 1, !.residentPerSlot = 1]

(* Capacity for two small requests or one large one, bounded by the slot   *)
(* and not by the manager, three clients.                                  *)
FifoLimits == [TightLimits EXCEPT !.reqItemsPerSlot = 2, !.reqBytes = 3,
                                  !.resident = 3, !.residentPerSlot = 3]

(* Two bindings and nothing else; the scenarios add to it.                 *)
Idle == [lim |-> TightLimits, binds |-> 2, reqSizes |-> {1}, oversize |-> {},
         eventSizes |-> {1}, modes |-> {"token"}, calls |-> {},
         prepares |-> 0, events |-> 0, probes |-> 0, losses |-> 0,
         repairs |-> 0, full |-> 0, misuse |-> 0]

(* Requests of two sizes with one refused submission, quiesce and close;   *)
(* three clients whose requests compete for the slot's capacity; responses *)
(* of two sizes with eviction and peer close, for tokens and blocking      *)
(* callers; probes against local closes, link loss and repair; mismatched  *)
(* and foreign reservations.                                               *)
SlotScenarios ==
  {[Idle EXCEPT !.prepares = 1, !.reqSizes = {1, 2}, !.oversize = {2},
                !.full = 1, !.calls = {"quiesce", "close"}],
   [Idle EXCEPT !.lim = FifoLimits, !.binds = 3, !.prepares = 1,
                !.reqSizes = {1, 2}],
   [Idle EXCEPT !.events = 3, !.eventSizes = {1, 2}, !.modes = {"unset"}],
   [Idle EXCEPT !.probes = 2, !.losses = 1, !.repairs = 1],
   [Idle EXCEPT !.prepares = 1, !.misuse = 1]}

(* Two links of one DC and one shared request of capacity: local closes    *)
(* and shutdown; requests and the loss of a link; responses, the loss of a *)
(* link and its repair.                                                    *)
PoolScenarios ==
  LET shared == [Idle EXCEPT !.lim = SharedLimits]
  IN  {[shared EXCEPT !.prepares = 1, !.calls = {"close"}],
       [shared EXCEPT !.prepares = 1, !.losses = 1],
       [shared EXCEPT !.events = 1, !.losses = 1, !.repairs = 1]}

(* A client that sends a request, is answered and closes, then Quiesce.    *)
DrainScenarios == {[Idle EXCEPT !.binds = 1, !.prepares = 1, !.events = 1,
                                !.calls = {"quiesce"}]}
===============================================================================
