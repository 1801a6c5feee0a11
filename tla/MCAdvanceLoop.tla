---------------------------- MODULE MCAdvanceLoop ----------------------------
(***************************************************************************)
(* An instance of AdvanceLoop, and with it of Engine, for TLC: two         *)
(* terminals whose payments and queues interleave under one clock, some of *)
(* their steps due at the same time, some at once, one on the deadline.    *)
(***************************************************************************)
EXTENDS AdvanceLoop

Instant == [connect |-> 0, card |-> 0, customer |-> 0, authorize |-> 0, confirm |-> 0,
            response |-> 0, timeout |-> 2]

Swift == [device |-> DefaultDevice, amount |-> 0, merchant |-> AnyMerchant, uses |-> 1,
          mode |-> "automatic", outcome |-> "approved", error |-> NoError,
          reference |-> "none", failureStage |-> "authorizing", timing |-> Instant,
          delivery |-> "normal", confirm |-> TRUE, manualBank |-> FALSE]

\* The second terminal's payments wait for inputs; the delay of the customer's
\* stage, were it automatic, would fall on the deadline.
SharedScenarios ==
  {[Swift EXCEPT !.uses = 2, !.merchant = DefaultMerchant, !.timing.connect = 1],
   [Swift EXCEPT !.delivery = "disconnect_before_accept"]} \cup
  {[Swift EXCEPT !.device = d, !.amount = 1, !.mode = "manual", !.manualBank = TRUE,
                 !.timing.connect = 1, !.timing.customer = 1] : d \in DeviceIds \ {DefaultDevice}}

\* Badly installed, or with another merchant than the default device's.
SetupProfiles ==
  {[DefaultProfile EXCEPT !.setupError = TRUE]} \cup
  [merchant : Merchants \ {DefaultMerchant}, online : {TRUE}, setupError : {FALSE}]
=============================================================================
