------------------------------ MODULE Handover ------------------------------
(***************************************************************************)
(* What a port promises, whatever it is made of: each datum offered is     *)
(* received at most once, in order.  Two promises differ in what a putter  *)
(* may conclude from success: Spec, that its datum has been received;      *)
(* StoredSpec, no more than that it was stored, which may also be for a    *)
(* getter that is gone.  Data are numbered in the order in which they are  *)
(* offered; 0 is none.                                                     *)
(***************************************************************************)
EXTENDS Naturals

VARIABLES slot,      \* the datum that can be received
          offered,   \* the last one offered
          taken,     \* the last one received
          acked      \* the last one whose putter was told of success

Init == slot = 0 /\ offered = 0 /\ taken = 0 /\ acked = 0

\* an offer replaces what nobody has received
Offer == /\ offered' = offered + 1 /\ slot' = offered'
         /\ UNCHANGED <<taken, acked>>

Withdraw == /\ slot # 0 /\ slot' = 0
            /\ UNCHANGED <<offered, taken, acked>>

Take == /\ slot # 0 /\ taken' = slot /\ slot' = 0
        /\ UNCHANGED <<offered, acked>>

Acknowledge == /\ slot = 0 /\ taken = offered /\ acked' = offered
               /\ UNCHANGED <<slot, offered, taken>>

Next == Offer \/ Withdraw \/ Take \/ Acknowledge

Spec == Init /\ [][Next]_<<slot, offered, taken, acked>>

\* success comes with the offer, or while the datum is still there to receive
OfferAndAnswer == /\ offered' = offered + 1 /\ slot' = offered' /\ acked' = offered'
                  /\ UNCHANGED taken

Answer == /\ slot # 0 /\ slot = offered /\ acked' = offered
          /\ UNCHANGED <<slot, offered, taken>>

StoredNext == Offer \/ OfferAndAnswer \/ Answer \/ Take

StoredSpec == Init /\ [][StoredNext]_<<slot, offered, taken, acked>>
=============================================================================
