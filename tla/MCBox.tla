------------------------------- MODULE MCBox --------------------------------
(* Parts of the box that share no state, side by side: a behaviour is one of *)
(* the part that the first state picks, while the others stay as they are.   *)
EXTENDS LinearTokens, LinearDeliveries, PiListing, Answers, PiPipe

VARIABLE component

Components == {"tokens", "deliveries", "listing", "pi", "cursor", "pipe"}
parts      == <<tokenVars, deliveryVars, listingVars, apiVars, cursorApiVars, vars>>

PartsInit ==
    /\ component \in Components
    /\ TokensInit /\ DeliveriesInit /\ ListingInit /\ ApiInit /\ CursorApiInit /\ Init

PartsNext ==
    /\ UNCHANGED component
    /\ \/ /\ component = "tokens" /\ TokensNext
          /\ UNCHANGED <<deliveryVars, listingVars, apiVars, cursorApiVars, vars>>
       \/ /\ component = "deliveries" /\ DeliveriesNext
          /\ UNCHANGED <<tokenVars, listingVars, apiVars, cursorApiVars, vars>>
       \/ /\ component = "listing" /\ ListingNext
          /\ UNCHANGED <<tokenVars, deliveryVars, apiVars, cursorApiVars, vars>>
       \/ /\ component = "pi" /\ ApiNext
          /\ UNCHANGED <<tokenVars, deliveryVars, listingVars, cursorApiVars, vars>>
       \/ /\ component = "cursor" /\ CursorApiNext
          /\ UNCHANGED <<tokenVars, deliveryVars, listingVars, apiVars, vars>>
       \/ /\ component = "pipe" /\ Next
          /\ UNCHANGED <<tokenVars, deliveryVars, listingVars, apiVars, cursorApiVars>>

PartsSpec == PartsInit /\ [][PartsNext]_<<component, parts>>
=============================================================================
