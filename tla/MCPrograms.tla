---------------------------- MODULE MCPrograms -----------------------------
(* The programs that the box runs, side by side: a pi process, the transient  *)
(* process of the model catalog, a bridge, pi-web and the parts of the        *)
(* application.  They share no state: a behaviour is one of the part that the *)
(* first state picks, while the others stay as they are.                      *)
(*                                                                            *)
(* A pi process is picked with its calls or with its subscriptions: a call    *)
(* and a pump meet in the read loop only, which waits for neither of them.    *)
EXTENDS ModelCatalog, BridgeStart, BoxApp, PiPipe

VARIABLE component

Components == {"catalog", "bridge", "app", "calls", "events"}
parts      == <<catalogVars, bridgeVars, boxVars, vars>>

\* An application that is not picked does not run.
PartsInit ==
    /\ component \in Components
    /\ CatalogInit /\ BridgeInit /\ Init
    /\ IF component = "app" THEN BoxInit ELSE BoxNeverRun

PartsNext ==
    /\ UNCHANGED component
    /\ \/ /\ component = "catalog" /\ CatalogNext
          /\ UNCHANGED <<bridgeVars, boxVars, vars>>
       \/ /\ component = "bridge" /\ BridgeNext
          /\ UNCHANGED <<catalogVars, boxVars, vars>>
       \/ /\ component = "app" /\ BoxNext
          /\ UNCHANGED <<catalogVars, bridgeVars, vars>>
       \/ /\ component = "calls" /\ Next /\ UNCHANGED sub   \* nobody subscribes
          /\ UNCHANGED <<catalogVars, bridgeVars, boxVars>>
       \/ /\ component = "events" /\ Next /\ UNCHANGED call \* nobody calls
          /\ UNCHANGED <<catalogVars, bridgeVars, boxVars>>

PartsSpec ==
    /\ PartsInit /\ [][PartsNext]_<<component, parts>>
    /\ CatalogFairness /\ BridgeFairness /\ BoxFairness /\ Fairness
=============================================================================
