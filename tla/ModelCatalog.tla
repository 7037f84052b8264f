---------------------------- MODULE ModelCatalog ----------------------------
(***************************************************************************)
(* The model catalog of the box (internal/pi/manager.go: boxModels,        *)
(* fetchBoxModels, cachedModels, staleModels): AvailableModels without a   *)
(* session answers from a cache, or from one transient pi process that     *)
(* counts against no session limit.                                        *)
(*                                                                         *)
(* Of the cached catalog its age matters: it is fresh until modelCatalogTTL *)
(* has passed.  The transient process is external: it answers, fails, or   *)
(* says nothing until defaultSetupTimeout or the caller's context ends.    *)
(*                                                                         *)
(* A definition marked "Mutant" is a plausible mistake in the definition   *)
(* below it and is used by no specification.                               *)
(***************************************************************************)
EXTENDS Naturals, FiniteSets

CONSTANT Pickers    \* callers of AvailableModels without a session id

VARIABLES
    catalog,    \* m.catalog and m.catalogAt: "nil", "fresh" or "stale"
    catalogStopped, \* m.stopped
    picker,     \* where each caller is
    transient   \* the callers whose transient process runs

catalogVars == <<catalog, catalogStopped, picker, transient>>

\* The holder of catalogGate.
Fetching(p) == picker[p] \in {"recheck", "spawn", "call", "fetched", "fail"}

Moves(p, from, to) == picker[p] = from /\ picker' = [picker EXCEPT ![p] = to]

-----------------------------------------------------------------------------

BoxModels(p) ==
    /\ Moves(p, "idle", IF catalog = "fresh" THEN "idle" ELSE "gate")
    /\ UNCHANGED <<catalog, catalogStopped, transient>>

EnterGate(p) ==
    /\ \A q \in Pickers : ~Fetching(q)
    /\ Moves(p, "gate", "recheck")
    /\ UNCHANGED <<catalog, catalogStopped, transient>>

\* The context ends while the caller waits for the gate.
LeaveGate(p) ==
    /\ Moves(p, "gate", "idle")
    /\ UNCHANGED <<catalog, catalogStopped, transient>>

\* A queued caller inherits what the winner fetched; one that is to fetch looks
\* at stopped, and no more from there on.
Recheck(p) ==
    /\ Moves(p, "recheck", IF catalog = "fresh" THEN "idle"
                           ELSE IF catalogStopped THEN "fail" ELSE "spawn")
    /\ UNCHANGED <<catalog, catalogStopped, transient>>

StartTransient(p) ==
    /\ \/ Moves(p, "spawn", "call") /\ transient' = transient \cup {p}
       \/ Moves(p, "spawn", "fail") /\ UNCHANGED transient
    /\ UNCHANGED <<catalog, catalogStopped>>

\* The call has an answer or fails; the deferred stop ends the process.
FetchEnds(p) ==
    /\ Moves(p, "call", "fetched") \/ Moves(p, "call", "fail")
    /\ transient' = transient \ {p}
    /\ UNCHANGED <<catalog, catalogStopped>>

\* The catalog is stored, and the gate left.
StoreCatalog(p) ==
    /\ Moves(p, "fetched", "idle")
    /\ catalog' = "fresh"
    /\ UNCHANGED <<catalogStopped, transient>>

\* Mutant: a caller for whom there is nothing to serve queues again.
ServeStaleAgain(p) ==
    /\ Moves(p, "fail", IF catalog = "nil" THEN "gate" ELSE "idle")
    /\ UNCHANGED <<catalog, catalogStopped, transient>>
\* staleModels: the last known catalog, whatever its age, or the error.
ServeStale(p) ==
    /\ Moves(p, "fail", "idle")
    /\ UNCHANGED <<catalog, catalogStopped, transient>>

TTLPasses ==
    /\ catalog = "fresh" /\ catalog' = "stale"
    /\ UNCHANGED <<catalogStopped, picker, transient>>

\* Manager.Stop, of which the catalog sees no more than this.
StopManager ==
    /\ ~catalogStopped /\ catalogStopped' = TRUE
    /\ UNCHANGED <<catalog, picker, transient>>

-----------------------------------------------------------------------------

CatalogInit ==
    /\ catalog = "nil" /\ catalogStopped = FALSE
    /\ picker = [p \in Pickers |-> "idle"] /\ transient = {}

PickerStep(p) ==
    \/ EnterGate(p) \/ Recheck(p) \/ StartTransient(p) \/ FetchEnds(p) \/ StoreCatalog(p) \/ ServeStale(p)

CatalogNext ==
    \/ \E p \in Pickers : BoxModels(p) \/ LeaveGate(p) \/ PickerStep(p)
    \/ TTLPasses \/ StopManager

CatalogSpec == CatalogInit /\ [][CatalogNext]_catalogVars

\* A transient process is given up after defaultSetupTimeout, and the gate, a
\* channel, serves those that wait in turn.
CatalogFairness ==
    \A p \in Pickers : SF_catalogVars(EnterGate(p)) /\ WF_catalogVars(PickerStep(p))

-----------------------------------------------------------------------------
(* Properties *)

\* boxModels: "Concurrent callers are collapsed, so a burst of dropdown loads
\* costs a single spawn": there is one transient process at most, and none is
\* run while the cache has a fresh answer, whoever was queued meanwhile.
OneSpawn ==
    /\ Cardinality(transient) <= 1
    /\ transient # {} => catalog # "fresh"

\* Nobody is left behind at the gate, and after Manager.Stop no transient
\* process remains, although stopped is looked at before it is started only.
CatalogEnds ==
    /\ \A p \in Pickers : picker[p] # "idle" ~> picker[p] = "idle"
    /\ catalogStopped ~> [](transient = {})

\* The catalog is fetched by one caller for all, and for nobody in vain.
CatalogServed == []OneSpawn /\ CatalogEnds
=============================================================================
