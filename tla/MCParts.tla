------------------------------ MODULE MCParts ------------------------------
(***************************************************************************)
(* Four parts of the relay v3 that the other modules take as given, each   *)
(* on its own: the event log, the shared policy values, the NATS client    *)
(* and the state stores.  `part' says which of them a behaviour is about;  *)
(* the others stay as they start.  The stores' bundles, checkpoints, slots *)
(* and retries have no state in common and are taken one at a time.        *)
(***************************************************************************)
EXTENDS EventLog, PolicyCell, NatsBroker, StateStores

\* The last bundle has the content of the first.
HashOfIds == [i \in Ids |-> i % (Cardinality(Ids) - 1)]

VARIABLE part

partsVars == <<part, vars, cellVars, natsVars, storeVars>>

Parts == {"log", "policy", "nats", "bundles", "batches", "slots", "retries"}

PartsInit == part \in Parts /\ Init /\ CellInit /\ NatsInit /\ StoresInit

LogStep    == part = "log"    /\ Next     /\ UNCHANGED <<part, cellVars, natsVars, storeVars>>
PolicyStep == part = "policy" /\ CellNext /\ UNCHANGED <<part, vars, natsVars, storeVars>>
NatsStep   == part = "nats"   /\ NatsNext /\ UNCHANGED <<part, vars, cellVars, storeVars>>
StoreStep ==
    /\ \/ part = "bundles" /\ BundleStep
       \/ part = "batches" /\ BatchStep
       \/ part = "slots"   /\ SlotStep
       \/ part = "retries" /\ RetryStep
    /\ UNCHANGED <<part, vars, cellVars, natsVars>>

PartsNext == LogStep \/ PolicyStep \/ NatsStep \/ StoreStep

PartsSpec == PartsInit /\ [][PartsNext]_partsVars
=============================================================================
