------------------------------ MODULE Services ------------------------------
(***************************************************************************)
(* The model-checking instance of the components that share no state with  *)
(* the hub's turns and with each other: the agent registry, the legacy     *)
(* memory path, the clients, the chunker and the bench's selection.  A     *)
(* behaviour is one of one of them, the others being at rest, so the       *)
(* states of the run are the sum of theirs.                                *)
(***************************************************************************)
EXTENDS AgentRegistry, LegacyMemory, NexusClient, Chunker, BestOfN

VARIABLE service    \* the component that runs

Services == {"registry", "legacy", "client", "chunker", "bench"}

\* The components that do not run are at an initial state.
RestingClient == client.ui = "cli" /\ client.path = "member" /\ presence = "awake"

ServicesInit ==
    /\ service \in Services
    /\ RegistryInit /\ LegacyInit /\ ChunkInit /\ BenchInit
    /\ ClientInit /\ (service = "client" \/ RestingClient)

Registry_ == service = "registry" /\ RegistryNext
             /\ UNCHANGED <<legacyVars, clientVars, chunkVars, benchVars, service>>

Legacy_ == service = "legacy" /\ LegacyNext
           /\ UNCHANGED <<registryVars, clientVars, chunkVars, benchVars, service>>

Client_ == service = "client" /\ ClientNext
           /\ UNCHANGED <<registryVars, legacyVars, chunkVars, benchVars, service>>

Chunker_ == service = "chunker" /\ ChunkNext
            /\ UNCHANGED <<registryVars, legacyVars, clientVars, benchVars, service>>

Bench_ == service = "bench" /\ BenchNext
          /\ UNCHANGED <<registryVars, legacyVars, clientVars, chunkVars, service>>

ServicesNext == Registry_ \/ Legacy_ \/ Client_ \/ Chunker_ \/ Bench_

ServicesVars == <<registryVars, legacyVars, clientVars, chunkVars, benchVars, service>>

ServicesSpec ==
    /\ ServicesInit /\ [][ServicesNext]_ServicesVars
    /\ (service = "registry") => RegistryFairness
    /\ (service = "client") => ClientFairness
=============================================================================
