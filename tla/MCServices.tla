------------------------------- MODULE MCServices -------------------------------
(* The components around the session store on small instances, one of them in  *)
(* each behaviour: they share nothing, so their states add up and do not       *)
(* multiply.  part says which one runs; the others stay as they began.         *)
EXTENDS SessionObjects, MemorySync, AgentRuns, GatewayRunner, AgentTeam, PortfolioOrders, TLC

VARIABLE part

servicesVars == <<objectVars, syncVars, runVars, gatewayVars, teamVars, orderVars,
                  part>>

\* Of the initial states that differ only in names, one.  Syncers and processes
\* are interchangeable: all run in one process, or one of three in the other.
\* Parts that do not run begin in a single state.
OneStart ==
  LET home == CHOOSE h \in Processes : TRUE
      away == CHOOSE s \in Syncers : TRUE
  IN  /\ \A s \in Syncers : sync[s].home # home => s = away /\ part = "memory"
      /\ part # "runs" => \A c \in Viewers : viewer[c].run = CHOOSE r \in LocalRuns : TRUE

ServicesInit ==
  /\ ObjectsInit /\ MemoryInit /\ RunsInit /\ GatewayInit /\ TeamInit /\ OrdersInit
  /\ part \in {"objects", "memory", "runs", "gateway", "team", "orders"}
  /\ OneStart

ServicesNext ==
  /\ UNCHANGED part
  /\ \/ part = "objects" /\ ObjectsNext
        /\ UNCHANGED <<syncVars, runVars, gatewayVars, teamVars, orderVars>>
     \/ part = "memory" /\ MemoryNext
        /\ UNCHANGED <<objectVars, runVars, gatewayVars, teamVars, orderVars>>
     \/ part = "runs" /\ RunsNext
        /\ UNCHANGED <<objectVars, syncVars, gatewayVars, teamVars, orderVars>>
     \/ part = "gateway" /\ GatewayNext
        /\ UNCHANGED <<objectVars, syncVars, runVars, teamVars, orderVars>>
     \/ part = "team" /\ TeamNext
        /\ UNCHANGED <<objectVars, syncVars, runVars, gatewayVars, orderVars>>
     \/ part = "orders" /\ OrdersNext
        /\ UNCHANGED <<objectVars, syncVars, runVars, gatewayVars, teamVars>>

ServicesSpec ==
  /\ ServicesInit /\ [][ServicesNext]_servicesVars
  /\ RunsFairness /\ GatewayFairness

\* The type invariants of the six components.
ServicesTypeOK == ObjectsTypeOK /\ MemoryTypeOK /\ RunsTypeOK /\ GatewayTypeOK
                  /\ TeamTypeOK /\ OrdersTypeOK
=============================================================================
