----------------------------- MODULE ApiGateway ----------------------------
(***************************************************************************)
(* The gateway over the services: the mutations of customers, with the     *)
(* account service over PostgreSQL; its addresses over the in-memory       *)
(* repository, which it falls back to; and the products query.  They share *)
(* no state, and a behaviour is about one of them.                         *)
(***************************************************************************)
EXTENDS Customers, MemoryAddresses, ProductPages

OnAddresses(arrivals) ==
  {c \in arrivals \ Registrations : Asked[c].op = "update" => Asked[c].address}

CustomersCall == \E c \in Calls : At(c, "idle")
StoreCalled == \E c \in Calls : at[c] = "idle"

GatewayInit ==
  /\ Init /\ PagesInit
  /\ \E arrivals \in Arrivals : StoreInit(OnAddresses(arrivals))
  /\ scrolling \/ walk = CHOOSE w \in Walks : TRUE
  /\ CustomersCall => ~ StoreCalled
  /\ CustomersCall \/ StoreCalled => ~ scrolling

GatewayNext ==
  \/ Next /\ UNCHANGED <<storeVars, pagesVars>>
  \/ StoreNext /\ UNCHANGED <<vars, pagesVars>>
  \/ TurnPage /\ UNCHANGED <<vars, storeVars>>

GatewaySpec ==
  /\ GatewayInit /\ [][GatewayNext]_<<vars, storeVars, pagesVars>>
  /\ \A c \in Calls : WF_vars(Step(c))
=============================================================================
