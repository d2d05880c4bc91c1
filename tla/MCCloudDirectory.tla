--------------------------- MODULE MCCloudDirectory ---------------------------
(* Small instances of the directories of the control plane and its clients *)
(* for TLC: the organizations, the operators, the customers, the files of  *)
(* a local environment, the resolver of an application and the wallet.  No *)
(* action of one reads or writes the state of another, so an invariant of  *)
(* one holds in the composition when it holds while the others rest in     *)
(* their initial state, and just these behaviours are explored.            *)
EXTENDS CloudOrganizations, CloudOperators, CloudCustomers, LocalDataPlane, CustomerResolver,
        WalletServer

CONSTANTS ann, bob

OwnEmail == [u \in Users |-> u]
NoScope == [u \in Users |-> {}]
TwoPlans == [free |-> 1, pro |-> 2]
Nothing == {}

OrganizationsRest == served = 0 /\ day = 0 /\ \A c \in Callers : asks[c] = Quiet
OperatorsRest == operators = << >> /\ now = 0 /\ \A c \in Clients : calls[c] = Idle
CustomersRest == customers = << >> /\ \A v \in Visitors : visits[v] = Nobody
LocalRest == done = 0 /\ halts = 0
ResolverRest == sought = 0
WalletRest == tick = 0 /\ issued = {} /\ \A b \in Tabs : tabs[b] = Blank
AccountsRest == OrganizationsRest /\ OperatorsRest /\ CustomersRest
OthersRest == LocalRest /\ ResolverRest /\ WalletRest
accountVars == <<organizationVars, operatorVars, customerVars>>
otherVars == <<localVars, resolverVars, walletVars>>

Init ==
  /\ OrganizationsInit /\ OperatorsInit /\ CustomersInit /\ LocalInit /\ ResolverInit /\ WalletInit
  /\ database = repository
  /\ mode = IF repository = "memory" THEN "oidc" ELSE "shared"
Accounts ==
  /\ OthersRest /\ UNCHANGED otherVars
  /\ \/ /\ OperatorsRest /\ CustomersRest
        /\ OrganizationsNext /\ UNCHANGED <<operatorVars, customerVars>>
     \/ /\ OrganizationsRest /\ CustomersRest
        /\ OperatorsNext /\ UNCHANGED <<organizationVars, customerVars>>
     \/ /\ OrganizationsRest /\ OperatorsRest
        /\ CustomersNext /\ UNCHANGED <<organizationVars, operatorVars>>
Others ==  \* which have nothing to do with the repository
  /\ AccountsRest /\ repository = "postgres" /\ UNCHANGED accountVars
  /\ \/ ResolverRest /\ WalletRest /\ LocalNext /\ UNCHANGED <<resolverVars, walletVars>>
     \/ LocalRest /\ WalletRest /\ ResolverNext /\ UNCHANGED <<localVars, walletVars>>
     \/ LocalRest /\ ResolverRest /\ WalletNext /\ UNCHANGED <<localVars, resolverVars>>
Next == Accounts \/ Others
vars == <<accountVars, otherVars>>
Spec == Init /\ [][Next]_vars

(* The request slots of the components are the same, and so are the ids    *)
(* they hand out: no state has those of two components.                    *)
Symmetry == Permutations(Callers) \cup Permutations(Keys) \cup Permutations(Logins)
            \cup Permutations(MemberIds)
===============================================================================
