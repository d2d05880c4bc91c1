------------------------------- MODULE MCTenant -------------------------------
(* Small instances of the tenant for TLC.                                  *)
EXTENDS Tenant

CONSTANTS m1, m2, r1, r2, gold, p1, p2, p3, p4, g1, ana, ben, here, there, kAdmin, kScoped

AllPrograms == {p1, p2, p3, p4}
ValidPrograms == {p1, p2, p4}       \* p3 does not validate
CompatiblePrograms == {p1, p2, p3}  \* p4 has another currency
OffersOf == p1 :> {r1, r2} @@ p2 :> {r1} @@ p3 :> {} @@ p4 :> {}
PlansIn == p1 :> {gold} @@ p2 :> {} @@ p3 :> {} @@ p4 :> {}
EnrolledIn == [g \in Groups |-> IF g = "engagement" THEN {m1, m2} ELSE {m1}]
CampaignWindows == {<<0, 1>>, <<1, None>>}
HeldOut == {<<g1, m2>>}
ReachOf == ana :> {here} @@ ben :> {there}
RightsOf ==
  kAdmin :> {"admin:read", "admin:write", "program:publish", "access:manage", "platform:read",
             "platform:write", "protocol:read", "protocol:write"} @@
  kScoped :> {"admin:read", "platform:read"}

(* Two drafts and rollbacks beside the campaigns, more without them: the   *)
(* history is cut.                                                         *)
PublishScenario == edits > 0 /\ turn = "publishing" => drafted <= 2
===============================================================================
