------------------------------- MODULE Authz -------------------------------
(***************************************************************************)
(* packages/authz: what a member of staff may do, from the roles the server *)
(* holds.  No state: decisions over principals [id, roles, organisations].  *)
(***************************************************************************)
EXTENDS FiniteSets

roleCodes == {"PA", "OP", "RT", "FR", "CF", "CS", "DI", "AU", "DP"}

Workspace ==
  {"control-room", "customers", "fleets-vehicles", "pricing-data", "spread-fx", "risk-hedging",
   "transactions-ledger", "billing-reconciliation", "fraud-cases", "rules-automation",
   "communications", "platform-integrations-audit", "ai-control-centre"}

VR == {"view", "recommend"}
VI == {"view", "initiate"}
VRI == VR \cup {"initiate"}
VRIA == VRI \cup {"approve"}
ALL == VRIA \cup {"execute", "export"}

\* What a role may do beyond looking.
Grants(role) ==
  CASE role = "PA" -> [w \in Workspace |->
         CASE w = "control-room" -> VR
           [] w \in {"customers", "fleets-vehicles", "rules-automation"} -> VI
           [] w \in {"platform-integrations-audit", "ai-control-centre"} -> VRIA
           [] OTHER -> {"view"}]
    [] role = "OP" -> [w \in Workspace |->
         CASE w \in {"control-room", "customers", "fleets-vehicles", "transactions-ledger", "communications"} -> VRI
           [] w \in {"risk-hedging", "rules-automation"} -> VR
           [] w \in {"billing-reconciliation", "fraud-cases"} -> VI
           [] OTHER -> {"view"}]
    [] role = "RT" -> [w \in Workspace |->
         CASE w = "control-room" -> VRI
           [] w \in {"pricing-data", "spread-fx", "rules-automation"} -> VRIA
           [] w = "risk-hedging" -> ALL
           [] w = "fraud-cases" -> VR
           [] OTHER -> {"view"}]
    [] role = "FR" -> [w \in Workspace |->
         CASE w \in {"control-room", "rules-automation"} -> VRI
           [] w \in {"spread-fx", "risk-hedging"} -> VR
           [] w = "transactions-ledger" -> VRIA
           [] w = "billing-reconciliation" -> ALL
           [] OTHER -> {"view"}]
    [] role = "CF" -> [w \in Workspace |->
         CASE w = "control-room" -> VRI
           [] w \in {"customers", "fleets-vehicles", "rules-automation", "communications"} -> VRIA
           [] w = "risk-hedging" -> VR
           [] w = "fraud-cases" -> ALL
           [] OTHER -> {"view"}]
    [] role = "CS" -> [w \in Workspace |->
         CASE w \in {"customers", "fleets-vehicles", "communications"} -> VRI
           [] w = "fraud-cases" -> VI
           [] OTHER -> {"view"}]
    [] role = "DI" -> [w \in Workspace |->
         CASE w \in {"control-room", "rules-automation", "ai-control-centre"} -> VRI
           [] w = "pricing-data" -> VRI \cup {"execute"}
           [] w = "platform-integrations-audit" -> VRIA \cup {"execute"}
           [] OTHER -> {"view"}]
    [] role = "AU" -> [w \in Workspace |->
         IF w = "platform-integrations-audit" THEN {"view", "export"} ELSE {"view"}]
    [] role = "DP" -> [w \in Workspace |-> {"view"}]

\* The workspaces a role does not see at all.
Hidden(role) ==
  CASE role \in {"PA", "DI", "AU", "DP"} -> {}
    [] role = "CS" -> {"spread-fx", "risk-hedging", "platform-integrations-audit", "ai-control-centre"}
    [] OTHER -> {"ai-control-centre"}

baseline == [role \in roleCodes |->
  [w \in Workspace |-> IF w \in Hidden(role) THEN {} ELSE Grants(role)[w]]]

-----------------------------------------------------------------------------
\* Auditors and presenters hold one role, and nobody presents in production.
assignmentConflict(roles, environment) ==
  \/ "DP" \in roles /\ (environment = "production" \/ roles # {"DP"})
  \/ "AU" \in roles /\ roles # {"AU"}

authorize(principal, environment, organisation, workspace, verb, owner) ==
  /\ ~assignmentConflict(principal.roles, environment)
  /\ organisation \in principal.organisations
  /\ verb = "approve" => owner # principal.id
  /\ \E role \in principal.roles : verb \in baseline[role][workspace]

visibleWorkspaces(principal, environment, organisation, workspaces) ==
  {w \in workspaces : authorize(principal, environment, organisation, w, "view", "nobody")}

\* Mutant of SameTenant: any resource, if the active organisation is one of theirs.
AnyTenant(active, organisation) == TRUE

SameTenant(active, organisation) == active = organisation

\* A tenant's record is read from within that organisation.
authorizeTenantResource(principal, environment, active, organisation, workspace) ==
  /\ SameTenant(active, organisation)
  /\ authorize(principal, environment, active, workspace, "view", "nobody")

\* A governed action also needs a reconciled book, a valid price and, when asked, a step-up.
evaluateGovernedAction(request, reconciled, priceValid, requiresStepUp, steppedUp) ==
  /\ reconciled /\ priceValid
  /\ authorize(request.principal, request.environment, request.organisation, request.workspace,
               request.verb, request.owner)
  /\ requiresStepUp => steppedUp

\* Emergency access opens an incident; it never validates a price, clears a break or approves
\* one's own action.
evaluateBreakGlass(principal, capability, steppedUp) ==
  /\ capability \notin {"validate-price", "clear-reconciliation-break", "self-approve"}
  /\ "PA" \in principal.roles /\ steppedUp

=============================================================================
