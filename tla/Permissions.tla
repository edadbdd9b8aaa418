----------------------------- MODULE Permissions -----------------------------
(***************************************************************************)
(* The permission engine (services/identity/src/permission/service.py):    *)
(* role rules that allow, attribute constraints that allow or deny, and    *)
(* check(), which walks both in insertion order.  A condition is modelled  *)
(* by the contexts in which _evaluate_condition finds it true.             *)
(***************************************************************************)
EXTENDS Naturals, SequencesExt

CONSTANTS
    Subjects, Operations, Resources,    \* roles, actions, resource types
    Contexts,                           \* contexts check() is called with
    MaxRules                            \* bound: rules, and constraints, stored

ASSUME PermissionConstants == MaxRules \in Nat

VARIABLES
    rbac_rules,         \* _rbac_rules, in insertion order
    abac_constraints    \* _abac_constraints, in insertion order

permissionVars == <<rbac_rules, abac_constraints>>

RbacRule == [role : Subjects, action : Operations, resource : Resources]
AbacConstraint == [resource_type : Resources, holds_in : SUBSET Contexts, effect : {"allow", "deny"}]

PermissionInit == rbac_rules = <<>> /\ abac_constraints = <<>>

AddRbacRule(rule) ==
    /\ Len(rbac_rules) < MaxRules
    /\ rbac_rules' = Append(rbac_rules, rule)
    /\ UNCHANGED abac_constraints

AddAbacConstraint(constraint) ==
    /\ Len(abac_constraints) < MaxRules
    /\ abac_constraints' = Append(abac_constraints, constraint)
    /\ UNCHANGED rbac_rules

DeleteRbacRule(i) ==
    /\ i \in DOMAIN rbac_rules
    /\ rbac_rules' = RemoveAt(rbac_rules, i)
    /\ UNCHANGED abac_constraints

DeleteAbacConstraint(i) ==
    /\ i \in DOMAIN abac_constraints
    /\ abac_constraints' = RemoveAt(abac_constraints, i)
    /\ UNCHANGED rbac_rules

PermissionNext ==
    \/ \E rule \in RbacRule : AddRbacRule(rule)
    \/ \E constraint \in AbacConstraint : AddAbacConstraint(constraint)
    \/ \E i \in 1..MaxRules : DeleteRbacRule(i) \/ DeleteAbacConstraint(i)

\* The body of the second loop: "allow" sets a flag nobody reads.
AbacDenied(denied, c, resource, context) ==
    denied \/ (c.resource_type = resource /\ context \in c.holds_in /\ c.effect = "deny")

\* Whether access is denied after each turn of the loop.
AbacLoop(constraints, resource, context) ==
    LET denied[i \in 0..Len(constraints)] ==
          IF i = 0 THEN FALSE ELSE AbacDenied(denied[i - 1], constraints[i], resource, context)
    IN  denied

Check(rules, constraints, role, action, resource, context) ==
    /\ \E i \in DOMAIN rules : rules[i] = [role |-> role, action |-> action, resource |-> resource]
    /\ ~AbacLoop(constraints, resource, context)[Len(constraints)]

Permitted(rules, constraints) ==
    {p \in Subjects \X Operations \X Resources \X Contexts : Check(rules, constraints, p[1], p[2], p[3], p[4])}
-----------------------------------------------------------------------------
PermissionTypeOK ==
    rbac_rules \in Seq(RbacRule) /\ abac_constraints \in Seq(AbacConstraint)

\* Nothing is permitted by accident: the answers of check() do not depend on the
\* order in which the constraints were added, a new constraint never permits
\* anything, and a rule that goes away never does either.
ConstraintsOnlyNarrow ==
    [][LET before == Permitted(rbac_rules, abac_constraints)
           after == Permitted(rbac_rules, abac_constraints)'
       IN  /\ Len(abac_constraints') > Len(abac_constraints) \/ Len(rbac_rules') < Len(rbac_rules)
                 => after \subseteq before
           /\ after = Permitted(rbac_rules, Reverse(abac_constraints))']_permissionVars
=============================================================================
