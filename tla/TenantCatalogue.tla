-------------------------- MODULE TenantCatalogue --------------------------
(***************************************************************************)
(* The tables behind the core services (services/core/services) and the    *)
(* data acquisition services (services/iota/services).  A create call      *)
(* looks up, one awaited query at a time, the rows it refers to and        *)
(* whether its key is taken, and then inserts and commits; several calls   *)
(* overlap, each in a transaction of its own, and the database has the     *)
(* last word through its unique constraints, which count soft-deleted rows *)
(* while the services' own checks do not.                                  *)
(***************************************************************************)
EXTENDS Naturals, Sequences, FiniteSets

CONSTANTS
    CatalogueCalls,     \* bound: the create calls, each made once
    Tenants,
    FreshKey,           \* the name, code or external id every call asks for
    MaxEdits,           \* bound: soft deletes and renames
    KindScopes          \* bound: the sets of kinds the calls of one behaviour create

VARIABLES
    rows,               \* every table's rows, in the order they were committed
    call,               \* call -> what it creates and how far it is
    edits,              \* soft deletes and renames so far
    scope               \* the kinds this behaviour's calls create

catalogueVars == <<rows, call, edits, scope>>

\* The tenant of a system level property definition (tenant_id NULL).
System == "system"
OldKey == "old"
\* The same key with blanks around it, as a client may spell it.
PaddedKey == "padded"
Strip(key) == IF key = PaddedKey THEN FreshKey ELSE key
NotMade == [pc |-> "ready"]
Ended == [pc |-> "ended"]

\* The queries of each service's create call, in its order: "key" asks whether
\* the key is taken, "first" and "second" for the rows referred to.
CreateEntity == <<"key">>
CreateAsset == <<"first", "key">>
CreateRelationship == <<"first", "second">>
DefineProperty == <<"key">>
CreateDataSource == <<"key">>
\* ConnectionRepository has no get_by_name: the call raises at its second query.
CreateConnection == <<"first", "raises">>
CreateDevice == <<"key", "first">>
CreateDataPoint == <<"first">>
CreateBinding == <<"first", "second", "key">>
SetProperty == <<"first", "second", "value">>

Queries ==
    [entity |-> CreateEntity, asset |-> CreateAsset, relationship |-> CreateRelationship,
     definition |-> DefineProperty, data_source |-> CreateDataSource, connection |-> CreateConnection,
     device |-> CreateDevice, data_point |-> CreateDataPoint, binding |-> CreateBinding,
     value |-> SetProperty]

\* Which kinds of row a call refers to.
Refers ==
    [entity |-> <<>>, asset |-> <<"entity">>, relationship |-> <<"entity", "entity">>,
     definition |-> <<>>, data_source |-> <<>>, connection |-> <<"data_source">>,
     device |-> <<"data_source">>, data_point |-> <<"device">>, binding |-> <<"device", "entity">>,
     value |-> <<"definition", "entity">>]

Kinds == DOMAIN Queries

ASSUME CatalogueConstants ==
    /\ \E t, u \in Tenants : t # u
    /\ MaxEdits \in Nat /\ KindScopes \subseteq SUBSET Kinds

Ids == 1..Len(rows)

\* What a client can pass to set_property, and what int(), float() and the
\* word lists make of its texts (as "none": they raise).
RawValues == {"int", "bool", "'7'", "'true'", "'7.5'"}
Coerced(raw, data_type) ==
    CASE raw = "'7'" /\ data_type = "INTEGER" -> "int"
      [] raw \in {"'7'", "'7.5'"} /\ data_type = "FLOAT" -> "float"
      [] raw = "'true'" /\ data_type = "BOOLEAN" -> "bool"
      [] raw \in {"'7'", "'true'", "'7.5'"} /\ data_type # "STRING" -> "none"
      [] OTHER -> raw
\* Python's True is an int; the validators say that it is not an INTEGER.
Validators == [INTEGER |-> {"int"}, FLOAT |-> {"int", "float"}, BOOLEAN |-> {"bool"}]
ValidateType(raw, data_type) ==
    IF Coerced(raw, data_type) \in Validators[data_type] THEN Coerced(raw, data_type) ELSE "none"

Row(kind, tenant, key, refs, value, looked, unasked) ==
    [kind |-> kind, tenant |-> tenant, key |-> key, refs |-> refs, value |-> value,
     live |-> TRUE, looked |-> looked, unasked |-> unasked]

\* Every tenant has an entity, a data source and a device; two definitions of
\* the system are shared.
First(kind, tenant, key, value) == Row(kind, tenant, key, <<>>, value, 0, FALSE)
Owned(t) == <<First("entity", t, OldKey, ""), First("data_source", t, OldKey, ""),
              First("device", t, OldKey, "")>>
CatalogueInit ==
    LET t == CHOOSE t \in Tenants : TRUE
        u == CHOOSE u \in Tenants : u # t
    IN /\ rows = Owned(t) \o Owned(u) \o <<First("definition", System, OldKey, "INTEGER"),
                                          First("definition", System, "older", "BOOLEAN")>>
       /\ call = [c \in CatalogueCalls |-> NotMade] /\ edits = 0 /\ scope \in KindScopes
-----------------------------------------------------------------------------
\* set_property asks for its rows without a tenant; the other services for
\* live rows of the caller's tenant.
AnyTenant(r, tenant) == rows[r].live
Visible(r, tenant) == rows[r].live /\ rows[r].tenant = tenant

\* The lookups behind the services' uniqueness checks: would this row be found?
FindByName(r, t, key) == rows[r].key = key /\ rows[r].tenant = t
GetSourceByName(r, t, key) == rows[r].key = key /\ rows[r].tenant = t
GetByExternalId(r, t, key) == rows[r].key = key /\ rows[r].tenant = t
GetByCode(r, key) == rows[r].key = key
GetDefinitionByKey(r, t, key) == rows[r].key = key /\ (t = System \/ rows[r].tenant \in {t, System})
BindingExists(r, t, refs) == rows[r].refs = refs /\ rows[r].tenant = t

SameKey(kind, t, key, refs, r) ==
    /\ rows[r].kind = kind
    /\ CASE kind = "entity" -> FindByName(r, t, key)
         [] kind = "data_source" -> GetSourceByName(r, t, key)
         [] kind = "device" -> GetByExternalId(r, t, key)
         [] kind = "asset" -> GetByCode(r, key)
         [] kind = "definition" -> GetDefinitionByKey(r, t, key)
         [] kind = "binding" -> BindingExists(r, t, refs)

\* scalar_one_or_none answers a row, or raises when there are several.
KeyTaken(kind, t, key, refs) == \E r \in Ids : rows[r].live /\ SameKey(kind, t, key, refs, r)

\* The unique constraints of the tables, which deleted rows still fill; NULL
\* tenants differ from each other, and entities have no constraint.
AssetUnique(r, key, refs) == rows[r].key = key \/ rows[r].refs = refs
DefinitionUnique(r, t, key) == rows[r].key = key /\ rows[r].tenant = t /\ t # System
RelationUnique(r, refs) == rows[r].refs = refs
ValueUnique(r, refs) == rows[r].refs = refs
BindingUnique(r, refs) == rows[r].refs = refs
DataPointUnique(r, t, key, refs) == rows[r].refs = refs /\ rows[r].key = key /\ rows[r].tenant = t
NameUnique(r, t, key) == rows[r].key = key /\ rows[r].tenant = t

ConstraintRefuses(kind, t, key, refs) ==
    \E r \in Ids : rows[r].kind = kind /\
        CASE kind = "entity" -> FALSE
          [] kind = "asset" -> AssetUnique(r, key, refs)
          [] kind = "definition" -> DefinitionUnique(r, t, key)
          [] kind = "relationship" -> RelationUnique(r, refs)
          [] kind = "value" -> ValueUnique(r, refs)
          [] kind = "binding" -> BindingUnique(r, refs)
          [] kind = "data_point" -> DataPointUnique(r, t, key, refs)
          [] OTHER -> NameUnique(r, t, key)

\* A client makes a call; the ids it passes exist, in whatever tenant and
\* state.  A relationship with itself is refused at once.  create_asset and
\* define_property look the key up as it is spelt and store it stripped.
BeginCall(c, kind, t, refs, raw, key) ==
    /\ call[c] = NotMade /\ kind \in scope
    /\ kind = "relationship" => refs[1] # refs[2]
    /\ t = System => kind \in {"definition", "value"}
    /\ raw # "" <=> kind = "value"
    /\ key = PaddedKey => kind \in {"asset", "definition"}
    /\ call' = [call EXCEPT ![c] = [pc |-> "looking", kind |-> kind, tenant |-> t, refs |-> refs,
                                    raw |-> raw, key |-> key, step |-> 1, looked |-> 0,
                                    value |-> IF kind = "definition" THEN "FLOAT" ELSE ""]]
    /\ UNCHANGED <<rows, edits, scope>>

\* The next query of a call answers: the call goes on, or ends with an error.
Query(c) ==
    /\ call[c].pc = "looking" /\ call[c].step <= Len(Queries[call[c].kind])
    /\ LET d == call[c]
           q == Queries[d.kind][d.step]
           Sees(r) == IF d.kind = "value" THEN AnyTenant(r, d.tenant) ELSE Visible(r, d.tenant)
           held == {r \in Ids : rows[r].kind = "value" /\ rows[r].refs = d.refs}
           value == IF q # "value" THEN d.value ELSE ValidateType(d.raw, rows[d.refs[1]].value)
           ok == CASE q = "first" -> Sees(d.refs[1])
                   [] q = "second" -> Sees(d.refs[2])
                   [] q = "key" -> ~KeyTaken(d.kind, d.tenant, d.key, d.refs)
                   [] q = "value" -> value # "none"
                   [] q = "raises" -> FALSE
           looked == CASE q = "key" -> Len(rows)
                       [] q = "value" /\ held # {} -> CHOOSE r \in held : TRUE
                       [] OTHER -> d.looked
       IN call' = [call EXCEPT ![c] =
              IF ~ok THEN Ended ELSE [d EXCEPT !.step = d.step + 1, !.value = value, !.looked = looked]]
    /\ UNCHANGED <<rows, edits, scope>>

\* flush and commit: set_property updates the value it found; the rest insert,
\* unless a constraint refuses, which ends the call with an error.
Write(c) ==
    /\ call[c].pc = "looking" /\ call[c].step > Len(Queries[call[c].kind])
    /\ LET k == call[c].kind IN
       rows' = CASE k = "value" /\ call[c].looked # 0 ->
                        [rows EXCEPT ![call[c].looked].value = call[c].value]
                 [] ConstraintRefuses(k, call[c].tenant, Strip(call[c].key), call[c].refs) -> rows
                 [] OTHER -> Append(rows,
                        Row(k, call[c].tenant, Strip(call[c].key), call[c].refs, call[c].value,
                            call[c].looked, Strip(call[c].key) # call[c].key))
    /\ call' = [call EXCEPT ![c] = Ended]
    /\ UNCHANGED <<edits, scope>>

\* soft_delete and the commit.
SoftDelete(r) ==
    /\ edits < MaxEdits /\ edits' = edits + 1
    /\ rows' = [rows EXCEPT ![r].live = FALSE]
    /\ UNCHANGED <<call, scope>>

\* The services' delete calls.  Property values are never deleted, no connection
\* exists to be deleted, and what refers to a deleted row stays.  Assets and
\* definitions are deleted without a tenant, a binding whoever's it is.
DeleteEntity(r, t) == rows[r].kind = "entity" /\ Visible(r, t) /\ SoftDelete(r)
DeleteAsset(r) == rows[r].kind = "asset" /\ rows[r].live /\ SoftDelete(r)
DeleteRelationship(r, t) == rows[r].kind = "relationship" /\ Visible(r, t) /\ SoftDelete(r)
DeleteDefinition(r) == rows[r].kind = "definition" /\ rows[r].live /\ SoftDelete(r)
DeleteDataSource(r, t) == rows[r].kind = "data_source" /\ Visible(r, t) /\ SoftDelete(r)
DeleteDevice(r, t) == rows[r].kind = "device" /\ Visible(r, t) /\ SoftDelete(r)
DeleteDataPoint(r, t) == rows[r].kind = "data_point" /\ Visible(r, t) /\ SoftDelete(r)
DeleteBinding(r) == rows[r].kind = "binding" /\ rows[r].live /\ SoftDelete(r)

\* update_entity sets any attribute, the name too, without a look at others.
UpdateEntity(r) ==
    /\ edits < MaxEdits /\ rows[r].live /\ rows[r].kind = "entity"
    /\ rows' = [rows EXCEPT ![r] = [@ EXCEPT !.key = FreshKey, !.unasked = TRUE]] /\ edits' = edits + 1
    /\ UNCHANGED <<call, scope>>

\* The ids a call of a kind can pass: of existing rows of the right tables.
Of(kind) == {r \in Ids : rows[r].kind = kind}
RefsOf(kind) ==
    CASE Len(Refers[kind]) = 0 -> {<<>>}
      [] Len(Refers[kind]) = 1 -> {<<r>> : r \in Of(Refers[kind][1])}
      [] Len(Refers[kind]) = 2 -> Of(Refers[kind][1]) \X Of(Refers[kind][2])

CatalogueNext ==
    \/ \E c \in CatalogueCalls, kind \in scope \ {"value"}, t \in Tenants \cup {System} :
           \E refs \in RefsOf(kind), key \in {FreshKey, PaddedKey} : BeginCall(c, kind, t, refs, "", key)
    \/ \E c \in CatalogueCalls, refs \in RefsOf("value"), raw \in RawValues :
           BeginCall(c, "value", System, refs, raw, FreshKey)
    \/ \E c \in CatalogueCalls : Query(c) \/ Write(c)
    \/ \E r \in Ids, t \in Tenants \cup {System} :
           \/ DeleteEntity(r, t) \/ DeleteRelationship(r, t)
           \/ DeleteDataSource(r, t) \/ DeleteDevice(r, t) \/ DeleteDataPoint(r, t)
    \/ \E r \in Ids : DeleteAsset(r) \/ DeleteDefinition(r) \/ DeleteBinding(r) \/ UpdateEntity(r)
-----------------------------------------------------------------------------
CatalogueTypeOK ==
    /\ \A r \in Ids : rows[r].kind \in Kinds /\ rows[r].tenant \in Tenants \cup {System}
    /\ \A c \in CatalogueCalls : call[c].pc \in {"ready", "looking", "ended"}
    /\ edits \in 0..MaxEdits

\* Tenant isolation of the stored graph: whatever ids clients pass, a row
\* refers only to rows of its own tenant (property values, which have no
\* tenant of their own, are left out).
RefsStayInTenant ==
    \A r \in Ids : rows[r].kind # "value" =>
        \A i \in DOMAIN rows[r].refs : rows[rows[r].refs[i]].tenant = rows[r].tenant

\* Rows that a service's uniqueness check would confuse exist side by side
\* only when their calls overlapped or one got a key that was never asked for
\* (by a rename, or stripped after the check): nothing that was committed when
\* a call looked is doubled by it.
NoTwinsInSequence ==
    \A i, j \in Ids :
        /\ i < j /\ rows[i].live /\ rows[j].live /\ ~rows[i].unasked /\ ~rows[j].unasked
        /\ "key" \in {Queries[rows[j].kind][n] : n \in DOMAIN Queries[rows[j].kind]}
        /\ rows[j].looked # 0
        /\ SameKey(rows[j].kind, rows[j].tenant, rows[j].key, rows[j].refs, i)
        => i > rows[j].looked

\* Every stored property value has the type its definition states, however
\* it was passed, coerced and overwritten.
ValuesFitDefinition ==
    \A r \in Ids : rows[r].kind = "value" =>
        rows[r].value \in Validators[rows[rows[r].refs[1]].value]
=============================================================================
