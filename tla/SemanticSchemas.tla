-------------------------- MODULE SemanticSchemas --------------------------
(***************************************************************************)
(* Entity types and capabilities of one tenant and the validators of their *)
(* schemas (services/ontology/services.py, validators.py).  A property of  *)
(* a schema is what the validators tell apart: whether it is a dictionary, *)
(* how its name and type are spelt, whether its optional fields have the   *)
(* right type.  What is stored is what an outside caller of the services   *)
(* flushes and commits; the routes make no commit and are rolled back.     *)
(***************************************************************************)
EXTENDS Naturals, Sequences

CONSTANTS
    SchemaCalls,        \* bound: the service calls
    Properties,         \* bound: the properties a request's schema may list
    MaxProperties       \* bound: how many it lists

VARIABLES
    definition_rows,    \* <<kind, code>> -> schema, as stored
    schema_call         \* call -> what it asks and how far it is

schemaVars == <<definition_rows, schema_call>>

DefinitionKinds == {"entity_type", "capability"}
Codes == {"pump", "Pump"}
Stored == DOMAIN definition_rows

\* request.property_schema and request.schema_definition: JSON of any shape, with
\* or without the version field, "properties" left out, a list or something else.
RequestSchemas ==
    [version : BOOLEAN, shape : {"absent", "scalar"}, items : {<<>>}]
    \cup [version : BOOLEAN, shape : {"list"},
          items : UNION {[1..n -> Properties] : n \in 0..MaxProperties}]

\* name.strip().lower() and data_type.lower(): the spellings of the requests.
Canonical == [padded |-> "load", load |-> "load", temp |-> "temp", blank |-> "", absent |-> "",
              float |-> "float", FLOAT |-> "float", tensor |-> "tensor"]
ASSUME SchemaConstants ==
    /\ MaxProperties \in Nat
    /\ Properties \subseteq [dict : BOOLEAN, name : DOMAIN Canonical, type : DOMAIN Canonical,
                            optional : BOOLEAN]

VALID_DATA_TYPES == {"string", "integer", "float", "boolean", "datetime", "json"}

SchemaInit ==
    /\ definition_rows = [k \in {} |-> <<>>]
    /\ schema_call = [c \in SchemaCalls |-> [pc |-> "idle"]]
-----------------------------------------------------------------------------
\* _validate_property: the names seen so far and whether an error was met.  A
\* name is remembered when it is new, whatever else is wrong with its property.
ValidateProperty(found, p) ==
    LET name == Canonical[p.name]
        badName == name = "" \/ name \in found.seen
        badType == Canonical[p.type] \notin VALID_DATA_TYPES
    IN IF ~p.dict THEN [seen |-> found.seen, bad |-> TRUE]
       ELSE [seen |-> IF badName THEN found.seen ELSE found.seen \cup {name},
             bad |-> found.bad \/ badName \/ badType \/ ~p.optional]

\* What was found before and after each property of the list.
ValidateLoop(items) ==
    LET found[i \in 0..Len(items)] ==
          IF i = 0 THEN [seen |-> {}, bad |-> FALSE] ELSE ValidateProperty(found[i - 1], items[i])
    IN found

\* CapabilitySchemaValidator.validate: is the list of errors empty?
CapabilityIsValid(schema) ==
    /\ schema.version
    /\ schema.shape = "list" /\ schema.items # <<>>
    /\ ~ValidateLoop(schema.items)[Len(schema.items)].bad

\* EntityTypeValidator.validate_property_schema: a schema without properties is fine.
EntityTypeIsValid(schema) ==
    \/ schema.shape = "absent"
    \/ /\ schema.shape = "list"
       /\ \A i \in DOMAIN schema.items :
              schema.items[i].dict /\ schema.items[i].name # "absent"

SchemaIsValid(kind, schema) ==
    IF kind = "capability" THEN CapabilityIsValid(schema) ELSE EntityTypeIsValid(schema)
-----------------------------------------------------------------------------
\* An entity type's code is looked up and stored in lower case, a capability's as it is spelt.
StoredCode(kind, code) == IF kind = "entity_type" THEN "pump" ELSE code

\* create_entity_type, create_capability: the code must be free when it is looked up,
\* then the schema is validated.
CreateDefinition(c, kind, code, schema) ==
    /\ schema_call[c].pc = "idle"
    /\ <<kind, StoredCode(kind, code)>> \notin Stored
    /\ schema_call' = [schema_call EXCEPT ![c] =
          [pc |-> IF SchemaIsValid(kind, schema) THEN "flush" ELSE "refused",
           row |-> <<kind, StoredCode(kind, code)>>, schema |-> schema]]
    /\ UNCHANGED definition_rows

\* repository.create flushes; uq_etype_tenant_code and uq_capability_tenant_code
\* refuse a code another call stored since.
FlushCreate(c) ==
    /\ schema_call[c].pc = "flush"
    /\ definition_rows' =
          IF schema_call[c].row \in Stored THEN definition_rows
          ELSE [k \in Stored \cup {schema_call[c].row} |->
                  IF k = schema_call[c].row THEN schema_call[c].schema ELSE definition_rows[k]]
    /\ schema_call' = [schema_call EXCEPT ![c] = [pc |-> "done"]]

\* update_entity_type, update_capability with a schema: an invalid one raises before
\* the flush, so none of the fields set before it is stored.
UpdateDefinition(c, row, schema) ==
    /\ schema_call[c].pc = "idle" /\ row \in Stored
    /\ schema_call' = [schema_call EXCEPT ![c] =
          [pc |-> IF SchemaIsValid(row[1], schema) THEN "write" ELSE "refused",
           row |-> row, schema |-> schema]]
    /\ UNCHANGED definition_rows

\* session.flush of an update: the later of two overlapping ones stays.
FlushUpdate(c) ==
    /\ schema_call[c].pc = "write"
    /\ definition_rows' = [definition_rows EXCEPT ![schema_call[c].row] = schema_call[c].schema]
    /\ schema_call' = [schema_call EXCEPT ![c] = [pc |-> "done"]]

SchemaNext ==
    \E c \in SchemaCalls :
        \/ \E kind \in DefinitionKinds, code \in Codes, s \in RequestSchemas :
               CreateDefinition(c, kind, code, s)
        \/ \E row \in Stored, s \in RequestSchemas : UpdateDefinition(c, row, s)
        \/ FlushCreate(c) \/ FlushUpdate(c)
-----------------------------------------------------------------------------
SchemaTypeOK ==
    /\ Stored \subseteq DefinitionKinds \X Codes
    /\ \A k \in Stored : definition_rows[k].shape \in {"absent", "scalar", "list"}
    /\ \A c \in SchemaCalls : schema_call[c].pc \in {"idle", "flush", "write", "refused", "done"}

\* What a reader of a stored schema relies on, said without the validators' pass
\* over the list: named dictionaries and, for a capability, a version and
\* properties whose names stay apart when case and blanks are ignored.
Sound(kind, schema) ==
    LET ps == schema.items
        Named(p) == p.dict /\ p.name # "absent"
    IN /\ schema.shape # "scalar"
       /\ \A i \in DOMAIN ps : Named(ps[i])
       /\ kind = "capability" =>
             /\ schema.version /\ Len(ps) > 0
             /\ \A i \in DOMAIN ps : /\ Canonical[ps[i].type] \in VALID_DATA_TYPES
                                     /\ ps[i].optional /\ ps[i].name # "blank"
             /\ \A i, j \in DOMAIN ps : i # j => Canonical[ps[i].name] # Canonical[ps[j].name]

\* A schema is stored, by a creation or by a later update, only if it is sound, and
\* refused only if it is not: the validators' one pass (validators.py:40-42) decides
\* exactly that.
SchemasAreSound ==
    /\ \A k \in Stored : Sound(k[1], definition_rows[k])
    /\ \A c \in SchemaCalls : schema_call[c].pc = "refused" =>
           ~Sound(schema_call[c].row[1], schema_call[c].schema)
=============================================================================
