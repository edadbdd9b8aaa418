-------------------------- MODULE ContractRegistry --------------------------
(***************************************************************************)
(* The registry of the frozen contract schemas                             *)
(* (services/core/src/contracts/registry.py): schemas are read from disk   *)
(* on first use, again on hot_reload, compared with a proposed schema and  *)
(* used to validate data.  A schema has properties, required names and a   *)
(* rule on further names; a property has a type, a bound and, when it is   *)
(* an object, a schema of its own.                                         *)
(***************************************************************************)
EXTENDS Integers, FiniteSets

CONSTANTS
    NumSchemas,     \* FROZEN_SCHEMAS has this many names, read in order
    DiskSchemas,    \* the contents a schema file can have
    Proposals,      \* the schemas diff is asked about
    Documents,      \* the data validated
    NoFile,         \* the content of a file that does not exist
    BrokenFile      \* the content of a file that is no JSON

ASSUME RegistryConstants == NumSchemas \in Nat

VARIABLES
    disk,           \* name -> content of its file, NoFile if it is missing
    disk_read,      \* disk when it was last read
    loaded_schemas, \* _schemas
    known_versions, \* names in _versions
    loaded,         \* _loaded
    half_read       \* did a load fail since the schemas were last cleared and read?

registryVars == <<disk, disk_read, loaded_schemas, known_versions, loaded, half_read>>

SchemaNames == 1..NumSchemas
FileContents == DiskSchemas \cup {NoFile, BrokenFile}

\* The names whose files are read before the first broken one.
ReadNames == {n \in SchemaNames : disk[n] # NoFile /\ \A m \in 1..n : disk[m] # BrokenFile}
Readable == \A n \in SchemaNames : disk[n] # BrokenFile
Contents(files) == [n \in {m \in SchemaNames : files[m] # NoFile} |-> files[n]]
NoSchemas == [n \in {} |-> NoFile]

RegistryInit ==
    /\ disk \in [SchemaNames -> FileContents] /\ disk_read = disk
    /\ loaded_schemas = NoSchemas /\ known_versions = {} /\ loaded = FALSE /\ half_read = FALSE
-----------------------------------------------------------------------------
\* Somebody replaces or removes a schema file.
WriteSchemaFile(n, s) ==
    /\ s # disk[n]
    /\ disk' = [disk EXCEPT ![n] = s]
    /\ UNCHANGED <<disk_read, loaded_schemas, known_versions, loaded, half_read>>

\* load into a table: what is read replaces what is there, a broken file raises
\* before the flag is set.
LoadInto(table) ==
    /\ loaded_schemas' = [n \in DOMAIN table \cup ReadNames |->
                             IF n \in ReadNames THEN disk[n] ELSE table[n]]
    /\ known_versions' = known_versions \cup ReadNames
    /\ loaded' = Readable /\ disk_read' = disk
    /\ UNCHANGED disk

\* load, reached from every query; it does nothing once the registry is loaded.
LoadSchemas == ~loaded /\ LoadInto(loaded_schemas) /\ half_read' = (half_read \/ ~Readable)

\* Plausible slip: the flag is not reset, and a loaded registry is left empty.
ClearsOnly ==
    /\ loaded_schemas' = NoSchemas /\ half_read' = FALSE /\ disk_read' = disk
    /\ UNCHANGED <<disk, known_versions, loaded>>

\* hot_reload clears the schemas, not the versions, and loads again.
HotReload == LoadInto(NoSchemas) /\ half_read' = ~Readable

RegistryNext ==
    \/ \E n \in SchemaNames, s \in FileContents : WriteSchemaFile(n, s)
    \/ LoadSchemas \/ HotReload
-----------------------------------------------------------------------------
Names(schema) == DOMAIN schema.properties

Modified(old, new) == {k \in Names(old) \cap Names(new) : old.properties[k] # new.properties[k]}

\* _semantic_diff
SemanticDiff(old, new) ==
    [removed |-> Names(old) \ Names(new), added |-> Names(new) \ Names(old),
     modified |-> Modified(old, new),
     required |-> (old.required \ new.required) \cup (new.required \ old.required)]

ZeroDiff == [removed |-> {}, added |-> {}, modified |-> {}, required |-> {}]

\* isinstance: a boolean is an integer and a number, too.
Instances == [string |-> {"text"}, number |-> {"number", "boolean"}, boolean |-> {"boolean"}, object |-> {"object"}]

\* _validate_value, for the values that are no objects: type, then the bound on
\* the length of a text or the size of a number.
ValidScalar(prop, value) ==
    /\ value.kind \in Instances[prop.type]
    /\ value.kind # "object" => value.size <= prop.max

\* _validate_data, with the test of a property's value as a parameter.
ValidFields(schema, data, Valid(_, _)) ==
    /\ schema.required \subseteq DOMAIN data
    /\ \A k \in DOMAIN data \cap Names(schema) : Valid(schema.properties[k], data[k])
    /\ schema.closed => DOMAIN data \subseteq Names(schema) \cup schema.required

\* An object's own schema nests no further here.
ValidValue(prop, value) ==
    /\ ValidScalar(prop, value)
    /\ value.kind = "object" => ValidFields(prop, value.fields, ValidScalar)

\* validate_against_schema
ValidDocument(schema, data) == ValidFields(schema, data, ValidValue)
-----------------------------------------------------------------------------
RegistryTypeOK ==
    /\ disk \in [SchemaNames -> FileContents]
    /\ DOMAIN loaded_schemas \subseteq known_versions /\ known_versions \subseteq SchemaNames
    /\ loaded \in BOOLEAN /\ half_read \in BOOLEAN

\* What a loaded registry serves is the whole of what was on disk when it last
\* read it, never a part of one reading; only after a load that failed half-way can
\* a later one leave schemas in it whose files are gone.
ServesOneReading == (loaded /\ ~half_read) => loaded_schemas = Contents(disk_read)

\* A proposal that differs from the served schema by nothing diff reports, and
\* treats further names alike (diff does not look at that rule), accepts exactly
\* the data the served schema accepts.
ZeroDiffKeepsVerdicts ==
    \A n \in DOMAIN loaded_schemas, p \in Proposals :
        (SemanticDiff(loaded_schemas[n], p) = ZeroDiff /\ p.closed = loaded_schemas[n].closed) =>
            \A d \in Documents : ValidDocument(loaded_schemas[n], d) = ValidDocument(p, d)
=============================================================================
