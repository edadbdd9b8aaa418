--------------------------- MODULE MCControlPlane ---------------------------
(***************************************************************************)
(* The database's schema and the services that guard who may put what into *)
(* it, checked side by side: the migrations, the tenants' catalogue, the   *)
(* concept hierarchy, the semantic schemas, the accounts and the registry  *)
(* of contract schemas.  They share no rows a property here speaks of, so  *)
(* a behaviour is one of a single part, chosen at the start.               *)
(***************************************************************************)
EXTENDS SchemaMigrations, TenantCatalogue, SemanticSchemas, Accounts, ContractRegistry,
        ConceptHierarchy

CONSTANTS k1, k2, k3

VARIABLE service_under_check

vars == <<migrationVars, catalogueVars, schemaVars, accountVars, registryVars, conceptVars,
          service_under_check>>

Services == {"migrations", "catalogue", "schemas", "accounts", "contracts", "concepts"}

\* The kinds of row that share a check or refer to each other.
MCKindScopes ==
    {{"entity", "asset"}, {"relationship"}, {"definition", "value"},
     {"data_source", "device"}, {"connection", "data_point"}, {"binding"}}

\* Properties that meet every branch of the validators: a good one, its name spelt
\* differently, an unknown type, a blank name, wrong optional fields, no dictionary.
Field(dict, name, type, optional) ==
    [dict |-> dict, name |-> name, type |-> type, optional |-> optional]
MCProperties ==
    {Field(TRUE, "load", "float", TRUE), Field(TRUE, "padded", "FLOAT", TRUE),
     Field(TRUE, "temp", "tensor", TRUE), Field(TRUE, "blank", "float", TRUE),
     Field(TRUE, "load", "absent", FALSE), Field(FALSE, "absent", "absent", TRUE)}

\* Contract schemas that differ in a bound, a type, a nested schema, the required
\* names or the rule on further names.
Scalar(type, max) == [type |-> type, max |-> max]
Contract(properties, required, closed) ==
    [properties |-> properties, required |-> required, closed |-> closed]
Nested(contract) ==
    [type |-> "object", properties |-> contract.properties, required |-> contract.required, closed |-> contract.closed]
Inner == Contract([y |-> Scalar("number", 1)], {"y"}, TRUE)
MCDiskSchemas ==
    {Contract([x |-> Scalar("string", 1)], {"x"}, FALSE), Contract([x |-> Nested(Inner)], {}, TRUE)}
MCProposals ==
    MCDiskSchemas \cup
    {Contract([x |-> Scalar("string", 2)], {"x"}, FALSE), Contract([x |-> Scalar("number", 1)], {"x"}, FALSE),
     Contract([x |-> Scalar("string", 1)], {"y"}, FALSE), Contract([x |-> Scalar("string", 1)], {"x"}, TRUE),
     Contract([x |-> Nested([Inner EXCEPT !.closed = FALSE])], {}, TRUE),
     Contract([x |-> Nested(Inner), y |-> Scalar("boolean", 1)], {}, TRUE)}
Value(kind, size) == [kind |-> kind, size |-> size]
Object(fields) == [kind |-> "object", fields |-> fields]
MCFields ==
    {Value("text", 1), Value("text", 2), Value("number", 1), Value("boolean", 1),
     Object([y |-> Value("number", 1)]), Object([y |-> Value("number", 2)]), Object([x |-> Value("text", 1)])}
MCDocuments == UNION {[K -> MCFields] : K \in {{"x"}, {"y"}}} \cup {[k \in {} |-> Value("text", 1)]}

Init ==
    /\ service_under_check \in Services
    /\ MigrationInit /\ CatalogueInit /\ SchemaInit /\ AccountInit /\ RegistryInit /\ ConceptInit
    /\ service_under_check # "catalogue" => scope = {"binding"}
    /\ service_under_check # "accounts" => tenant = "absent"
    /\ service_under_check # "contracts" => disk = [n \in SchemaNames |-> NoFile]

Serving(s, others) == service_under_check = s /\ UNCHANGED <<service_under_check, others>>

Migrations == Serving("migrations", <<catalogueVars, schemaVars, accountVars, registryVars, conceptVars>>)
Catalogue == Serving("catalogue", <<migrationVars, schemaVars, accountVars, registryVars, conceptVars>>)
SemanticTypes == Serving("schemas", <<migrationVars, catalogueVars, accountVars, registryVars, conceptVars>>)
AccountService == Serving("accounts", <<migrationVars, catalogueVars, schemaVars, registryVars, conceptVars>>)
Contracts == Serving("contracts", <<migrationVars, catalogueVars, schemaVars, accountVars, conceptVars>>)
Hierarchy == Serving("concepts", <<migrationVars, catalogueVars, schemaVars, accountVars, registryVars>>)

Next ==
    \/ Migrations /\ MigrationNext
    \/ Catalogue /\ CatalogueNext
    \/ SemanticTypes /\ SchemaNext
    \/ AccountService /\ AccountNext
    \/ Contracts /\ RegistryNext
    \/ Hierarchy /\ ConceptNext

\* The database answers every query of an edit, and the event loop resumes it.
Fairness == \A e \in Edits : WF_vars(Hierarchy /\ ConceptStep(e))

Spec == Init /\ [][Next]_vars /\ Fairness
-----------------------------------------------------------------------------

\* Rows refer to rows of their own tenant, are unique where calls did not
\* overlap and hold values their definition allows; sessions belong to users
\* who gave their password, and disabled ones get nothing.
TenantsAreGuarded ==
    /\ CatalogueTypeOK /\ RefsStayInTenant /\ NoTwinsInSequence /\ ValuesFitDefinition
    /\ AccountTypeOK /\ LoginsAreEarned /\ DisabledStaysOut

\* A stored semantic schema is one its validator accepts, the contract schemas
\* served come from one reading of the disk, and a contract change reported as
\* none changes no verdict.
SchemasAreTrusted ==
    /\ SchemaTypeOK /\ SchemasAreSound
    /\ RegistryTypeOK /\ ServesOneReading /\ ZeroDiffKeepsVerdicts
=============================================================================
