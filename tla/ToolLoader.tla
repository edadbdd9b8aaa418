----------------------------- MODULE ToolLoader -----------------------------
(***************************************************************************)
(* CustomToolLoader (services/ai/agent/tools/custom_tool_loader.py): tools *)
(* are found by importing every module of a directory, kept by tool name,  *)
(* and instantiated per tenant on demand.  Files change while the agent    *)
(* runs.  Three caches stand between a file and an instance: the           *)
(* interpreter's sys.modules (external), the loader's _module_cache and    *)
(* its _tool_instances.                                                    *)
(***************************************************************************)
EXTENDS Naturals, FiniteSets

CONSTANTS
    ModuleNames,        \* the modules of the directory, in the order of pkgutil: 1..n
    ToolNames,
    Tenants,
    MaxEdits            \* bound: changes of the directory

ASSUME LoaderConstants ==
    IsFiniteSet(ModuleNames) /\ ModuleNames = 1..Cardinality(ModuleNames) /\ MaxEdits \in Nat

VARIABLES
    disk,               \* external: what a file holds now
    imported,           \* external: sys.modules
    module_cache,       \* _module_cache
    loaded,             \* _loaded_tools: tool name -> where its class was found
    instances,          \* _tool_instances: {[tool, tenant, made]}, made = "none" when it failed
    edits

loaderVars == <<disk, imported, module_cache, loaded, instances, edits>>

\* A file is missing, does not import, or defines one class: for which tool, in
\* which revision, fit for _validate_tool_class or not, and instantiable or not.
Missing == [kind |-> "missing"]
Broken == [kind |-> "broken"]
Contents == {Missing, Broken} \cup
    [kind : {"tool"}, tool : ToolNames, revision : 0..MaxEdits, valid : BOOLEAN, builds : BOOLEAN]

NotLoaded == [module |-> 0, content |-> Missing]

LoaderInit ==
    /\ disk = [m \in ModuleNames |-> Missing]
    /\ imported = [m \in ModuleNames |-> Missing]
    /\ module_cache = [m \in ModuleNames |-> Missing]
    /\ loaded = [t \in ToolNames |-> NotLoaded]
    /\ instances = {}
    /\ edits = 0

EditFile(m, content) ==
    /\ edits < MaxEdits /\ content # disk[m]
    /\ content.kind = "tool" => content.revision = edits
    /\ disk' = [disk EXCEPT ![m] = content]
    /\ edits' = edits + 1
    /\ UNCHANGED <<imported, module_cache, loaded, instances>>

\* importlib.import_module: a module imported before is returned as it was.
Import(m) == IF imported[m] # Missing THEN imported[m] ELSE disk[m]

\* What _load_module gets for a module of the directory, given the module cache.
LoadModule(m, cache) == IF cache[m] # Missing THEN cache[m] ELSE Import(m)

\* Every instance is dropped before a scan.
ClearedInstances == {}

\* A class is registered under its tool_name when the validation finds no error.
Registers(content, t) == content.kind = "tool" /\ content.tool = t /\ content.valid

\* scan with the given module cache: modules in order, so the last one that
\* defines a tool name gives it its class.
ScanWith(cache) ==
    LET found == [m \in ModuleNames |-> IF disk[m] = Missing THEN Missing ELSE LoadModule(m, cache)]
        keep(old) == [m \in ModuleNames |-> IF found[m].kind = "tool" THEN found[m] ELSE old[m]]
        definers(t) == {m \in ModuleNames : Registers(found[m], t)}
    IN  /\ module_cache' = keep(cache)
        /\ imported' = keep(imported)
        /\ loaded' = [t \in ToolNames |->
              IF definers(t) = {} THEN NotLoaded
              ELSE LET m == CHOOSE m \in definers(t) : \A n \in definers(t) : n <= m
                   IN  [module |-> m, content |-> found[m]]]
        /\ instances' = ClearedInstances
        /\ UNCHANGED <<disk, edits>>

Scan == ScanWith(module_cache)

\* reload forgets the loader's own cache; sys.modules keeps what it has.
Reload == ScanWith([m \in ModuleNames |-> Missing])

Cached(t, tenant) == \E i \in instances : i.tool = t /\ i.tenant = tenant

\* get_tool_instance: made on first use and kept, a failure included.
GetToolInstance(t, tenant) ==
    /\ ~Cached(t, tenant) /\ loaded[t] # NotLoaded
    /\ LET content == Import(loaded[t].module)
           made == IF content.kind = "tool" /\ content.builds THEN content ELSE Missing
       IN  instances' = instances \cup {[tool |-> t, tenant |-> tenant, made |-> made]}
    /\ UNCHANGED <<disk, imported, module_cache, loaded, edits>>

\* validate_tool imports the module and leaves the loader's tables alone.
ValidateTool(m) ==
    /\ Import(m).kind = "tool" /\ imported[m] # Import(m)
    /\ imported' = [imported EXCEPT ![m] = Import(m)]
    /\ UNCHANGED <<disk, module_cache, loaded, instances, edits>>

LoaderNext ==
    \/ \E m \in ModuleNames, content \in Contents : EditFile(m, content)
    \/ Scan
    \/ Reload
    \/ \E t \in ToolNames, tenant \in Tenants : GetToolInstance(t, tenant)
    \/ \E m \in ModuleNames : ValidateTool(m)

-----------------------------------------------------------------------------
(* Properties.                                                             *)

LoaderTypeOK ==
    /\ disk \in [ModuleNames -> Contents]
    /\ \A m \in ModuleNames : imported[m].kind \in {"missing", "tool"} /\ module_cache[m].kind \in {"missing", "tool"}
    /\ \A t \in ToolNames : loaded[t] # NotLoaded => loaded[t].module \in ModuleNames
    /\ edits \in 0..MaxEdits

\* The caches agree: what the loader remembers of a module is what the interpreter
\* runs, and a registered tool is a valid class of an imported module.
CachesAgree ==
    /\ \A m \in ModuleNames : module_cache[m] # Missing => module_cache[m] = imported[m]
    /\ \A t \in ToolNames : loaded[t] # NotLoaded =>
          /\ loaded[t].content = imported[loaded[t].module]
          /\ loaded[t].content.tool = t /\ loaded[t].content.valid

\* An agent never holds an instance of a tool that is gone, or of other code than
\* the schema it was shown describes: after files were edited, removed or given
\* another module's tool name, and scanned, reloaded or validated in any order.
InstancesServeLoadedTools ==
    \A i \in instances :
       /\ loaded[i.tool] # NotLoaded
       /\ i.made # Missing => i.made = loaded[i.tool].content
=============================================================================
