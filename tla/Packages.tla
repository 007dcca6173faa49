------------------------------- MODULE Packages -------------------------------
(***************************************************************************)
(* From declarations to a running guest.  A program declares its types,    *)
(* modules and foreign interfaces in a registry (haphe-core), which is     *)
(* validated once; from then on it does not change.  The WIT generator     *)
(* writes a document from it, a guest component is built against the       *)
(* document, the binder defines the host's functions in a linker, the      *)
(* component is instantiated with the linker, and foreign callers look up  *)
(* the component's exports.  The document, the linker and the lookups      *)
(* derive their names from the registry independently of each other.       *)
(***************************************************************************)
EXTENDS WitBinding

CONSTANTS
  Given,             \* registries as programs have them to begin with
  Palette,           \* the declarations a program may add
  MaxDeclarations    \* bound on the declarations of a registry

ASSUME PackagesAssumption ==
  /\ MaxDeclarations \in Nat
  /\ \A r \in Given : IsRegistry(r)
  /\ \A d \in Palette : IsDeclaration(d)

VARIABLES
  reg,        \* the registry, or what its builder holds so far
  status,     \* of the registry: "building", "invalid", "validated", ...
  plan,       \* what Plan::build made of the registry
  document,   \* "none", "written" or "refused" by the generator
  linker,     \* "none", "bound" or "refused" by the binder
  guest,      \* "none", "running", or "unlinkable": an import is not defined
  callers     \* foreign callers: what connecting each of them came to

vars == <<reg, status, plan, document, linker, guest, callers>>

Declarations == Len(reg.structs) + Len(reg.enums) + Len(reg.aliases) + Len(reg.foreigns)
                + Len(reg.modules) + Len(reg.insts)

Held(d) == CASE d.sort = "struct"  -> d.desc \in ToSet(reg.structs)
             [] d.sort = "enum"    -> d.desc \in ToSet(reg.enums)
             [] d.sort = "alias"   -> d.desc \in ToSet(reg.aliases)
             [] d.sort = "foreign" -> d.desc \in ToSet(reg.foreigns)
             [] d.sort = "module"  -> d.desc \in ToSet(reg.modules)
             [] d.sort = "inst"    -> d.desc \in ToSet(reg.insts)

\* The generator's capabilities, and the binder's: hosted values are Send.
WitCapabilities == AllCapabilities \ {"callback"}
BinderCapabilities == WitCapabilities \cup {"send"}

\* How a foreign interface can be addressed: a generic one by the arguments
\* of an instantiation, each with or without the registry at hand.
Addresses ==
  {[foreign |-> f, args |-> <<>>, planned |-> planned] :
     f \in {g \in ToSet(reg.foreigns) : g.generics = <<>>}, planned \in BOOLEAN}
  \cup {[foreign |-> WithId(reg.foreigns, inst.id), args |-> inst.args, planned |-> planned] :
          inst \in {i \in ToSet(reg.insts) : i.id \in Ids(reg.foreigns)}, planned \in BOOLEAN}

NoPlan == [reg |-> Empty, paths |-> <<>>, instances |-> <<>>, interfaces |-> <<>>]

\* The registry does not change once it is validated, so what was generated
\* and what was bound are functions of its plan.
Document == DocOf(plan)
Linker == LinkerOf(plan)

-----------------------------------------------------------------------------
Init ==
  /\ reg \in Given
  /\ status = "building"
  /\ plan = NoPlan
  /\ document = "none" /\ linker = "none"
  /\ guest = "none"
  /\ callers = {}

\* TypeRegistryBuilder: an id that is taken is refused.
DeclareAfterPlan(d) ==
  /\ status \in {"building", "planned"}
  /\ Declarations < MaxDeclarations
  /\ ~Held(d)
  /\ ~Refused(reg, d)
  /\ reg' = Register(reg, d)
  /\ UNCHANGED <<status, plan, document, linker, guest, callers>>

Declare(d) ==
  /\ status = "building"
  /\ Declarations < MaxDeclarations
  /\ ~Held(d)
  /\ ~Refused(reg, d)
  /\ reg' = Register(reg, d)
  /\ UNCHANGED <<status, plan, document, linker, guest, callers>>

Validate ==
  /\ status = "building"
  /\ status' = IF Validates(reg) THEN "validated" ELSE "invalid"
  /\ UNCHANGED <<reg, plan, document, linker, guest, callers>>

\* Plan::build, with which generate, bind and foreign_caller_in all begin:
\* they get the same plan from the same registry.
Plan ==
  /\ status = "validated"
  /\ plan' = IF InstancesMangle(reg) THEN PlanOf(reg) ELSE NoPlan
  /\ status' = IF InstancesMangle(reg) /\ PlanAgrees(plan') THEN "planned" ELSE "unplannable"
  /\ UNCHANGED <<reg, document, linker, guest, callers>>

\* generate checks the capabilities first; an error leaves nothing behind.
Generate ==
  /\ status = "planned" /\ document = "none"
  /\ document' = IF Supports(WitCapabilities, reg) /\ Generates(plan) THEN "written" ELSE "refused"
  /\ UNCHANGED <<reg, status, plan, linker, guest, callers>>

Bind ==
  /\ status = "planned" /\ linker = "none"
  /\ linker' = IF Supports(BinderCapabilities, reg) /\ Binds(plan) THEN "bound" ELSE "refused"
  /\ UNCHANGED <<reg, status, plan, document, guest, callers>>

\* The component that was built against the document meets the linker.
Instantiate ==
  /\ document = "written" /\ linker = "bound" /\ guest = "none"
  /\ guest' = IF Unserved(Document, Linker) = {} THEN "running" ELSE "unlinkable"
  /\ UNCHANGED <<reg, status, plan, document, linker, callers>>

\* foreign_caller, foreign_caller_in: a caller that gets to its lookups finds
\* its exports or does not.
Connect(a) ==
  /\ guest = "running"
  /\ a \notin {c.address : c \in callers}
  /\ callers' = callers \cup
       {[address |-> a,
         outcome |-> IF ~CallerResolves(reg, a.planned, a.foreign, a.args) THEN "refused"
                     ELSE IF Exported(Document, reg, a.planned, a.foreign, a.args)
                     THEN "connected" ELSE "missing"]}
  /\ UNCHANGED <<reg, status, plan, document, linker, guest>>

Next ==
  \/ \E d \in Palette : Declare(d)
  \/ Validate
  \/ Plan
  \/ Generate
  \/ Bind
  \/ Instantiate
  \/ \E a \in Addresses : Connect(a)

Spec == Init /\ [][Next]_vars

-----------------------------------------------------------------------------
TypeOK ==
  /\ IsRegistry(reg)
  /\ status \in {"building", "invalid", "validated", "planned", "unplannable"}
  /\ guest \in {"none", "running", "unlinkable"}
  /\ document \in {"none", "written", "refused"}
  /\ linker \in {"none", "bound", "refused"}
  /\ plan.reg \in {Empty, reg}
  /\ {c.address : c \in callers} \subseteq Addresses

\* A component that imports the generated world can be instantiated with the
\* linker: `bind` defines every function, resource and resource member of the
\* document under the name the document gives it.  A name that is a keyword
\* is the exception: the document escapes it, the parser takes the escape off
\* again, and the linker keeps it.
WorldIsServed ==
  guest # "none" =>
    \A u \in Unserved(Document, Linker) :
      \E text \in {u.interface, u.import.res, u.import.name} : Escaped(text)

\* The same without the exception.
LinkerNamesMatch == guest # "unlinkable"

\* The plan keeps the first of the instantiations whose mangled names are
\* spelled alike, even if they are of different generic types.
Shadowed(foreign, args) ==
  \E inst \in ToSet(reg.insts) :
    /\ inst.id # foreign.id
    /\ InstanceName(reg, inst.id, inst.args) = InstanceName(reg, foreign.id, args)

\* A foreign caller that gets to its lookups finds them: the instance and the
\* function names it derives are the ones the document gave the component.
\* Escaped names are the exception again, an interface without functions,
\* which the document leaves out, and an instance whose name another one has.
CallersFindExports ==
  \A c \in callers :
    LET f == c.address.foreign
        texts == {CallerInstance(reg, c.address.planned, f, c.address.args)}
                 \cup {ToKebab(m.entry.text) :
                         m \in ToSet(CallerLookups(reg, c.address.planned, f))}
    IN  c.outcome = "missing" => \/ f.functions = <<>>
                                 \/ \E text \in texts : Escaped(text)
                                 \/ f.generics # <<>> /\ Shadowed(f, c.address.args)

\* What validation accepts the plan can be built from: each concrete type is
\* defined in one interface, and every id the generator and the binder look
\* up without a check has an entry (they index maps and unwrap).
PlanIsTotal ==
  status = "planned" =>
    /\ LookupsHit(plan)
    /\ \A d \in ToSet(ValueTypes(reg)) :
         d.id \in Generic(reg)
         \/ Cardinality({k \in DOMAIN plan.interfaces :
                           d.id \in ToSet(plan.interfaces[k].types)}) = 1
=============================================================================
