--------------------------- MODULE ServiceFactory ---------------------------
(***************************************************************************)
(* The table of service classes of stratum/services.py: how a class gets   *)
(* into it when its module is imported, and which class a call of          *)
(* "service[vendor].method" runs.  The classes of a type are kept in the   *)
(* order of Python's dictionaries: a vendor that registers again replaces  *)
(* its class and keeps its place.                                          *)
(***************************************************************************)
EXTENDS Naturals, Sequences

CONSTANTS
  ServiceType,   \* names of services
  Vendor,        \* names of vendors
  NoVendor       \* a call without a vendor, or with an empty one

ASSUME VendorAssumption == NoVendor \notin Vendor

VARIABLE registry   \* service type -> its classes, oldest vendor first

ServiceClass == [vendor : Vendor, is_default : BOOLEAN]

FactoryTypeOK == registry \in [ServiceType -> Seq(ServiceClass)]

FactoryInit == registry = [t \in ServiceType |-> <<>>]

Default(t) == {i \in DOMAIN registry[t] : registry[t][i].is_default}

\* Mutant: the loop over the vendors forgets to return the default.
lookup_last(t, v) ==
  IF v # NoVendor THEN {i \in DOMAIN registry[t] : registry[t][i].vendor = v}
                  ELSE DOMAIN registry[t] \cap {Len(registry[t])}

\* The place of the class that answers for a type; none when lookup raises
\* ServiceNotFoundException.
lookup(t, v) ==
  IF v # NoVendor
  THEN {i \in DOMAIN registry[t] : registry[t][i].vendor = v}
  ELSE IF Default(t) # {}
  THEN {i \in Default(t) : \A j \in Default(t) : i <= j}
  ELSE DOMAIN registry[t] \cap {Len(registry[t])}

\* What a client writes before the brackets of its parameters.  A function is
\* refused when its name starts with an underscore, is missing or not
\* callable, and so is a path that has no dot.
Path == [service_type : ServiceType, vendor : Vendor \cup {NoVendor},
         func : {"callable", "refused"}]

\* The class that runs a call; none when it ends in MethodNotFoundException.
call(path) ==
  IF path.func = "callable" THEN lookup(path.service_type, path.vendor) ELSE {}

\* Mutant: a class that registers again goes to the end, and its vendor stays
\* in the table twice.
registered_twice(t, cls) == Append(registry[t], cls)

registered(t, cls) ==
  IF lookup(t, cls.vendor) = {} THEN Append(registry[t], cls)
  ELSE [i \in DOMAIN registry[t] |->
          IF registry[t][i].vendor = cls.vendor THEN cls ELSE registry[t][i]]

\* register_service, for a class with all its properties whose _setup works;
\* any other raises before the table changes, as does a second default.
register_service(t, v, is_default) ==
  /\ is_default => \A i \in lookup(t, NoVendor) : ~registry[t][i].is_default
  /\ registry' = [registry EXCEPT
                    ![t] = registered(t, [vendor |-> v, is_default |-> is_default])]

-----------------------------------------------------------------------------
(* Properties *)

\* A vendor has one class of a type and a type has one default, in whatever
\* order modules are imported and however often a vendor registers again,
\* with or without being the default.
OneDefault ==
  \A t \in ServiceType : \A i, j \in DOMAIN registry[t] :
    \/ registry[t][i].vendor = registry[t][j].vendor
    \/ registry[t][i].is_default /\ registry[t][j].is_default
    => i = j

\* The vendor that answers calls without a vendor.
Answering(t) == {registry[t][i].vendor : i \in lookup(t, NoVendor)}

\* Once a default service answers calls that name no vendor, no import takes
\* them away from it, unless its own vendor registers a class again.
DefaultStays ==
  [][\A t \in ServiceType :
       Default(t) # {} /\ Default(t)' # {} => Answering(t)' = Answering(t)]_registry
=============================================================================
