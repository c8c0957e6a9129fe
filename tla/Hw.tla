--------------------------------- MODULE Hw ---------------------------------
(***************************************************************************)
(* Package hw: the vendor registry and the ioctl tables of the vendors     *)
(* compiled into the agent (pkg/hw, pkg/hw/i915, pkg/hw/ivpu).  Everything *)
(* here is fixed once the package init functions have run, so the module   *)
(* has operators and no state.                                             *)
(***************************************************************************)
EXTENDS Naturals, Sequences

\* type Kind uint8: the value stored in the `ioctls` map and in an event.
KindUnknown == 0
KindSubmit  == 1
KindAlloc   == 2
KindWait    == 3
Kinds       == {KindUnknown, KindSubmit, KindAlloc, KindWait}

\* Kind.String: the label exported to Prometheus.
KindString(k) ==
    CASE k = KindSubmit -> "submit"
      [] k = KindAlloc  -> "alloc"
      [] k = KindWait   -> "wait"
      [] OTHER          -> "unknown"

KindNames == {"unknown", "submit", "alloc", "wait"}

\* registeredVendors after the init functions of the two imported packages,
\* which Go runs in import-path order.
registeredVendors == <<"i915", "ivpu">>

Vendors  == {"i915", "ivpu"}
NoVendor == "none"

\* Vendor.Match of i915 and of ivpu: the driver name each of them claims.
MatchI915(driver) == driver = "i915"
MatchIvpu(driver) == driver = "intel_vpu"

Match(vendor, driver) ==
    \/ vendor = "i915" /\ MatchI915(driver)
    \/ vendor = "ivpu" /\ MatchIvpu(driver)

\* Vendor.Ioctls of i915: 0x69, 0x5b and 0x6c.
IoctlsI915 ==
    [nr \in {105, 91, 108} |->
        IF nr = 105 THEN KindSubmit ELSE IF nr = 91 THEN KindAlloc ELSE KindWait]

\* Vendor.Ioctls of ivpu: 0x4d and 0x45, 0x42 and 0x46.
IoctlsIvpu ==
    [nr \in {77, 69, 66, 70} |->
        IF nr = 66 THEN KindAlloc ELSE IF nr = 70 THEN KindWait ELSE KindSubmit]

\* Vendor.Ioctls: request number (cmd & 0xff) to kind.
Ioctls(vendor) == IF vendor = "i915" THEN IoctlsI915 ELSE IoctlsIvpu

\* GetVendor: the first registered vendor that claims the driver, or nil.
GetVendor(driver) ==
    IF Match(registeredVendors[1], driver) THEN registeredVendors[1]
    ELSE IF Match(registeredVendors[2], driver) THEN registeredVendors[2]
    ELSE NoVendor

\* A registry lookup that gives every vendor the id of the first.
GetVendorIDConstant(vendorName) == 1

\* GetVendorID: position in the registry plus one, 0 when not registered.
GetVendorID(vendorName) ==
    IF vendorName = registeredVendors[1] THEN 1
    ELSE IF vendorName = registeredVendors[2] THEN 2
    ELSE 0

=============================================================================
