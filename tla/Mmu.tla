-------------------------------- MODULE Mmu --------------------------------
(***************************************************************************)
(* The constructor and the destructor of MMU (src/src/mmu.cpp), and what   *)
(* guest accesses reach afterwards.  Every call to the system may fail;    *)
(* the constructor looks at results only in asserts, which a Release build *)
(* does not have.  Guest address a is host address vm_base_address + a     *)
(* whatever the pointers say, so an area that the constructor did not get, *)
(* and any address outside the areas, is not there or is the host's.       *)
(***************************************************************************)
EXTENDS Naturals, Sequences

CONSTANTS
    Builds, \* values of asserts: TRUE for Debug, FALSE for Release
    Holes   \* guest addresses between and behind the areas

ASSUME BuildsAssumption == Builds \subseteq BOOLEAN

VARIABLES
    asserts, \* whether assert aborts
    step,    \* the next call of the constructor
    phase,   \* constructing, running, or how the process or the MMU ended
    section, \* ee_main_memory_section # nullptr, and not closed
    ptr,     \* whether the member of each area is not null
    space,   \* what is at the address of each area and hole
    touched  \* history: where the guest stored into memory of the host

vars == <<asserts, step, phase, section, ptr, space, touched>>

\* ee_main_memory0 .. 2, and the areas of their own memory.
Views == {"main0", "main1", "main2"}

Allocations == {"io", "vu", "gs", "scratchpad"}

Areas == Views \cup Allocations

ASSUME HolesAssumption == Holes \cap Areas = {}

\* Where a guest access can go.
Places == Areas \cup Holes

Contents == {"free", "foreign", "placeholder", "view", "private"}

Phases == {"constructing", "running", "aborted", "crashed", "destroyed"}

\* The calls of the constructor, in its order.
Constructor ==
    << <<"create", "section">>,
       <<"reserve", "main0">>, <<"reserve", "main1">>, <<"reserve", "main2">>,
       <<"map", "main0">>, <<"map", "main1">>, <<"map", "main2">>,
       <<"allocate", "io">>, <<"allocate", "vu">>, <<"allocate", "gs">>,
       <<"allocate", "scratchpad">> >>

Calling(call, target) ==
    /\ phase = "constructing"
    /\ Constructor[step] = <<call, target>>
-----------------------------------------------------------------------------
\* The end of the constructor is missed.
Endless == step' = step + 1 /\ UNCHANGED phase

Continue ==
    /\ step' = step + 1
    /\ phase' = IF step = Len(Constructor) THEN "running" ELSE phase

\* A result that nothing looks at, in any build.
Unchecked(ok) == Continue

\* The assert after a call.
Checked(ok) ==
    IF ok \/ ~ asserts THEN Continue ELSE phase' = "aborted" /\ UNCHANGED step

CreateFileMapping ==
    /\ Calling("create", "section")
    /\ section' \in BOOLEAN
    /\ Checked(section')
    /\ UNCHANGED <<asserts, ptr, space, touched>>

\* The area is taken, and its address assigned to the member, or the member is
\* null and the area left as it is.
Obtain(a, ok, content) ==
    /\ ptr' = [ptr EXCEPT ![a] = ok]
    /\ space' = IF ok THEN [space EXCEPT ![a] = content] ELSE space
    /\ Checked(ok)
    /\ UNCHANGED <<asserts, section, touched>>

\* VirtualAlloc2 of a placeholder, which fails where anything else is; the
\* VirtualFree after its assert keeps the placeholder.
Reserve(a) ==
    /\ Calling("reserve", a)
    /\ \E ok \in BOOLEAN :
         /\ ok => space[a] = "free"
         /\ Obtain(a, ok, "placeholder")

\* MapViewOfFile3 of the section over the placeholder, if there are both.
MapView(a) ==
    /\ Calling("map", a)
    /\ \E ok \in BOOLEAN :
         /\ ok => section /\ ptr[a]
         /\ Obtain(a, ok, "view")

\* VirtualAlloc2, reserved and committed.
Allocate(a) ==
    /\ Calling("allocate", a)
    /\ \E ok \in BOOLEAN :
         /\ ok => space[a] = "free"
         /\ Obtain(a, ok, "private")

\* The rest of the process (libraries, heaps, stacks) is given addresses too.
HostAllocates(a) ==
    /\ phase \in {"constructing", "running", "destroyed"}
    /\ space[a] = "free"
    /\ space' = [space EXCEPT ![a] = "foreign"]
    /\ UNCHANGED <<asserts, step, phase, section, ptr, touched>>

\* No accessor compares an address with the areas, in any build: any of them
\* faults where no memory is.
GuestFaults(a) ==
    /\ phase = "running"
    /\ space[a] \in {"free", "placeholder"}
    /\ phase' = "crashed"
    /\ UNCHANGED <<asserts, step, section, ptr, space, touched>>

\* write8 .. write64, write or erase; one over several places is several stores.
GuestStores(a) ==
    /\ phase = "running"
    /\ space[a] \notin {"free", "placeholder"}
    /\ touched' = touched \cup (IF space[a] = "foreign" THEN {a} ELSE {})
    /\ UNCHANGED <<asserts, step, phase, section, ptr, space>>

\* Whatever is at the addresses of the areas.
ReleasedByAddress == Areas

\* The views are left to CloseHandle.
ReleasedWithoutViews == {a \in Allocations : ptr[a]}

\* UnmapViewOfFile and VirtualFree do nothing with a null pointer.
Released == {a \in Areas : ptr[a]}

\* ~MMU, at the end of a process that was not aborted.
Destroy ==
    /\ phase = "running"
    /\ phase' = "destroyed"
    /\ space' = [a \in Places |-> IF a \in Released THEN "free" ELSE space[a]]
    /\ section' = FALSE
    /\ UNCHANGED <<asserts, step, ptr, touched>>
-----------------------------------------------------------------------------
\* Anything may be at the addresses before the constructor runs.
Init ==
    /\ asserts \in Builds
    /\ step = 1
    /\ phase = "constructing"
    /\ section = FALSE
    /\ ptr = [a \in Areas |-> FALSE]
    /\ space \in [Places -> {"free", "foreign"}]
    /\ touched = {}

Next ==
    \/ CreateFileMapping
    \/ \E a \in Views : Reserve(a) \/ MapView(a)
    \/ \E a \in Allocations : Allocate(a)
    \/ \E a \in Places : HostAllocates(a) \/ GuestFaults(a) \/ GuestStores(a)
    \/ Destroy

Spec == Init /\ [][Next]_vars
-----------------------------------------------------------------------------
(* Properties.                                                             *)

\* The constructor makes each of its calls or aborts, and every place holds one
\* thing.
TypeOK ==
    /\ asserts \in BOOLEAN
    /\ step \in 1 .. (Len(Constructor) + 1)
    /\ phase \in Phases
    /\ phase \in {"constructing", "aborted"} <=> step <= Len(Constructor)
    /\ section \in BOOLEAN
    /\ ptr \in [Areas -> BOOLEAN]
    /\ space \in [Places -> Contents]
    /\ touched \subseteq Places

\* A guest store to an area reaches memory of the host only in a Release build,
\* and only if the call of the constructor for that area failed.  A store to a
\* hole reaches whatever the host has there, in any build.
HostIntact == \A a \in touched : a \in Holes \/ (~ asserts /\ ~ ptr[a])

\* In a Debug build a guest runs with the whole memory map, whatever failed and
\* whatever the host took at whatever point: it can fault in a hole only.
MapComplete ==
    asserts /\ phase \in {"running", "crashed"} =>
        \A a \in Areas : ptr[a] /\ space[a] \in {"view", "private"}

\* The destructor gives back what the constructor took, but for a placeholder
\* whose view could not be mapped: its address was overwritten with null.
CleanDestruction ==
    phase = "destroyed" =>
        /\ ~ section
        /\ \A a \in Areas :
             space[a] \notin {"free", "foreign"} =>
                 a \in Views /\ space[a] = "placeholder" /\ ~ ptr[a] /\ ~ asserts

\* Neither the constructor nor the destructor replaces or releases what the
\* host has, at the address of an area or elsewhere.
ForeignKept == [][\A a \in Places : space[a] = "foreign" => space'[a] = "foreign"]_vars

=============================================================================
