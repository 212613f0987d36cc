----------------------------- MODULE MmuProofs -----------------------------
(***************************************************************************)
(* Whatever the system refuses and whatever the host takes, in any order:  *)
(* what the constructor of MMU leaves for the guest, and what the          *)
(* destructor leaves behind.                                               *)
(***************************************************************************)
EXTENDS Mmu, TLAPS

\* The calls that put memory at the address of an area.
Backing == {"map", "allocate"}

\* Members and addresses agree until the destructor runs; a placeholder whose
\* member is null is left by a view that could not be mapped, unnoticed or not
\* survived.
Owned ==
    phase # "destroyed" =>
        \A a \in Areas :
            IF ptr[a]
            THEN space[a] \in {"placeholder", "view", "private"}
            ELSE \/ space[a] \in {"free", "foreign"}
                 \/ /\ a \in Views /\ space[a] = "placeholder"
                    /\ asserts => phase = "aborted"

\* The calls still to come find their areas without memory, and the guest has
\* not run.
Pending ==
    phase = "constructing" =>
     /\ touched = {}
     /\ \A j \in step .. 11 :
            /\ Constructor[j][1] \in {"reserve", "allocate"} =>
                  ~ ptr[Constructor[j][2]]
            /\ Constructor[j][1] = "map" =>
                  space[Constructor[j][2]] \notin {"view", "private"}

\* With asserts, every call so far has had its effect.
Backed ==
    asserts /\ phase \notin {"aborted", "destroyed"} =>
        \A i \in 1 .. (step - 1) :
            Constructor[i][1] \in Backing =>
                space[Constructor[i][2]] \in {"view", "private"}

IInv == TypeOK /\ Owned /\ Pending /\ Backed /\ HostIntact /\ CleanDestruction
-----------------------------------------------------------------------------
\* The constructor, call by call.
LEMMA Calls ==
    /\ Len(Constructor) = 11
    /\ Constructor[1] = <<"create", "section">>
    /\ Constructor[2] = <<"reserve", "main0">>
    /\ Constructor[3] = <<"reserve", "main1">>
    /\ Constructor[4] = <<"reserve", "main2">>
    /\ Constructor[5] = <<"map", "main0">>
    /\ Constructor[6] = <<"map", "main1">>
    /\ Constructor[7] = <<"map", "main2">>
    /\ Constructor[8] = <<"allocate", "io">>
    /\ Constructor[9] = <<"allocate", "vu">>
    /\ Constructor[10] = <<"allocate", "gs">>
    /\ Constructor[11] = <<"allocate", "scratchpad">>
  BY DEF Constructor

\* What each call is on.
LEMMA Targets ==
    \A i \in 1 .. 11 :
        /\ Constructor[i][1] # "create" => Constructor[i][2] \in Areas
        /\ Constructor[i][1] \in {"reserve", "map"} => Constructor[i][2] \in Views
        /\ Constructor[i][1] = "create" <=> i = 1
  BY Calls DEF Areas, Views, Allocations

\* Two calls on one area are the placeholder and the view over it.
LEMMA LaterCall ==
    \A i, j \in 1 .. 11 :
        i < j /\ Constructor[i][2] = Constructor[j][2]
          => Constructor[i][1] = "reserve" /\ Constructor[j][1] = "map"
<1> SUFFICES ASSUME NEW i \in 1 .. 11, NEW j \in 1 .. 11, i < j,
                    Constructor[i][2] = Constructor[j][2]
             PROVE  Constructor[i][1] = "reserve" /\ Constructor[j][1] = "map"
  OBVIOUS
<1>1. CASE i \in 1 .. 4
  BY <1>1, Calls
<1>2. CASE i \in 5 .. 11
  BY <1>2, Calls
<1> QED
  BY <1>1, <1>2

\* Every area gets its memory by one of the calls.
LEMMA AllBacked ==
    \A a \in Areas :
        \E i \in 1 .. 11 : Constructor[i][1] \in Backing /\ Constructor[i][2] = a
  BY Calls DEF Areas, Views, Allocations, Backing

LEMMA InitIInv == Init => IInv
<1> SUFFICES ASSUME Init PROVE IInv
  OBVIOUS
<1>1. TypeOK
  <2>1. Len(Constructor) = 11
    BY Calls
  <2>2. space \in [Places -> Contents]
    BY DEF Init, Contents
  <2>3. asserts \in BOOLEAN /\ section \in BOOLEAN /\ ptr \in [Areas -> BOOLEAN]
    BY BuildsAssumption DEF Init
  <2>4. touched \subseteq Places
    BY DEF Init
  <2>5. step = 1 /\ phase = "constructing"
    BY DEF Init
  <2> QED
    BY <2>1, <2>2, <2>3, <2>4, <2>5 DEF TypeOK, Phases
<1>2. Pending
  BY Targets DEF Init, Pending, Areas, Places
<1>3. Owned /\ Backed /\ HostIntact /\ CleanDestruction
  BY DEF Init, Owned, Backed, HostIntact, CleanDestruction, Places
<1> QED
  BY <1>1, <1>2, <1>3 DEF IInv

\* One call of the constructor on an area.
LEMMA ObtainIInv ==
    ASSUME IInv, NEW a \in Areas, NEW call, NEW ok \in BOOLEAN, NEW content,
           Calling(call, a), Obtain(a, ok, content),
           \/ /\ call = "reserve" /\ a \in Views /\ content = "placeholder"
              /\ ok => space[a] = "free"
           \/ /\ call = "map" /\ a \in Views /\ content = "view"
              /\ ok => ptr[a]
           \/ /\ call = "allocate" /\ content = "private"
              /\ ok => space[a] = "free"
    PROVE  IInv'
<1> USE Calls DEF Places
<1>1. /\ step \in 1 .. 11
      /\ phase = "constructing"
      /\ Constructor[step] = <<call, a>>
  BY DEF IInv, TypeOK, Calling
<1>2. /\ phase' \in {"constructing", "running", "aborted"}
      /\ phase' # "aborted" => step' = step + 1 /\ (ok \/ ~ asserts)
      /\ phase' = "aborted" => step' = step /\ ~ ok
      /\ phase' = "running" <=> (phase' # "aborted" /\ step = 11)
      /\ UNCHANGED <<asserts, section, touched>>
  BY <1>1 DEF Obtain, Checked, Continue
<1>3. TypeOK'
  <2>1. ptr' \in [Areas -> BOOLEAN] /\ space' \in [Places -> Contents]
    BY DEF IInv, TypeOK, Obtain, Contents
  <2> QED
    BY <1>1, <1>2, <2>1 DEF IInv, TypeOK, Phases
<1>4. Owned'
  <2> SUFFICES ASSUME NEW b \in Areas
               PROVE  IF ptr'[b]
                      THEN space'[b] \in {"placeholder", "view", "private"}
                      ELSE \/ space'[b] \in {"free", "foreign"}
                           \/ /\ b \in Views /\ space'[b] = "placeholder"
                              /\ asserts' => phase' = "aborted"
    BY DEF Owned
  <2>1. IF ptr[b]
        THEN space[b] \in {"placeholder", "view", "private"}
        ELSE \/ space[b] \in {"free", "foreign"}
             \/ b \in Views /\ space[b] = "placeholder" /\ ~ asserts
    BY <1>1 DEF IInv, Owned
  <2>2. CASE b # a
    BY <1>2, <2>1, <2>2 DEF IInv, TypeOK, Obtain
  <2>3. CASE b = a /\ ok
    BY <2>3 DEF IInv, TypeOK, Obtain
  <2>4. CASE b = a /\ ~ ok
    <3>1. ~ ptr'[a] /\ space'[a] = space[a]
      BY <2>4 DEF IInv, TypeOK, Obtain
    <3>2. asserts => phase' = "aborted"
      BY <1>2, <2>4
    <3>3. /\ call \in {"reserve", "allocate"} => ~ ptr[a]
          /\ call = "map" => space[a] \notin {"view", "private"}
      BY <1>1 DEF IInv, Pending
    <3> QED
      BY <1>2, <2>1, <2>4, <3>1, <3>2, <3>3
  <2> QED
    BY <2>2, <2>3, <2>4
<1>5. Pending'
  <2> SUFFICES ASSUME phase' = "constructing", NEW j \in step' .. 11
               PROVE  /\ Constructor[j][1] \in {"reserve", "allocate"} =>
                            ~ ptr'[Constructor[j][2]]
                      /\ Constructor[j][1] = "map" =>
                            space'[Constructor[j][2]] \notin {"view", "private"}
    BY <1>1, <1>2 DEF IInv, Pending
  <2>1. j \in 1 .. 11 /\ j > step
    BY <1>1, <1>2
  <2>2. /\ Constructor[j][1] \in {"reserve", "allocate"} =>
              ~ ptr[Constructor[j][2]]
        /\ Constructor[j][1] = "map" =>
              space[Constructor[j][2]] \notin {"view", "private"}
    BY <1>1, <2>1 DEF IInv, Pending
  <2>3. CASE Constructor[j][2] = a /\ Constructor[j][1] = "map"
    <3>1. call = "reserve"
      BY <1>1, <2>1, <2>3, LaterCall
    <3> QED
      BY <2>2, <2>3, <3>1 DEF IInv, TypeOK, Obtain
  <2>4. CASE ~ (Constructor[j][2] = a /\ Constructor[j][1] = "map")
    <3>1. Constructor[j][1] # "create" => Constructor[j][2] # a
      BY <1>1, <2>1, <2>4, LaterCall
    <3> QED
      BY <2>1, <2>2, <3>1, Targets DEF IInv, TypeOK, Obtain
  <2> QED
    BY <2>3, <2>4
<1>6. Backed'
  <2> SUFFICES ASSUME asserts, phase' # "aborted", NEW i \in 1 .. (step' - 1),
                      Constructor[i][1] \in Backing
               PROVE  space'[Constructor[i][2]] \in {"view", "private"}
    BY <1>2 DEF Backed
  <2>1. step' = step + 1 /\ ok /\ i \in 1 .. 11
    BY <1>1, <1>2
  <2>2. CASE i = step
    BY <1>1, <2>1, <2>2 DEF Backing, IInv, TypeOK, Obtain
  <2>3. CASE i # step
    <3>1. i \in 1 .. (step - 1)
      BY <1>1, <2>1, <2>3
    <3>2. space[Constructor[i][2]] \in {"view", "private"}
      BY <1>1, <3>1 DEF IInv, Backed
    <3>3. Constructor[i][2] # a
      BY <1>1, <2>1, <3>1, LaterCall DEF Backing
    <3> QED
      BY <2>1, <3>2, <3>3, Targets DEF Backing, IInv, TypeOK, Obtain
  <2> QED
    BY <2>2, <2>3
<1>7. HostIntact' /\ CleanDestruction'
  <2>1. touched = {}
    BY <1>1 DEF IInv, Pending
  <2> QED
    BY <1>1, <1>2, <2>1 DEF IInv, HostIntact, CleanDestruction
<1> QED
  BY <1>3, <1>4, <1>5, <1>6, <1>7 DEF IInv

\* With asserts every call of a constructor that was left to run has had its
\* effect, and together they obtain every area.
LEMMA CompleteMap == IInv => MapComplete
<1> SUFFICES ASSUME IInv, asserts, phase \in {"running", "crashed"},
                    NEW a \in Areas
             PROVE  ptr[a] /\ space[a] \in {"view", "private"}
  BY DEF MapComplete
<1>1. step = 12
  BY Calls DEF IInv, TypeOK
<1>2. PICK i \in 1 .. 11 : Constructor[i][1] \in Backing /\ Constructor[i][2] = a
  BY AllBacked
<1>3. space[a] \in {"view", "private"}
  BY <1>1, <1>2 DEF IInv, Backed
<1> QED
  BY <1>3 DEF IInv, Owned

LEMMA NextIInv == IInv /\ [Next]_vars => IInv'
<1> SUFFICES ASSUME IInv, [Next]_vars PROVE IInv'
  OBVIOUS
<1>1. CASE CreateFileMapping
  <2>1. /\ step = 1 /\ phase = "constructing"
        /\ UNCHANGED <<asserts, ptr, space, touched>>
    <3>1. step \in 1 .. 11 /\ Constructor[step] = <<"create", "section">>
      BY <1>1, Calls DEF CreateFileMapping, Calling, IInv, TypeOK
    <3> QED
      BY <1>1, <3>1, Targets DEF CreateFileMapping, Calling
  <2>2. \/ phase' = "aborted" /\ step' = 1
        \/ phase' = "constructing" /\ step' = 2
    BY <1>1, <2>1, Calls DEF CreateFileMapping, Checked, Continue
  <2>3. TypeOK'
    BY <1>1, <2>1, <2>2, Calls DEF CreateFileMapping, IInv, TypeOK, Phases
  <2>4. Owned' /\ Pending'
    BY <2>1, <2>2 DEF IInv, Owned, Pending
  <2>5. Backed'
    BY <2>1, <2>2, Targets DEF Backed, Backing
  <2> QED
    BY <2>1, <2>2, <2>3, <2>4, <2>5
       DEF IInv, HostIntact, CleanDestruction
<1>2. ASSUME NEW a \in Views, Reserve(a) \/ MapView(a) PROVE IInv'
  <2>1. a \in Areas
    BY DEF Areas
  <2>2. CASE Reserve(a)
    BY <2>1, <2>2, ObtainIInv DEF Reserve
  <2>3. CASE MapView(a)
    BY <2>1, <2>3, ObtainIInv DEF MapView
  <2> QED
    BY <1>2, <2>2, <2>3
<1>3. ASSUME NEW a \in Allocations, Allocate(a) PROVE IInv'
  <2>1. a \in Areas
    BY DEF Areas
  <2> QED
    BY <1>3, <2>1, ObtainIInv DEF Allocate
<1>4. ASSUME NEW a \in Places, HostAllocates(a) PROVE IInv'
  <2>1. /\ space[a] = "free"
        /\ space' = [space EXCEPT ![a] = "foreign"]
        /\ UNCHANGED <<asserts, step, phase, section, ptr, touched>>
    BY <1>4 DEF HostAllocates
  <2>2. space' \in [Places -> Contents]
    BY <2>1 DEF IInv, TypeOK, Contents
  <2>3. \A b \in Places : /\ b # a => space'[b] = space[b]
                          /\ b = a => space'[b] = "foreign"
    BY <2>1 DEF IInv, TypeOK
  <2>4. TypeOK'
    BY <2>1, <2>2 DEF IInv, TypeOK
  <2>5. Owned' /\ CleanDestruction'
    BY <2>1, <2>3 DEF IInv, Owned, CleanDestruction, Places
  <2>6. Pending'
    BY <2>1, <2>3, Targets DEF IInv, Pending, TypeOK, Areas, Places
  <2>7. Backed'
    BY <2>1, <2>3, Targets, Calls DEF IInv, Backed, Backing, TypeOK, Places
  <2> QED
    BY <2>1, <2>4, <2>5, <2>6, <2>7 DEF IInv, HostIntact
<1>5. ASSUME NEW a \in Places, GuestFaults(a) \/ GuestStores(a) PROVE IInv'
  <2>1. /\ phase = "running"
        /\ UNCHANGED <<asserts, step, section, ptr, space>>
    BY <1>5 DEF GuestFaults, GuestStores
  <2>2. a \in Areas /\ space[a] = "foreign" => ~ asserts /\ ~ ptr[a]
    BY <2>1, CompleteMap DEF IInv, Owned, MapComplete
  <2>3. \/ phase' = "crashed" /\ touched' = touched
        \/ phase' = "running" /\ touched' = touched
        \/ /\ phase' = "running" /\ touched' = touched \cup {a}
           /\ a \in Holes \/ (~ asserts /\ ~ ptr[a])
    BY <1>5, <2>1, <2>2 DEF GuestFaults, GuestStores, Places
  <2>4. TypeOK'
    BY <2>1, <2>3 DEF IInv, TypeOK, Phases
  <2>5. Owned' /\ Pending' /\ Backed'
    BY <2>1, <2>3 DEF IInv, Owned, Pending, Backed
  <2>6. HostIntact' /\ CleanDestruction'
    BY <2>1, <2>3 DEF IInv, HostIntact, CleanDestruction
  <2> QED
    BY <2>4, <2>5, <2>6 DEF IInv
<1>6. CASE Destroy
  <2>1. /\ phase = "running" /\ phase' = "destroyed" /\ ~ section'
        /\ UNCHANGED <<asserts, step, ptr, touched>>
    BY <1>6 DEF Destroy
  <2>2. \A a \in Areas : space'[a] = IF ptr[a] THEN "free" ELSE space[a]
    BY <1>6 DEF Destroy, Released, Places
  <2>3. TypeOK'
    BY <1>6, <2>1 DEF Destroy, IInv, TypeOK, Phases, Contents, Places
  <2>4. CleanDestruction'
    BY <2>1, <2>2 DEF IInv, Owned, CleanDestruction
  <2> QED
    BY <2>1, <2>3, <2>4
       DEF IInv, Owned, Pending, Backed, HostIntact
<1>7. CASE UNCHANGED vars
  BY <1>7 DEF vars, IInv, TypeOK, Owned, Pending, Backed, HostIntact,
              CleanDestruction
<1> QED
  BY <1>1, <1>2, <1>3, <1>4, <1>5, <1>6, <1>7 DEF Next

LEMMA Invariance == Spec => []IInv
  BY InitIInv, NextIInv, PTL DEF Spec
-----------------------------------------------------------------------------
\* The constructor never goes past its last call, and leaves it only to run or
\* to abort.
THEOREM TypeCorrect == Spec => []TypeOK
  BY Invariance, PTL DEF IInv

\* In the areas, the host's memory is out of the guest's reach in a Debug build,
\* and in a Release build where the constructor obtained the area; only a store
\* to a hole, which nothing checks, can reach it otherwise.
THEOREM HostStaysIntact == Spec => []HostIntact
  BY Invariance, PTL DEF IInv

\* In a Debug build a guest that runs, or has run until it faulted, has its
\* whole memory map.
THEOREM MapStaysComplete == Spec => []MapComplete
  BY Invariance, CompleteMap, PTL

\* What ~MMU leaves behind: at most the placeholder of a view that could not
\* be mapped, in a Release build.
THEOREM DestructionIsClean == Spec => []CleanDestruction
  BY Invariance, PTL DEF IInv

\* A member that is not null is of memory that is not the host's, and every
\* other call needs a free address.
LEMMA ForeignStep ==
    ASSUME IInv, [Next]_vars, NEW a \in Places, space[a] = "foreign"
    PROVE  space'[a] = "foreign"
<1>1. phase # "destroyed" /\ a \in Areas => ~ ptr[a]
  BY DEF IInv, Owned
<1>2. ASSUME NEW b \in Areas, NEW ok \in BOOLEAN, NEW content, Obtain(b, ok, content),
             ok => b # a
      PROVE  space'[a] = "foreign"
  BY <1>2 DEF Obtain, IInv, TypeOK
<1>3. ASSUME NEW b \in Views, Reserve(b) PROVE space'[a] = "foreign"
  BY <1>2, <1>3 DEF Reserve, Areas
<1>4. ASSUME NEW b \in Views, MapView(b) PROVE space'[a] = "foreign"
  BY <1>1, <1>2, <1>4 DEF MapView, Calling, Areas
<1>5. ASSUME NEW b \in Allocations, Allocate(b) PROVE space'[a] = "foreign"
  BY <1>2, <1>5 DEF Allocate, Areas
<1>6. ASSUME NEW b \in Places, HostAllocates(b) \/ GuestFaults(b) \/ GuestStores(b)
      PROVE  space'[a] = "foreign"
  BY <1>6 DEF HostAllocates, GuestFaults, GuestStores, IInv, TypeOK
<1>7. CASE Destroy
  BY <1>1, <1>7 DEF Destroy, Released
<1>8. CASE CreateFileMapping \/ UNCHANGED vars
  BY <1>8 DEF CreateFileMapping, vars
<1> QED
  BY <1>3, <1>4, <1>5, <1>6, <1>7, <1>8 DEF Next

\* Neither a call of the constructor nor ~MMU replaces or releases memory of
\* the host, at the address of an area or elsewhere.
THEOREM HostMemoryKept == Spec => ForeignKept
<1>1. IInv /\ [Next]_vars
        => [\A a \in Places : space[a] = "foreign" => space'[a] = "foreign"]_vars
  BY ForeignStep
<1> QED
  BY <1>1, Invariance, PTL DEF Spec, ForeignKept

=============================================================================
