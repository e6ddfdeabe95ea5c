---------------------------- MODULE MmapReadFile ----------------------------
(***************************************************************************)
(* mmap.readFile on Windows: create a read-only file mapping, map a view   *)
(* of the whole file, query the view's region and check that it covers     *)
(* the size the caller asked for; then the caller's close function unmaps  *)
(* the view.  Each system call may fail.  The mapping handle is closed by  *)
(* a defer on every return after it was created; the view must be         *)
(* unmapped on every error return after it was mapped.                     *)
(***************************************************************************)
EXTENDS Naturals

CONSTANTS
    PageSize,  \* allocation granularity of a view's region
    MaxLen     \* bound: file length and requested size

ASSUME PageSize \in Nat \ {0} /\ MaxLen \in Nat

VARIABLES
    fileLen,  \* length of the file behind f
    size,     \* the size argument
    pc,       \* where readFile is
    handle,   \* the file mapping handle: "none", "open", "closed"
    view,     \* the mapped view: "none", "mapped", "unmapped"
    region,   \* info.RegionSize from VirtualQuery
    result    \* "pending", "ok" or the error returned

vars == <<fileLen, size, pc, handle, view, region, result>>

\* The region of a view of the whole file: its pages.
RoundUpToPage(n) == ((n + PageSize - 1) \div PageSize) * PageSize

\* A return: the deferred CloseHandle runs if the mapping was created.
Return(r) ==
    /\ pc' = "returned"
    /\ result' = r
    /\ handle' = IF handle = "open" THEN "closed" ELSE handle

Init ==
    /\ fileLen \in 0..MaxLen
    /\ size \in 0..MaxLen
    /\ pc = "create"
    /\ handle = "none"
    /\ view = "none"
    /\ region = 0
    /\ result = "pending"

\* windows.CreateFileMapping; a mapping of an empty file always fails.
CreateFileMapping ==
    /\ pc = "create"
    /\ \/ /\ fileLen > 0
          /\ handle' = "open"
          /\ pc' = "map"
          /\ UNCHANGED result
       \/ /\ Return("CreateFileMappingW")
    /\ UNCHANGED <<fileLen, size, view, region>>

\* windows.MapViewOfFile of the whole mapping.
MapViewOfFile ==
    /\ pc = "map"
    /\ \/ /\ view' = "mapped"
          /\ pc' = "query"
          /\ UNCHANGED <<handle, result>>
       \/ /\ Return("MapViewOfFile")
          /\ UNCHANGED view
    /\ UNCHANGED <<fileLen, size, region>>

\* Mutation: the VirtualQuery error path forgets to unmap the view.
VirtualQueryLeaksView ==
    /\ pc = "query"
    /\ \/ /\ region' = RoundUpToPage(fileLen)
          /\ pc' = "check"
          /\ UNCHANGED <<handle, result>>
       \/ /\ Return("VirtualQuery")
          /\ UNCHANGED region
    /\ UNCHANGED <<fileLen, size, view>>

\* windows.VirtualQuery of the view; on failure the view is unmapped.
VirtualQuery ==
    /\ pc = "query"
    /\ \/ /\ region' = RoundUpToPage(fileLen)
          /\ pc' = "check"
          /\ UNCHANGED <<handle, view, result>>
       \/ /\ view' = "unmapped"
          /\ Return("VirtualQuery")
          /\ UNCHANGED region
    /\ UNCHANGED <<fileLen, size>>

\* info.RegionSize < size: unmap and return ErrFileTooLarge; otherwise
\* return the view and its close function.
CheckRegionSize ==
    /\ pc = "check"
    /\ IF region < size
       THEN /\ view' = "unmapped"
            /\ Return("ErrFileTooLarge")
       ELSE /\ Return("ok")
            /\ UNCHANGED view
    /\ UNCHANGED <<fileLen, size, region>>

\* The caller calls the returned close function: UnmapViewOfFile.
Close ==
    /\ pc = "returned"
    /\ result = "ok"
    /\ pc' = "closed"
    /\ view' = "unmapped"
    /\ UNCHANGED <<fileLen, size, handle, region, result>>

Next ==
    \/ CreateFileMapping \/ MapViewOfFile \/ VirtualQuery
    \/ CheckRegionSize \/ Close

Spec == Init /\ [][Next]_vars

-----------------------------------------------------------------------------
\* Once readFile has returned, the mapping handle is closed whatever the
\* outcome, and a view is still mapped only if readFile succeeded and the
\* caller has not yet called the close function: no error path of
\* readFile leaks a handle or a view.
NoMappingLeak ==
    pc \in {"returned", "closed"} =>
        /\ handle # "open"
        /\ view = "mapped" => result = "ok" /\ pc = "returned"

=============================================================================
