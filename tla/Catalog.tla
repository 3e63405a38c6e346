------------------------------ MODULE Catalog --------------------------------
(***************************************************************************)
(* How the catalog reaches the file and comes back (catalog/catalog.cpp):  *)
(* Persist rewrites a chain of pages starting at page 0, page by page, and *)
(* Load walks the chain again when the database is opened.  Both go        *)
(* straight to the DiskManager.  Between the steps of Persist column pages *)
(* do not appear (one statement runs at a time), between statements they   *)
(* do; the process may die between any two page writes.                    *)
(*                                                                         *)
(* The serialized tables are a version: an id and the number of pages its  *)
(* body needs.  The payload of a page is one slice of a version.           *)
(***************************************************************************)
EXTENDS Integers, Sequences, FiniteSets, SequencesExt

CONSTANTS
    MaxPages,           \* bound: the pages the file may grow to
    MaxColumnPages,     \* bound: the column pages among them
    MaxSlices,          \* bound: the pages a catalog body may need
    MaxVersions,        \* bound: how often the catalog changes
    MaxWalk,            \* bound: the pages a walk of the chain visits
    MaxTorn             \* bound: the pages of a catalog body whose Persist may
                        \*   throw, or during which the process may die

\* The file has room for every page that Persist can ask for: a shrunk chain
\* is not reused, so each version may allocate all its pages but the first.
ASSUME CatalogAssumption ==
    /\ MaxSlices \in Nat \ {0}
    /\ MaxVersions \in Nat
    /\ MaxColumnPages \in Nat
    /\ MaxPages \in Nat
    /\ MaxPages > MaxColumnPages + MaxVersions * (MaxSlices - 1)
    /\ MaxWalk \in Nat
    /\ MaxTorn \in 0 .. MaxSlices

Pages == 0 .. MaxPages - 1
kInvalidPageId == -1
NoSlice == <<0, 0>>

\* A version of the catalog: its body fills the slices 1 .. n.
Version(id, n) == [id |-> id, n |-> n]
Empty == Version(0, 1)
Garbage == Version(-1, 1)

\* PageHeader and payload.  AllocatePage appends ZeroPage: kFree, no payload,
\* and a next_page_id of zero, which is page 0.
ZeroPage == [type |-> "free", next |-> 0, slice |-> NoSlice]
ColumnPage == [type |-> "column", next |-> kInvalidPageId, slice |-> NoSlice]

VARIABLES
    file,           \* file[p]: page p
    num_pages,      \* pages in the file
    tables,         \* the version in memory
    versions,       \* how many versions there have been
    pc,             \* "idle", "probe", "alloc", "write", "load", or "failed"
    chain,          \* Persist: the pages it will write
    next,           \* Persist and Load: the next page of the walk
    i,              \* Persist: the slice it writes next
    body,           \* Load: the slices read so far
    committed,      \* history: the version of the last Persist that returned
    inflight        \* history: the version of a Persist that was cut short

vars == <<file, num_pages, tables, versions, pc, chain, next, i, body, committed, inflight>>

\* DiskManager has just created the file: page 0 is a page of zeros.
Init ==
    /\ file = [p \in Pages |-> ZeroPage]
    /\ num_pages = 1
    /\ tables = Empty
    /\ versions = 0
    /\ pc = "idle"
    /\ chain = <<>>
    /\ next = kInvalidPageId
    /\ i = 1
    /\ body = <<>>
    /\ committed = Empty
    /\ inflight = Empty

-----------------------------------------------------------------------------
(* Persist.                                                                *)

\* The tables change in memory and Persist starts: the chain begins with
\* page 0, whose next_page_id counts only if page 0 is a catalog page.
BeginPersist(n) ==
    /\ pc = "idle"
    /\ versions < MaxVersions
    /\ versions' = versions + 1
    /\ tables' = Version(versions + 1, n)
    /\ chain' = <<0>>
    /\ next' = IF file[0].type = "catalog" THEN file[0].next ELSE kInvalidPageId
    /\ pc' = "probe"
    /\ UNCHANGED <<file, num_pages, i, body, committed, inflight>>

\* The rest of the existing chain, whatever the type of its pages.
Probe ==
    /\ pc = "probe"
    /\ next # kInvalidPageId
    /\ Len(chain) < MaxWalk
    /\ chain' = Append(chain, next)
    /\ next' = file[next].next
    /\ UNCHANGED <<file, num_pages, tables, versions, pc, i, body, committed, inflight>>

ProbeEnd ==
    /\ pc = "probe"
    /\ next = kInvalidPageId
    /\ pc' = "alloc"
    /\ i' = 1
    /\ UNCHANGED <<file, num_pages, tables, versions, chain, next, body, committed, inflight>>

\* Mutant: a new chain page is taken without extending the file.
AllocateLast ==
    /\ pc = "alloc"
    /\ Len(chain) < tables.n
    /\ chain' = Append(chain, num_pages - 1)
    /\ UNCHANGED <<file, num_pages, tables, versions, pc, next, i, body, committed, inflight>>

\* AllocatePage until the chain is long enough.
Allocate ==
    /\ pc = "alloc"
    /\ Len(chain) < tables.n
    /\ num_pages < MaxPages
    /\ file' = [file EXCEPT ![num_pages] = ZeroPage]
    /\ num_pages' = num_pages + 1
    /\ chain' = Append(chain, num_pages)
    /\ UNCHANGED <<tables, versions, pc, next, i, body, committed, inflight>>

AllocateEnd ==
    /\ pc = "alloc"
    /\ Len(chain) >= tables.n
    /\ pc' = "write"
    /\ UNCHANGED <<file, num_pages, tables, versions, chain, next, i, body, committed, inflight>>

\* Mutant: the last page keeps the link to the rest of an older, longer chain.
SlicePageKeepsLink(k) ==
    [type |-> "catalog",
     next |-> IF k < Len(chain) THEN chain[k + 1] ELSE kInvalidPageId,
     slice |-> <<tables.id, k>>]

\* Mutant: the link of the last page is left at its initial zero.
SlicePageZeroLink(k) ==
    [type |-> "catalog",
     next |-> IF k < tables.n THEN chain[k + 1] ELSE 0,
     slice |-> <<tables.id, k>>]

\* Page k of the chain as Persist writes it.
SlicePage(k) ==
    [type |-> "catalog",
     next |-> IF k < tables.n THEN chain[k + 1] ELSE kInvalidPageId,
     slice |-> <<tables.id, k>>]

\* One WritePage; after the last one Sync, and Persist returns.
WriteSlice ==
    /\ pc = "write"
    /\ file' = [file EXCEPT ![chain[i]] = SlicePage(i)]
    /\ i' = i + 1
    /\ IF i = tables.n
       THEN pc' = "idle" /\ committed' = tables /\ inflight' = tables
       ELSE UNCHANGED <<pc, committed, inflight>>
    /\ UNCHANGED <<num_pages, tables, versions, chain, next, body>>

\* ReadPage, AllocatePage or WritePage throws: the tables in memory keep their
\* change, the pages already written stay written.
PersistThrows ==
    /\ tables.n <= MaxTorn
    /\ pc \in {"probe", "alloc", "write"}
    /\ pc' = "idle"
    /\ UNCHANGED <<file, num_pages, tables, versions, chain, next, i, body, committed, inflight>>

-----------------------------------------------------------------------------
(* The rest of the database, as far as the file is concerned.              *)

ColumnPages == {p \in Pages : file[p].type = "column"}

\* Statements between two Persists append column pages.
AppendColumnPage ==
    /\ pc = "idle"
    /\ num_pages < MaxPages
    /\ Cardinality(ColumnPages) < MaxColumnPages
    /\ file' = [file EXCEPT ![num_pages] = ColumnPage]
    /\ num_pages' = num_pages + 1
    /\ UNCHANGED <<tables, versions, pc, chain, next, i, body, committed, inflight>>

\* The process ends, orderly or not, and DB::Open calls Load, which reads
\* page 0; if that is not a catalog page the catalog is empty.
Reopen ==
    /\ pc = "idle" \/ (tables.n <= MaxTorn /\ pc \in {"probe", "alloc", "write"})
    /\ inflight' = IF pc = "idle" THEN committed ELSE tables
    /\ chain' = <<>>
    /\ i' = 1
    /\ body' = <<>>
    /\ IF file[0].type = "catalog"
       THEN pc' = "load" /\ next' = 0 /\ tables' = tables
       ELSE pc' = "idle" /\ next' = kInvalidPageId /\ tables' = Empty
    /\ UNCHANGED <<file, num_pages, versions, committed>>

-----------------------------------------------------------------------------
(* Load.                                                                   *)

\* One page of the chain: its payload goes to the body, its next_page_id is
\* followed.
LoadPage ==
    /\ pc = "load"
    /\ next # kInvalidPageId
    /\ Len(body) < MaxWalk
    /\ body' = Append(body, file[next].slice)
    /\ next' = file[next].next
    /\ UNCHANGED <<file, num_pages, tables, versions, pc, chain, i, committed, inflight>>

\* What the parser makes of a body: the version it is the whole of, or
\* whatever a mixture of versions happens to say.
Parse(b) ==
    IF b # <<>> /\ b = [k \in 1 .. Len(b) |-> <<b[1][1], k>>]
    THEN Version(b[1][1], Len(b))
    ELSE Garbage

LoadEnd ==
    /\ pc = "load"
    /\ next = kInvalidPageId
    /\ tables' = Parse(body)
    /\ committed' = Parse(body)
    /\ inflight' = Parse(body)
    /\ pc' = IF Parse(body) = Garbage THEN "failed" ELSE "idle"
    /\ UNCHANGED <<file, num_pages, versions, chain, next, i, body>>

Next ==
    \/ \E n \in 1 .. MaxSlices : BeginPersist(n)
    \/ Probe
    \/ ProbeEnd
    \/ Allocate
    \/ AllocateEnd
    \/ WriteSlice
    \/ PersistThrows
    \/ AppendColumnPage
    \/ Reopen
    \/ LoadPage
    \/ LoadEnd

Spec == Init /\ [][Next]_vars

\* Load and Persist run to their end on their own.
FairSpec ==
    Spec /\ WF_vars(Probe \/ ProbeEnd \/ Allocate \/ AllocateEnd \/ WriteSlice \/ LoadPage \/ LoadEnd)

-----------------------------------------------------------------------------
(* Properties.                                                             *)

\* Persist never writes over a page that holds column data, however the
\* chain has grown, shrunk and been cut short (catalog.cpp:114-142).
ColumnPagesUntouched ==
    [][\A p \in Pages : file[p].type = "column" => file'[p] = file[p]]_vars

\* Opening the database brings back the version of the last Persist that
\* returned, or the one of the Persist during which the process died;
\* never a mixture and never an older one (catalog.cpp:27-77, 85-143).
ReopenRestores ==
    [][/\ LoadEnd => tables' \in {committed, inflight}
       /\ Reopen /\ pc' = "idle" => tables' = committed]_vars

\* A page appears once in the chain that Persist builds, and the walks of
\* Persist and Load meet only catalog pages and no page twice: the chain has
\* no cycle and never strays into column data or unwritten pages.
ChainAcyclic ==
    /\ \A j, k \in DOMAIN chain : chain[j] = chain[k] => j = k
    /\ Len(body) <= num_pages
    /\ pc \in {"probe", "load"} /\ next # kInvalidPageId => file[next].type = "catalog"

\* Load always ends: the database can be opened.
LoadEnds == pc = "load" ~> pc = "idle"
=============================================================================
