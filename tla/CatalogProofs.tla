---------------------------- MODULE CatalogProofs ----------------------------
(***************************************************************************)
(* The chain of catalog pages, proved for a file and catalog bodies of any *)
(* size: what Persist leaves in the file is one chain of distinct pages    *)
(* from page 0, and Load reads it back.  The hypothesis MaxTorn <= 1 says  *)
(* that only a Persist of one page may throw or be cut short: with two the *)
(* statements are false (the pages are written in place, one by one),      *)
(* except that column pages are safe in any case.                          *)
(***************************************************************************)
EXTENDS Catalog, FiniteSetTheorems, TLAPS

Versions == [id : Nat, n : Nat \ {0}]
PageType == [type : {"free", "column", "catalog"}, next : Pages \cup {kInvalidPageId}, slice : Int \X Int]

Types ==
    /\ file \in [Pages -> PageType]
    /\ num_pages \in Nat /\ 1 <= num_pages /\ num_pages <= MaxPages
    /\ versions \in Nat
    /\ tables \in Versions /\ committed \in Versions /\ inflight \in Versions
    /\ pc \in {"idle", "probe", "alloc", "write", "load"}
    /\ chain \in Seq(Pages)
    /\ next \in Pages \cup {kInvalidPageId}
    /\ i \in Nat
    /\ body \in Seq(Int \X Int)

\* A sequence that names no page twice and only pages of the file.
Distinct(c) == \A j, k \in DOMAIN c : c[j] = c[k] => j = k
InFile(c) == \A k \in DOMAIN c : c[k] < num_pages

\* c is the chain from page 0, and it holds the version that is committed.
Chained(c) ==
    /\ Len(c) = committed.n /\ c[1] = 0
    /\ Distinct(c) /\ InFile(c)
    /\ \A k \in 1 .. Len(c) :
         /\ file[c[k]].type = "catalog"
         /\ file[c[k]].next = IF k < Len(c) THEN c[k + 1] ELSE kInvalidPageId
         /\ file[c[k]].slice = <<committed.id, k>>

\* The file is consistent: there is no catalog yet, or it is such a chain.
Consistent ==
    IF file[0].type = "catalog" THEN \E c \in Seq(Pages) : Chained(c) ELSE committed = Empty

\* Only a Persist of several pages, under way, leaves the file inconsistent.
DiskInv ==
    /\ pc # "write" \/ i = 1 => Consistent
    /\ \A p \in Pages : p >= num_pages => file[p] = ZeroPage
    /\ file[0].type # "column"

\* The walk of Persist is a prefix of the chain.
ProbeInv ==
    pc = "probe" =>
        /\ Len(chain) >= 1 /\ chain[1] = 0
        /\ file[0].type # "catalog" => chain = <<0>> /\ next = kInvalidPageId
        /\ file[0].type = "catalog" =>
             \A c \in Seq(Pages) : Chained(c) =>
                /\ Len(chain) <= Len(c)
                /\ \A k \in 1 .. Len(chain) : chain[k] = c[k]
                /\ next = IF Len(chain) < Len(c) THEN c[Len(chain) + 1] ELSE kInvalidPageId

\* So is the walk of Load.
LoadInv ==
    pc = "load" =>
        /\ file[0].type = "catalog"
        /\ \A k \in 1 .. Len(body) : body[k] = <<committed.id, k>>
        /\ \A c \in Seq(Pages) : Chained(c) =>
                /\ Len(body) <= Len(c)
                /\ next = IF Len(body) < Len(c) THEN c[Len(body) + 1] ELSE kInvalidPageId

\* The pages that Persist is going to write: page 0 first, none of them a
\* column page; the ones before i are written.
WriteInv ==
    /\ Distinct(chain) /\ InFile(chain)
    /\ Len(body) <= num_pages
    /\ pc \in {"alloc", "write"} =>
         /\ Len(chain) >= 1 /\ chain[1] = 0
         /\ \A k \in DOMAIN chain : file[chain[k]].type # "column"
    /\ pc = "alloc" => i = 1
    /\ pc = "write" =>
         /\ 1 <= i /\ i <= tables.n /\ tables.n <= Len(chain)
         /\ \A k \in 1 .. i - 1 : file[chain[k]] = SlicePage(k)

CatalogInv == Types /\ DiskInv /\ ProbeInv /\ LoadInv /\ WriteInv

-----------------------------------------------------------------------------
(* The pages and the chains.                                               *)

\* Page 0 is always there.
LEMMA PageFacts ==
    /\ MaxPages \in Nat \ {0} /\ 0 \in Pages /\ Pages \subseteq Nat
    /\ \A p \in Pages : p # kInvalidPageId
    /\ ZeroPage \in PageType /\ ColumnPage \in PageType
    /\ Empty \in Versions
  <1>1. MaxVersions * (MaxSlices - 1) \in Nat
    <2>1. MaxVersions \in Nat /\ MaxSlices - 1 \in Nat
      BY CatalogAssumption
    <2>2. \A a, b \in Nat : a * b \in Nat
      OBVIOUS
    <2> QED
      BY <2>1, <2>2
  <1>2. MaxPages \in Nat \ {0}
    BY <1>1, CatalogAssumption
  <1> QED
    BY <1>2 DEF Pages, ZeroPage, ColumnPage, PageType, NoSlice, kInvalidPageId, Empty, Version, Versions

\* A chain of distinct pages of the file is no longer than the file.
LEMMA ChainFits ==
    ASSUME NEW c \in Seq(Pages), NEW n \in Nat, Distinct(c), \A k \in DOMAIN c : c[k] < n
    PROVE  Len(c) <= n
  <1>0. Pages \subseteq Nat
    BY PageFacts
  <1>1. IsFiniteSet(0 .. n - 1) /\ Cardinality(0 .. n - 1) = n
    BY FS_Interval
  <1>2. Len(c) \in Nat /\ IsFiniteSet(1 .. Len(c)) /\ Cardinality(1 .. Len(c)) = Len(c)
    <2>1. Len(c) \in Nat
      OBVIOUS
    <2> QED
      BY <2>1, FS_Interval
  <1>3. \A k \in 1 .. Len(c) : c[k] \in 0 .. n - 1
    <2> SUFFICES ASSUME NEW k \in 1 .. Len(c) PROVE c[k] \in 0 .. n - 1
      OBVIOUS
    <2>1. c[k] \in Pages /\ c[k] < n
      OBVIOUS
    <2>2. c[k] \in Nat
      BY <1>0, <2>1
    <2> QED
      BY <2>1, <2>2
  <1>4. c \in Injection(1 .. Len(c), 0 .. n - 1)
    BY <1>3 DEF Injection, IsInjective, Distinct
  <1>5. Cardinality(1 .. Len(c)) <= Cardinality(0 .. n - 1)
    BY <1>1, <1>2, <1>4, FS_Injection
  <1> QED
    BY <1>1, <1>2, <1>5

\* The chains depend on the file and on the version that is committed.
LEMMA SameChains ==
    ASSUME UNCHANGED <<file, num_pages, committed>>
    PROVE  /\ \A c : Chained(c)' <=> Chained(c)
           /\ Consistent' <=> Consistent
  BY DEF Chained, Consistent, Distinct, InFile

\* A page at the end of the file is on no chain.
LEMMA GrowFile ==
    ASSUME Types, DiskInv, Consistent, NEW x \in PageType, num_pages < MaxPages,
           file' = [file EXCEPT ![num_pages] = x], num_pages' = num_pages + 1,
           committed' = committed
    PROVE  /\ Consistent'
           /\ file' \in [Pages -> PageType]
           /\ num_pages \in Pages
           /\ \A p \in Pages : p # num_pages => file'[p] = file[p]
           /\ \A p \in Pages : p >= num_pages' => file'[p] = ZeroPage
           /\ file'[num_pages] = x
           /\ file'[0] = file[0]
  <1>1. num_pages \in Pages /\ num_pages # 0 /\ 0 \in Pages /\ Pages \subseteq Nat
    BY PageFacts DEF Types, Pages
  <1>2. /\ file' \in [Pages -> PageType]
        /\ \A p \in Pages : p # num_pages => file'[p] = file[p]
        /\ file'[num_pages] = x
    BY <1>1 DEF Types
  <1>3. \A p \in Pages : p >= num_pages' => file'[p] = ZeroPage
    BY <1>1, <1>2 DEF Types, DiskInv
  <1>a. file'[0] = file[0]
    BY <1>1, <1>2
  <1>4. Consistent'
    <2>1. CASE file[0].type # "catalog"
      BY <1>a, <2>1 DEF Consistent
    <2>2. CASE file[0].type = "catalog"
      <3>1. PICK c \in Seq(Pages) : Chained(c)
        BY <2>2 DEF Consistent
      <3>2. \A k \in 1 .. Len(c) : c[k] \in Pages /\ c[k] # num_pages /\ c[k] < num_pages + 1
        <4> SUFFICES ASSUME NEW k \in 1 .. Len(c)
                     PROVE  c[k] \in Pages /\ c[k] # num_pages /\ c[k] < num_pages + 1
          OBVIOUS
        <4>1. c[k] \in Pages /\ k \in DOMAIN c
          OBVIOUS
        <4>2. c[k] < num_pages
          BY <3>1, <4>1 DEF Chained, InFile
        <4>3. c[k] \in Nat /\ num_pages \in Nat
          BY <1>1, <4>1 DEF Types
        <4> QED
          BY <4>1, <4>2, <4>3
      <3>3. \A k \in 1 .. Len(c) : file'[c[k]] = file[c[k]]
        BY <1>2, <3>2
      <3>4. InFile(c)'
        BY <3>2 DEF InFile
      <3>5. Chained(c)'
        BY <3>1, <3>3, <3>4 DEF Chained, Distinct
      <3> QED
        BY <1>a, <2>2, <3>5 DEF Consistent
    <2> QED
      BY <2>1, <2>2
  <1> QED
    BY <1>1, <1>2, <1>3, <1>a, <1>4

-----------------------------------------------------------------------------
(* Every step keeps the invariant.                                         *)

\* A new file has no catalog.
LEMMA InitCatalog == Init => CatalogInv
  <1> SUFFICES ASSUME Init PROVE CatalogInv
    OBVIOUS
  <1> USE PageFacts
  <1>1. Types
    BY DEF Init, Types
  <1>2. DiskInv
    BY DEF Init, DiskInv, Consistent, ZeroPage
  <1> QED
    BY <1>1, <1>2 DEF Init, CatalogInv, ProbeInv, LoadInv, WriteInv, Distinct, InFile

\* Persist starts to walk the chain.
LEMMA BeginPersistKeeps ==
    ASSUME CatalogInv, NEW n \in 1 .. MaxSlices, BeginPersist(n)
    PROVE  CatalogInv'
  <1> USE DEF BeginPersist
  <1>1. Types'
    <2>1. tables' \in Versions
      BY CatalogAssumption DEF CatalogInv, Types, Version, Versions
    <2>2. chain' \in Seq(Pages)
      BY PageFacts
    <2>3. next' \in Pages \cup {kInvalidPageId}
      BY PageFacts DEF CatalogInv, Types, PageType
    <2> QED
      BY <2>1, <2>2, <2>3 DEF CatalogInv, Types
  <1>2. DiskInv'
    BY SameChains DEF CatalogInv, DiskInv
  <1>3. ProbeInv'
    <2>1. \A c : Chained(c)' <=> Chained(c)
      BY SameChains
    <2>2. ASSUME NEW c \in Seq(Pages), Chained(c)', file[0].type = "catalog"
          PROVE  /\ 1 <= Len(c) /\ c[1] = 0
                 /\ next' = IF 1 < Len(c) THEN c[2] ELSE kInvalidPageId
      <3>1. Chained(c)
        BY <2>1, <2>2
      <3>2. Len(c) \in Nat \ {0}
        BY <3>1 DEF Chained, CatalogInv, Types, Versions
      <3>3. 1 \in 1 .. Len(c)
        BY <3>2
      <3>4. file[c[1]].next = IF 1 < Len(c) THEN c[1 + 1] ELSE kInvalidPageId
        BY <3>1, <3>3 DEF Chained
      <3> QED
        BY <2>2, <3>1, <3>2, <3>4 DEF Chained
    <2>3. Len(chain') = 1 /\ chain'[1] = 0
      OBVIOUS
    <2> QED
      BY <2>2, <2>3 DEF ProbeInv
  <1>4. LoadInv'
    BY DEF LoadInv
  <1>5. WriteInv'
    <2>1. chain' = <<0>>
      OBVIOUS
    <2>2. Distinct(chain)' /\ InFile(chain)'
      BY <2>1 DEF Distinct, InFile, CatalogInv, Types
    <2> QED
      BY <2>2 DEF WriteInv, CatalogInv
  <1> QED
    BY <1>1, <1>2, <1>3, <1>4, <1>5 DEF CatalogInv

\* One page of the walk.
LEMMA ProbeKeeps ==
    ASSUME CatalogInv, Probe
    PROVE  CatalogInv'
  <1> USE DEF Probe
  <1>0. next \in Pages
    BY DEF CatalogInv, Types
  <1>a. file[0].type = "catalog"
    BY DEF CatalogInv, ProbeInv
  <1>b. PICK c \in Seq(Pages) : Chained(c)
    BY <1>a DEF CatalogInv, DiskInv, Consistent
  <1>c. /\ Len(chain) \in Nat /\ Len(c) \in Nat /\ Len(chain) < Len(c) /\ next = c[Len(chain) + 1]
        /\ \A k \in 1 .. Len(chain) : chain[k] = c[k]
    BY <1>a, <1>b DEF CatalogInv, ProbeInv, Types
  <1>d. /\ Len(chain') = Len(chain) + 1 /\ chain' \in Seq(Pages)
        /\ \A k \in 1 .. Len(chain') : chain'[k] = IF k <= Len(chain) THEN chain[k] ELSE next
    BY <1>0 DEF CatalogInv, Types
  <1>1. Types'
    BY <1>0, <1>d DEF CatalogInv, Types, PageType
  <1>2. DiskInv'
    BY SameChains DEF CatalogInv, DiskInv
  <1>3. ProbeInv'
    <2>1. \A d : Chained(d)' <=> Chained(d)
      BY SameChains
    <2>2. ASSUME NEW d \in Seq(Pages), Chained(d)'
          PROVE  /\ Len(chain') <= Len(d)
                 /\ \A k \in 1 .. Len(chain') : chain'[k] = d[k]
                 /\ next' = IF Len(chain') < Len(d) THEN d[Len(chain') + 1] ELSE kInvalidPageId
      <3>1. Chained(d)
        BY <2>1, <2>2
      <3>2. Len(d) \in Nat
        OBVIOUS
      <3>3. /\ Len(chain) < Len(d) /\ next = d[Len(chain) + 1]
            /\ \A k \in 1 .. Len(chain) : chain[k] = d[k]
        BY <1>a, <1>c, <3>1, <3>2 DEF CatalogInv, ProbeInv
      <3>4. Len(chain) + 1 \in 1 .. Len(d)
        BY <1>c, <3>2, <3>3
      <3>5. file[next].next = IF Len(chain) + 1 < Len(d) THEN d[Len(chain) + 1 + 1] ELSE kInvalidPageId
        BY <3>1, <3>3, <3>4 DEF Chained
      <3> QED
        BY <1>c, <1>d, <3>2, <3>3, <3>5
    <2>3. Len(chain') >= 1 /\ chain'[1] = 0
      <3>1. Len(chain) >= 1 /\ chain[1] = 0
        BY DEF CatalogInv, ProbeInv
      <3> QED
        BY <1>c, <1>d, <3>1
    <2> QED
      BY <1>a, <2>2, <2>3 DEF ProbeInv
  <1>4. LoadInv'
    BY DEF LoadInv
  <1>5. WriteInv'
    <2>1. \A k \in 1 .. Len(chain') : chain'[k] = c[k] /\ k \in DOMAIN c
      BY <1>c, <1>d
    <2>2. DOMAIN chain' = 1 .. Len(chain')
      BY <1>d
    <2>3. Distinct(chain)'
      BY <1>b, <2>1, <2>2 DEF Chained, Distinct
    <2>4. InFile(chain)'
      BY <1>b, <2>1, <2>2 DEF Chained, InFile
    <2> QED
      BY <2>3, <2>4 DEF WriteInv, CatalogInv
  <1> QED
    BY <1>1, <1>2, <1>3, <1>4, <1>5 DEF CatalogInv

\* The walk has reached the end of the chain.
LEMMA ProbeEndKeeps ==
    ASSUME CatalogInv, ProbeEnd
    PROVE  CatalogInv'
  <1> USE DEF ProbeEnd
  <1>1. Types'
    BY DEF CatalogInv, Types
  <1>2. DiskInv'
    BY SameChains DEF CatalogInv, DiskInv
  <1>3. ProbeInv' /\ LoadInv'
    BY DEF ProbeInv, LoadInv
  <1>4. \A k \in DOMAIN chain : file[chain[k]].type # "column"
    <2>1. CASE file[0].type = "catalog"
      <3>1. PICK c \in Seq(Pages) : Chained(c)
        BY <2>1 DEF CatalogInv, DiskInv, Consistent
      <3>2. Len(chain) \in Nat /\ Len(c) \in Nat /\ DOMAIN chain = 1 .. Len(chain)
        BY DEF CatalogInv, Types
      <3>3. \A k \in DOMAIN chain : chain[k] = c[k] /\ k \in 1 .. Len(c)
        BY <2>1, <3>1, <3>2 DEF CatalogInv, ProbeInv
      <3> QED
        BY <3>1, <3>3 DEF Chained
    <2>2. CASE file[0].type # "catalog"
      <3>1. chain = <<0>>
        BY <2>2 DEF CatalogInv, ProbeInv
      <3> QED
        BY <3>1 DEF CatalogInv, DiskInv
    <2> QED
      BY <2>1, <2>2
  <1>5. WriteInv'
    BY <1>4 DEF CatalogInv, ProbeInv, WriteInv, Distinct, InFile
  <1> QED
    BY <1>1, <1>2, <1>3, <1>5 DEF CatalogInv

\* A new page for the chain.
LEMMA AllocateKeeps ==
    ASSUME CatalogInv, Allocate
    PROVE  CatalogInv'
  <1> USE DEF Allocate
  <1>0. Types /\ DiskInv /\ Consistent /\ ZeroPage \in PageType
    BY PageFacts DEF CatalogInv, DiskInv
  <1>a. /\ Consistent'
        /\ file' \in [Pages -> PageType]
        /\ num_pages \in Pages
        /\ \A p \in Pages : p # num_pages => file'[p] = file[p]
        /\ \A p \in Pages : p >= num_pages' => file'[p] = ZeroPage
        /\ file'[num_pages] = ZeroPage
        /\ file'[0] = file[0]
    BY <1>0, GrowFile
  <1>b. /\ Len(chain) \in Nat /\ Len(chain') = Len(chain) + 1 /\ chain' \in Seq(Pages)
        /\ DOMAIN chain = 1 .. Len(chain) /\ DOMAIN chain' = 1 .. Len(chain) + 1
        /\ \A k \in DOMAIN chain : chain'[k] = chain[k] /\ chain[k] \in Pages
        /\ chain'[Len(chain) + 1] = num_pages
    BY <1>a DEF CatalogInv, Types
  <1>c. \A k \in DOMAIN chain : chain[k] \in Nat /\ chain[k] < num_pages
    BY <1>b, PageFacts DEF CatalogInv, WriteInv, InFile
  <1>d. num_pages \in Nat
    BY <1>0 DEF Types
  <1>1. Types'
    <2>1. num_pages' \in Nat /\ 1 <= num_pages' /\ num_pages' <= MaxPages
      BY <1>d, PageFacts
    <2> QED
      BY <1>a, <1>b, <2>1 DEF CatalogInv, Types
  <1>2. DiskInv'
    BY <1>a DEF CatalogInv, DiskInv
  <1>3. ProbeInv' /\ LoadInv'
    BY DEF ProbeInv, LoadInv
  <1>4. WriteInv'
    <2>1. Distinct(chain)'
      <3> SUFFICES ASSUME NEW j \in 1 .. Len(chain) + 1, NEW k \in 1 .. Len(chain) + 1,
                          chain'[j] = chain'[k]
                   PROVE  j = k
        BY <1>b DEF Distinct
      <3>1. CASE j \in DOMAIN chain /\ k \in DOMAIN chain
        BY <1>b, <3>1 DEF CatalogInv, WriteInv, Distinct
      <3>2. CASE j \in DOMAIN chain /\ k = Len(chain) + 1
        BY <1>b, <1>c, <1>d, <3>2
      <3>3. CASE k \in DOMAIN chain /\ j = Len(chain) + 1
        BY <1>b, <1>c, <1>d, <3>3
      <3> QED
        BY <1>b, <3>1, <3>2, <3>3
    <2>2. InFile(chain)'
      <3> SUFFICES ASSUME NEW k \in 1 .. Len(chain) + 1 PROVE chain'[k] < num_pages + 1
        BY <1>b DEF InFile
      <3>1. CASE k \in DOMAIN chain
        BY <1>b, <1>c, <1>d, <3>1
      <3>2. CASE k = Len(chain) + 1
        BY <1>b, <1>d, <3>2
      <3> QED
        BY <1>b, <3>1, <3>2
    <2>3. ASSUME NEW k \in DOMAIN chain' PROVE file'[chain'[k]].type # "column"
      <3>1. CASE k \in DOMAIN chain
        <4>1. chain[k] # num_pages
          BY <1>c, <1>d, <3>1
        <4> QED
          BY <1>a, <1>b, <3>1, <4>1 DEF CatalogInv, WriteInv
      <3>2. CASE k = Len(chain) + 1
        BY <1>a, <1>b, <3>2 DEF ZeroPage
      <3> QED
        BY <1>b, <2>3, <3>1, <3>2
    <2>4. Len(chain') >= 1 /\ chain'[1] = 0 /\ i = 1
      BY <1>b DEF CatalogInv, WriteInv
    <2>5. Len(body) <= num_pages + 1
      <3>1. Len(body) \in Nat /\ Len(body) <= num_pages
        BY DEF CatalogInv, Types, WriteInv
      <3> QED
        BY <1>d, <3>1
    <2> QED
      BY <2>1, <2>2, <2>3, <2>4, <2>5 DEF WriteInv
  <1> QED
    BY <1>1, <1>2, <1>3, <1>4 DEF CatalogInv

\* The chain is long enough.
LEMMA AllocateEndKeeps ==
    ASSUME CatalogInv, AllocateEnd
    PROVE  CatalogInv'
  <1> USE DEF AllocateEnd
  <1>1. Types'
    BY DEF CatalogInv, Types
  <1>2. DiskInv'
    BY SameChains DEF CatalogInv, DiskInv
  <1>3. ProbeInv' /\ LoadInv'
    BY DEF ProbeInv, LoadInv
  <1>4. WriteInv'
    <2>1. Len(chain) \in Nat /\ tables.n \in Nat /\ tables.n >= 1
      BY DEF CatalogInv, Types, Versions
    <2> QED
      BY <2>1 DEF CatalogInv, WriteInv, Distinct, InFile
  <1> QED
    BY <1>1, <1>2, <1>3, <1>4 DEF CatalogInv

\* One page of the chain is written; with the last one the chain is complete.
LEMMA WriteSliceKeeps ==
    ASSUME CatalogInv, WriteSlice
    PROVE  CatalogInv'
  <1> USE DEF WriteSlice
  <1>a. /\ i \in Nat /\ tables.n \in Nat /\ Len(chain) \in Nat /\ tables.id \in Nat
        /\ 1 <= i /\ i <= tables.n /\ tables.n <= Len(chain)
        /\ DOMAIN chain = 1 .. Len(chain)
        /\ \A k \in 1 .. Len(chain) : chain[k] \in Pages
        /\ chain[1] = 0
    BY DEF CatalogInv, Types, WriteInv, Versions
  <1>b. /\ \A p \in Pages : p # chain[i] => file'[p] = file[p]
        /\ file'[chain[i]] = SlicePage(i)
    BY <1>a DEF CatalogInv, Types
  <1>c. \A k \in 1 .. i : file'[chain[k]] = SlicePage(k)
    <2> SUFFICES ASSUME NEW k \in 1 .. i PROVE file'[chain[k]] = SlicePage(k)
      OBVIOUS
    <2>1. CASE k = i
      BY <1>b, <2>1
    <2>2. CASE k # i
      <3>1. k \in 1 .. i - 1 /\ k \in 1 .. Len(chain) /\ i \in 1 .. Len(chain)
        BY <1>a, <2>2
      <3>2. chain[k] # chain[i]
        BY <1>a, <2>2, <3>1 DEF CatalogInv, WriteInv, Distinct
      <3> QED
        BY <1>a, <1>b, <3>1, <3>2 DEF CatalogInv, WriteInv
    <2> QED
      BY <2>1, <2>2
  <1>d. SlicePage(i) \in PageType
    <2>1. i < tables.n => i + 1 \in 1 .. Len(chain)
      BY <1>a
    <2>2. i < tables.n => chain[i + 1] \in Pages
      BY <1>a, <2>1
    <2> QED
      BY <1>a, <2>2 DEF SlicePage, PageType
  <1>e. file' \in [Pages -> PageType]
    BY <1>d DEF CatalogInv, Types
  <1>1. Types'
    BY <1>a, <1>e DEF CatalogInv, Types
  <1>2. DiskInv'
    <2>1. i = tables.n => Consistent'
      <3> SUFFICES ASSUME i = tables.n PROVE Consistent'
        OBVIOUS
      <3>1. PICK c \in Seq(Pages) : Len(c) = i /\ \A k \in 1 .. i : c[k] = chain[k]
        <4>1. chain \in Seq(Pages)
          BY DEF CatalogInv, Types
        <4>2. /\ SubSeq(chain, 1, i) \in Seq(Pages) /\ Len(SubSeq(chain, 1, i)) = i
              /\ \A k \in 1 .. i : SubSeq(chain, 1, i)[k] = chain[k]
          BY <1>a, <4>1
        <4> QED
          BY <4>2
      <3>2. DOMAIN c = 1 .. i /\ 1 \in 1 .. i /\ \A k \in 1 .. i : k \in DOMAIN chain
        BY <1>a, <3>1
      <3>3. Distinct(c)
        BY <3>1, <3>2 DEF CatalogInv, WriteInv, Distinct
      <3>4. InFile(c)'
        BY <3>1, <3>2 DEF CatalogInv, WriteInv, InFile
      <3>5. c[1] = 0
        BY <1>a, <3>1, <3>2
      <3>6. ASSUME NEW k \in 1 .. i
            PROVE  /\ file'[c[k]].type = "catalog"
                   /\ file'[c[k]].next = IF k < i THEN c[k + 1] ELSE kInvalidPageId
                   /\ file'[c[k]].slice = <<tables.id, k>>
        <4>1. file'[c[k]] = SlicePage(k)
          BY <1>c, <3>1
        <4>2. k < i => k + 1 \in 1 .. i
          BY <1>a
        <4>3. k < i => c[k + 1] = chain[k + 1]
          BY <3>1, <4>2
        <4> QED
          BY <4>1, <4>3 DEF SlicePage
      <3>7. Chained(c)'
        BY <3>1, <3>3, <3>4, <3>5, <3>6, ZenonT(40) DEF Chained, Distinct
      <3>8. file'[0].type = "catalog"
        BY <3>2, <3>5, <3>6
      <3> QED
        BY <3>1, <3>7, <3>8 DEF Consistent
    <2>2. i # tables.n => pc' = "write" /\ i' # 1
      BY <1>a
    <2>3. i = tables.n => pc' = "idle"
      OBVIOUS
    <2>4. \A p \in Pages : p >= num_pages => file'[p] = ZeroPage
      <3> SUFFICES ASSUME NEW p \in Pages, p >= num_pages PROVE file'[p] = ZeroPage
        OBVIOUS
      <3>1. chain[i] < num_pages /\ chain[i] \in Pages
        BY <1>a DEF CatalogInv, WriteInv, InFile
      <3>2. p \in Nat /\ num_pages \in Nat /\ chain[i] \in Nat
        BY <3>1, PageFacts DEF CatalogInv, Types
      <3>3. p # chain[i]
        BY <3>1, <3>2
      <3> QED
        BY <1>b, <3>3 DEF CatalogInv, DiskInv
    <2>5. file'[0].type # "column"
      <3>1. 1 \in 1 .. i
        BY <1>a
      <3>2. file'[chain[1]] = SlicePage(1)
        BY <1>c, <3>1
      <3> QED
        BY <1>a, <3>2 DEF SlicePage
    <2> QED
      BY <2>1, <2>2, <2>3, <2>4, <2>5 DEF DiskInv
  <1>3. ProbeInv' /\ LoadInv'
    BY DEF ProbeInv, LoadInv
  <1>4. WriteInv'
    <2>1. Distinct(chain)' /\ InFile(chain)' /\ Len(body) <= num_pages
      BY DEF CatalogInv, WriteInv, Distinct, InFile
    <2>2. i # tables.n => i' <= tables.n /\ 1 <= i'
      BY <1>a
    <2>3. \A k \in 1 .. i' - 1 : file'[chain[k]] = SlicePage(k)'
      BY <1>a, <1>c DEF SlicePage
    <2>4. \A k \in DOMAIN chain : file'[chain[k]].type # "column"
      <3> SUFFICES ASSUME NEW k \in DOMAIN chain PROVE file'[chain[k]].type # "column"
        OBVIOUS
      <3>1. CASE chain[k] = chain[i]
        BY <1>b, <3>1 DEF SlicePage
      <3>2. CASE chain[k] # chain[i]
        BY <1>a, <1>b, <3>2 DEF CatalogInv, WriteInv
      <3> QED
        BY <3>1, <3>2
    <2>5. pc' \in {"idle", "write"} /\ (pc' = "write" => i # tables.n) /\ UNCHANGED <<chain, tables, body, num_pages>>
      OBVIOUS
    <2> QED
      BY <1>a, <2>1, <2>2, <2>3, <2>4, <2>5 DEF WriteInv
  <1> QED
    BY <1>1, <1>2, <1>3, <1>4 DEF CatalogInv

\* A Persist that may be cut short has written nothing yet: its only page is
\* written in the last step.
LEMMA TornIsConsistent ==
    ASSUME CatalogInv, MaxTorn <= 1,
           pc = "idle" \/ (tables.n <= MaxTorn /\ pc \in {"probe", "alloc", "write"})
    PROVE  Consistent
  <1>1. CASE pc # "write"
    BY <1>1 DEF CatalogInv, DiskInv
  <1>2. CASE pc = "write"
    <2>1. i = 1
      BY <1>2, CatalogAssumption DEF CatalogInv, Types, Versions, WriteInv
    <2> QED
      BY <2>1 DEF CatalogInv, DiskInv
  <1> QED
    BY <1>1, <1>2

\* Persist throws.
LEMMA PersistThrowsKeeps ==
    ASSUME CatalogInv, PersistThrows, MaxTorn <= 1
    PROVE  CatalogInv'
  <1> USE DEF PersistThrows
  <1>1. Types'
    BY DEF CatalogInv, Types
  <1>2. DiskInv'
    BY SameChains, TornIsConsistent DEF CatalogInv, DiskInv
  <1>3. ProbeInv' /\ LoadInv'
    BY DEF ProbeInv, LoadInv
  <1>4. WriteInv'
    BY DEF CatalogInv, WriteInv, Distinct, InFile
  <1> QED
    BY <1>1, <1>2, <1>3, <1>4 DEF CatalogInv

\* A column page is appended.
LEMMA AppendColumnPageKeeps ==
    ASSUME CatalogInv, AppendColumnPage
    PROVE  CatalogInv'
  <1> USE DEF AppendColumnPage
  <1>0. Types /\ DiskInv /\ Consistent /\ ColumnPage \in PageType
    BY PageFacts DEF CatalogInv, DiskInv
  <1>a. /\ Consistent'
        /\ file' \in [Pages -> PageType]
        /\ \A p \in Pages : p >= num_pages' => file'[p] = ZeroPage
        /\ file'[0] = file[0]
    BY <1>0, GrowFile
  <1>b. num_pages \in Nat
    BY <1>0 DEF Types
  <1>1. Types'
    <2>1. num_pages' \in Nat /\ 1 <= num_pages' /\ num_pages' <= MaxPages
      BY <1>b, PageFacts
    <2> QED
      BY <1>a, <2>1 DEF CatalogInv, Types
  <1>2. DiskInv'
    BY <1>a DEF CatalogInv, DiskInv
  <1>3. ProbeInv' /\ LoadInv'
    BY DEF ProbeInv, LoadInv
  <1>4. WriteInv'
    <2>1. \A k \in DOMAIN chain : chain[k] \in Nat /\ chain[k] < num_pages
      <3> SUFFICES ASSUME NEW k \in DOMAIN chain PROVE chain[k] \in Nat /\ chain[k] < num_pages
        OBVIOUS
      <3>1. chain[k] \in Pages
        BY DEF CatalogInv, Types
      <3> QED
        BY <3>1, PageFacts DEF CatalogInv, WriteInv, InFile
    <2>2. InFile(chain)'
      BY <1>b, <2>1 DEF InFile
    <2>3. Len(body) <= num_pages + 1
      <3>1. Len(body) \in Nat /\ Len(body) <= num_pages
        BY DEF CatalogInv, Types, WriteInv
      <3> QED
        BY <1>b, <3>1
    <2> QED
      BY <2>2, <2>3 DEF CatalogInv, WriteInv, Distinct
  <1> QED
    BY <1>1, <1>2, <1>3, <1>4 DEF CatalogInv

\* The database is opened again.
LEMMA ReopenKeeps ==
    ASSUME CatalogInv, Reopen, MaxTorn <= 1
    PROVE  CatalogInv'
  <1> USE DEF Reopen
  <1>0. Consistent
    BY TornIsConsistent
  <1>1. Types'
    <2>1. chain' \in Seq(Pages) /\ body' \in Seq(Int \X Int)
      OBVIOUS
    <2>2. next' \in Pages \cup {kInvalidPageId} /\ tables' \in Versions /\ inflight' \in Versions
      BY PageFacts DEF CatalogInv, Types
    <2> QED
      BY <2>1, <2>2 DEF CatalogInv, Types
  <1>2. DiskInv'
    BY <1>0, SameChains DEF CatalogInv, DiskInv
  <1>3. ProbeInv'
    BY DEF ProbeInv
  <1>4. LoadInv'
    <2> SUFFICES ASSUME pc' = "load" PROVE LoadInv'
      BY DEF LoadInv
    <2>1. file'[0].type = "catalog" /\ next' = 0 /\ body' = <<>>
      OBVIOUS
    <2>2. ASSUME NEW c \in Seq(Pages), Chained(c)'
          PROVE  Len(c) \in Nat /\ 0 < Len(c) /\ c[1] = 0
      <3>1. Len(c) = committed.n /\ c[1] = 0
        BY <2>2 DEF Chained
      <3> QED
        BY <3>1 DEF CatalogInv, Types, Versions
    <2> QED
      BY <2>1, <2>2 DEF LoadInv
  <1>5. WriteInv'
    BY DEF CatalogInv, Types, WriteInv, Distinct, InFile
  <1> QED
    BY <1>1, <1>2, <1>3, <1>4, <1>5 DEF CatalogInv

\* Load reads one page of the chain.
LEMMA LoadPageKeeps ==
    ASSUME CatalogInv, LoadPage
    PROVE  CatalogInv'
  <1> USE DEF LoadPage
  <1>0. next \in Pages /\ file[0].type = "catalog"
    BY DEF CatalogInv, Types, LoadInv
  <1>b. PICK c \in Seq(Pages) : Chained(c)
    BY <1>0 DEF CatalogInv, DiskInv, Consistent
  <1>c. /\ Len(body) \in Nat /\ Len(c) \in Nat /\ Len(body) < Len(c) /\ next = c[Len(body) + 1]
    BY <1>b DEF CatalogInv, LoadInv, Types
  <1>d. Len(body) + 1 \in 1 .. Len(c)
    BY <1>c
  <1>e. file[next].slice = <<committed.id, Len(body) + 1>> /\ file[next].slice \in Int \X Int
    BY <1>0, <1>b, <1>c, <1>d DEF Chained, CatalogInv, Types, PageType
  <1>f. /\ Len(body') = Len(body) + 1 /\ body' \in Seq(Int \X Int)
        /\ \A k \in 1 .. Len(body') : body'[k] = IF k <= Len(body) THEN body[k] ELSE file[next].slice
    BY <1>e DEF CatalogInv, Types
  <1>1. Types'
    BY <1>0, <1>f DEF CatalogInv, Types, PageType
  <1>2. DiskInv'
    BY SameChains DEF CatalogInv, DiskInv
  <1>3. ProbeInv'
    BY DEF ProbeInv
  <1>4. LoadInv'
    <2>1. \A d : Chained(d)' <=> Chained(d)
      BY SameChains
    <2>2. ASSUME NEW d \in Seq(Pages), Chained(d)'
          PROVE  /\ Len(body') <= Len(d)
                 /\ next' = IF Len(body') < Len(d) THEN d[Len(body') + 1] ELSE kInvalidPageId
      <3>1. Chained(d) /\ Len(d) \in Nat
        BY <2>1, <2>2
      <3>2. Len(body) < Len(d) /\ next = d[Len(body) + 1]
        BY <1>c, <3>1 DEF CatalogInv, LoadInv
      <3>3. Len(body) + 1 \in 1 .. Len(d)
        BY <1>c, <3>1, <3>2
      <3>4. file[next].next = IF Len(body) + 1 < Len(d) THEN d[Len(body) + 1 + 1] ELSE kInvalidPageId
        BY <3>1, <3>2, <3>3 DEF Chained
      <3> QED
        BY <1>c, <1>f, <3>1, <3>2, <3>4
    <2>3. \A k \in 1 .. Len(body') : body'[k] = <<committed.id, k>>
      BY <1>c, <1>e, <1>f DEF CatalogInv, LoadInv
    <2> QED
      BY <1>0, <2>2, <2>3 DEF LoadInv
  <1>5. WriteInv'
    <2>1. Len(c) <= num_pages
      BY <1>b, ChainFits DEF Chained, InFile, CatalogInv, Types
    <2>2. Len(body') <= num_pages
      BY <1>c, <1>f, <2>1 DEF CatalogInv, Types
    <2> QED
      BY <2>2 DEF CatalogInv, WriteInv, Distinct, InFile
  <1> QED
    BY <1>1, <1>2, <1>3, <1>4, <1>5 DEF CatalogInv

\* When Load is at the end of the chain it has read the committed version.
LEMMA LoadedIsCommitted ==
    ASSUME CatalogInv, LoadEnd
    PROVE  Parse(body) = committed
  <1> USE DEF LoadEnd
  <1>1. PICK c \in Seq(Pages) : Chained(c)
    BY DEF CatalogInv, DiskInv, Consistent, LoadInv
  <1>2. Len(body) \in Nat /\ Len(c) \in Nat /\ Len(body) <= Len(c)
    BY <1>1 DEF CatalogInv, LoadInv, Types
  <1>3. Len(body) = Len(c)
    <2> SUFFICES ASSUME Len(body) < Len(c) PROVE FALSE
      BY <1>2
    <2>1. next = c[Len(body) + 1] /\ Len(body) + 1 \in 1 .. Len(c)
      BY <1>1, <1>2 DEF CatalogInv, LoadInv
    <2>2. next \in Pages
      BY <2>1
    <2> QED
      BY <2>2, PageFacts
  <1>4. Len(body) = committed.n /\ committed.n \in Nat \ {0} /\ committed.id \in Nat
    BY <1>1, <1>3 DEF Chained, CatalogInv, Types, Versions
  <1>5. \A k \in 1 .. Len(body) : body[k] = <<committed.id, k>>
    BY DEF CatalogInv, LoadInv
  <1>6. body[1] = <<committed.id, 1>> /\ body[1][1] = committed.id
    BY <1>4, <1>5
  <1>7. body = [k \in 1 .. Len(body) |-> body[k]] /\ body # <<>>
    BY <1>4 DEF CatalogInv, Types
  <1>8. body = [k \in 1 .. Len(body) |-> <<body[1][1], k>>]
    BY <1>5, <1>6, <1>7
  <1>9. Parse(body) = Version(committed.id, committed.n)
    BY <1>4, <1>6, <1>7, <1>8 DEF Parse
  <1> QED
    BY <1>9 DEF CatalogInv, Types, Versions, Version

\* Load ends with the committed version, which is never garbage.
LEMMA LoadEndKeeps ==
    ASSUME CatalogInv, LoadEnd
    PROVE  CatalogInv' /\ tables' = committed /\ committed' = committed
  <1> USE DEF LoadEnd
  <1>1. Parse(body) = committed
    BY LoadedIsCommitted
  <1>2. committed # Garbage /\ pc' = "idle" /\ UNCHANGED <<file, num_pages, committed>>
    BY <1>1 DEF Garbage, Version, CatalogInv, Types, Versions
  <1>3. Types'
    BY <1>1, <1>2 DEF CatalogInv, Types
  <1>4. DiskInv'
    BY <1>2, SameChains DEF CatalogInv, DiskInv
  <1>5. ProbeInv' /\ LoadInv'
    BY <1>2 DEF ProbeInv, LoadInv
  <1>6. WriteInv'
    BY <1>2 DEF CatalogInv, WriteInv, Distinct, InFile
  <1> QED
    BY <1>1, <1>2, <1>3, <1>4, <1>5, <1>6 DEF CatalogInv

\* Every step keeps the invariant.
LEMMA CatalogStep == MaxTorn <= 1 /\ CatalogInv /\ [Next]_vars => CatalogInv'
  <1> SUFFICES ASSUME MaxTorn <= 1, CatalogInv, [Next]_vars PROVE CatalogInv'
    OBVIOUS
  <1>1. CASE UNCHANGED vars
    <2> USE <1>1 DEF vars
    <2>1. /\ \A c : Chained(c)' <=> Chained(c)
          /\ Consistent' <=> Consistent
      BY SameChains
    <2>2. Types' /\ DiskInv'
      BY <2>1 DEF CatalogInv, Types, DiskInv
    <2>3. ProbeInv' /\ LoadInv'
      BY <2>1 DEF CatalogInv, ProbeInv, LoadInv
    <2>4. WriteInv'
      BY DEF CatalogInv, WriteInv, Distinct, InFile, SlicePage
    <2> QED
      BY <2>2, <2>3, <2>4 DEF CatalogInv
  <1>2. CASE Next
    BY <1>2, BeginPersistKeeps, ProbeKeeps, ProbeEndKeeps, AllocateKeeps, AllocateEndKeeps, WriteSliceKeeps,
       PersistThrowsKeeps, AppendColumnPageKeeps, ReopenKeeps, LoadPageKeeps, LoadEndKeeps DEF Next
  <1> QED
    BY <1>1, <1>2

\* The inductive invariant holds in every reachable state.
THEOREM CatalogInvariant ==
    ASSUME MaxTorn <= 1
    PROVE  Spec => []CatalogInv
  <1>1. CatalogInv /\ [Next]_vars => CatalogInv'
    BY CatalogStep
  <1> QED
    BY <1>1, InitCatalog, PTL DEF Spec

\* The chain that Persist builds names no page twice, the walks of Persist and
\* Load meet only catalog pages, and Load reads no more pages than there are.
THEOREM ChainIsAcyclic ==
    ASSUME MaxTorn <= 1
    PROVE  Spec => []ChainAcyclic
  <1>1. CatalogInv => ChainAcyclic
    <2> SUFFICES ASSUME CatalogInv PROVE ChainAcyclic
      OBVIOUS
    <2>1. ASSUME pc \in {"probe", "load"}, next # kInvalidPageId
          PROVE  file[next].type = "catalog"
      <3>1. file[0].type = "catalog"
        BY <2>1 DEF CatalogInv, ProbeInv, LoadInv
      <3>2. PICK c \in Seq(Pages) : Chained(c)
        BY <2>1, <3>1 DEF CatalogInv, DiskInv, Consistent
      <3>3. Len(c) \in Nat /\ Len(chain) \in Nat /\ Len(body) \in Nat
        BY DEF CatalogInv, Types
      <3>4. \E k \in 1 .. Len(c) : next = c[k]
        <4>1. CASE pc = "probe"
          BY <2>1, <3>1, <3>2, <3>3, <4>1 DEF CatalogInv, ProbeInv
        <4>2. CASE pc = "load"
          BY <2>1, <3>1, <3>2, <3>3, <4>2 DEF CatalogInv, LoadInv
        <4> QED
          BY <2>1, <4>1, <4>2
      <3> QED
        BY <3>2, <3>4 DEF Chained
    <2> QED
      BY <2>1 DEF CatalogInv, WriteInv, Distinct, ChainAcyclic
  <1> QED
    BY <1>1, CatalogInvariant, PTL

\* Opening the database brings back the version of the last Persist that
\* returned: a Persist of one page that was cut short has changed nothing.
THEOREM ReopenBringsBack ==
    ASSUME MaxTorn <= 1
    PROVE  Spec => ReopenRestores
  <1>1. ASSUME CatalogInv, LoadEnd PROVE tables' \in {committed, inflight}
    BY <1>1, LoadEndKeeps
  <1>2. ASSUME CatalogInv, Reopen, pc' = "idle" PROVE tables' = committed
    <2>1. Consistent
      BY <1>2, TornIsConsistent DEF Reopen
    <2> QED
      BY <1>2, <2>1 DEF Reopen, Consistent
  <1>3. CatalogInv /\ [Next]_vars => [/\ LoadEnd => tables' \in {committed, inflight}
                                      /\ Reopen /\ pc' = "idle" => tables' = committed]_vars
    BY <1>1, <1>2
  <1> QED
    BY <1>3, CatalogInvariant, PTL DEF Spec, ReopenRestores

-----------------------------------------------------------------------------
(* Column pages are safe even from a catalog that is torn: whatever has    *)
(* been cut short, the pages that are not column pages link to each other  *)
(* only.  There is no hypothesis on MaxTorn here.                          *)

\* A page of the file that Persist may write.
Usable(p) == p \in Pages /\ p < num_pages /\ file[p].type # "column"

\* What a link may be.
Leads(p) == p = kInvalidPageId \/ Usable(p)

LinkTypes ==
    /\ file \in [Pages -> PageType]
    /\ num_pages \in Nat /\ 1 <= num_pages /\ num_pages <= MaxPages
    /\ versions \in Nat
    /\ tables \in [id : Int, n : Nat \ {0}]
    /\ chain \in Seq(Pages)
    /\ i \in Nat
    /\ body \in Seq(Int \X Int)

LinkInv ==
    /\ LinkTypes
    /\ \A p \in Pages : p >= num_pages => file[p] = ZeroPage
    /\ Usable(0)
    /\ \A p \in Pages : file[p].type # "column" => Leads(file[p].next)
    /\ \A k \in DOMAIN chain : Usable(chain[k])
    /\ Leads(next)
    /\ pc = "alloc" => i = 1
    /\ pc = "write" => 1 <= i /\ i <= tables.n /\ tables.n <= Len(chain)

LEMMA LinkInit == Init => LinkInv
  <1> SUFFICES ASSUME Init PROVE LinkInv
    OBVIOUS
  <1>1. /\ file = [p \in Pages |-> ZeroPage] /\ num_pages = 1 /\ tables = Empty /\ versions = 0 /\ pc = "idle"
        /\ chain = <<>> /\ next = kInvalidPageId /\ i = 1 /\ body = <<>>
    BY DEF Init
  <1>2. LinkTypes
    BY <1>1, PageFacts DEF LinkTypes, Empty, Version
  <1>3. Usable(0) /\ ZeroPage.next = 0
    BY <1>1, PageFacts DEF Usable, ZeroPage
  <1> QED
    BY <1>1, <1>2, <1>3 DEF LinkInv, Leads

\* The file does not change.
LEMMA SameLinks ==
    ASSUME LinkInv, UNCHANGED <<file, num_pages>>
    PROVE  /\ \A p : Usable(p)' <=> Usable(p)
           /\ \A p : Leads(p)' <=> Leads(p)
           /\ (\A p \in Pages : p >= num_pages => file[p] = ZeroPage)'
           /\ Usable(0)'
           /\ (\A p \in Pages : file[p].type # "column" => Leads(file[p].next))'
  BY DEF LinkInv, Usable, Leads

\* A page is added to the file.
LEMMA GrowLinks ==
    ASSUME LinkInv, num_pages < MaxPages, NEW page \in {ZeroPage, ColumnPage},
           file' = [file EXCEPT ![num_pages] = page], num_pages' = num_pages + 1
    PROVE  /\ file' \in [Pages -> PageType] /\ num_pages' \in Nat /\ 1 <= num_pages' /\ num_pages' <= MaxPages
           /\ \A p : Usable(p) => Usable(p)'
           /\ \A p : Leads(p) => Leads(p)'
           /\ num_pages \in Pages
           /\ page = ZeroPage => \A q : q = num_pages => Usable(q)'
           /\ (\A p \in Pages : p >= num_pages => file[p] = ZeroPage)'
           /\ (\A p \in Pages : file[p].type # "column" => Leads(file[p].next))'
  <1>1. LinkTypes /\ MaxPages \in Nat
    BY PageFacts DEF LinkInv
  <1>2. num_pages \in Pages /\ num_pages \in Nat /\ Pages \subseteq Nat
    BY <1>1, PageFacts DEF LinkTypes, Pages
  <1>3. file' \in [Pages -> PageType] /\ num_pages' \in Nat /\ 1 <= num_pages' /\ num_pages' <= MaxPages
    BY <1>1, <1>2, PageFacts DEF LinkTypes
  <1>4. file'[num_pages] = page /\ \A p \in Pages : p # num_pages => file'[p] = file[p]
    BY <1>1, <1>2 DEF LinkTypes
  <1>5. \A p : Usable(p) => Usable(p)'
    <2> SUFFICES ASSUME NEW p, Usable(p) PROVE Usable(p)'
      OBVIOUS
    <2>1. p \in Pages /\ p < num_pages /\ file[p].type # "column" /\ p \in Nat
      BY <1>2 DEF Usable
    <2>2. p # num_pages /\ p < num_pages + 1
      BY <1>2, <2>1
    <2> QED
      BY <1>4, <2>1, <2>2 DEF Usable
  <1>6. \A p : Leads(p) => Leads(p)'
    BY <1>5 DEF Leads
  <1>7. ASSUME page = ZeroPage, NEW q, q = num_pages PROVE Usable(q)'
    <2>1. ZeroPage.type # "column" /\ num_pages < num_pages + 1
      BY <1>2 DEF ZeroPage
    <2> QED
      BY <1>2, <1>4, <1>7, <2>1 DEF Usable
  <1>8. ASSUME NEW p \in Pages, p >= num_pages' PROVE file'[p] = ZeroPage
    <2>1. p >= num_pages /\ p # num_pages
      BY <1>2, <1>8
    <2> QED
      BY <1>4, <2>1 DEF LinkInv
  <1>9. ASSUME NEW p \in Pages, file'[p].type # "column", NEW q, q = file'[p].next PROVE Leads(q)'
    <2>1. CASE p = num_pages
      <3>1. q = 0
        BY <1>4, <1>9, <2>1 DEF ZeroPage, ColumnPage
      <3> QED
        BY <1>6, <3>1 DEF LinkInv, Leads
    <2>2. CASE p # num_pages
      BY <1>4, <1>6, <1>9, <2>2 DEF LinkInv
    <2> QED
      BY <2>1, <2>2
  <1>10. (\A p \in Pages : file[p].type # "column" => Leads(file[p].next))'
    BY <1>9
  <1> QED
    BY <1>2, <1>3, <1>5, <1>6, <1>7, <1>8, <1>10

\* A slice is written.
LEMMA WriteLinks ==
    ASSUME LinkInv, WriteSlice
    PROVE  LinkInv'
  <1>1. /\ pc = "write" /\ file' = [file EXCEPT ![chain[i]] = SlicePage(i)] /\ i' = i + 1
        /\ (i = tables.n /\ pc' = "idle") \/ (i # tables.n /\ pc' = pc)
        /\ UNCHANGED <<num_pages, tables, versions, chain, next, body>>
    BY DEF WriteSlice
  <1>2. LinkTypes /\ i \in Nat /\ 1 <= i /\ i <= tables.n /\ tables.n <= Len(chain) /\ tables.n \in Nat
        /\ tables.id \in Int /\ chain \in Seq(Pages) /\ Len(chain) \in Nat
    BY <1>1 DEF LinkInv, LinkTypes
  <1>3. i \in DOMAIN chain /\ (i < tables.n => i + 1 \in DOMAIN chain)
    BY <1>2
  <1>4. PICK c \in Pages : c = chain[i] /\ Usable(c)
    BY <1>2, <1>3 DEF LinkInv
  <1>5. PICK x \in PageType : x = SlicePage(i) /\ x.type = "catalog" /\ Leads(x.next)
    <2>1. PICK l \in Pages \cup {kInvalidPageId} :
            l = (IF i < tables.n THEN chain[i + 1] ELSE kInvalidPageId) /\ Leads(l)
      <3>1. CASE i < tables.n
        <4>1. chain[i + 1] \in Pages /\ Usable(chain[i + 1])
          BY <1>2, <1>3, <3>1 DEF LinkInv
        <4> QED
          BY <3>1, <4>1 DEF Leads
      <3>2. CASE ~ (i < tables.n)
        BY <3>2 DEF Leads
      <3> QED
        BY <3>1, <3>2
    <2>2. SlicePage(i) = [type |-> "catalog", next |-> l, slice |-> <<tables.id, i>>]
      BY <2>1 DEF SlicePage
    <2>3. <<tables.id, i>> \in Int \X Int
      BY <1>2
    <2>4. SlicePage(i) \in PageType /\ SlicePage(i).type = "catalog" /\ SlicePage(i).next = l
      BY <2>2, <2>3 DEF PageType
    <2> QED
      BY <2>1, <2>4
  <1>6. /\ file' \in [Pages -> PageType] /\ file'[c] = x
        /\ \A p \in Pages : p # c => file'[p] = file[p]
    BY <1>1, <1>2, <1>4, <1>5 DEF LinkTypes
  <1>7. \A p : Usable(p) => Usable(p)'
    BY <1>1, <1>5, <1>6 DEF Usable
  <1>8. \A p : Leads(p) => Leads(p)'
    BY <1>7 DEF Leads
  <1>9. LinkTypes'
    BY <1>1, <1>2, <1>6 DEF LinkTypes
  <1>10. ASSUME NEW p \in Pages, p >= num_pages' PROVE file'[p] = ZeroPage
    <2>1. p # c
      BY <1>1, <1>2, <1>4, <1>10, PageFacts DEF Usable, LinkTypes
    <2> QED
      BY <1>1, <1>6, <1>10, <2>1 DEF LinkInv
  <1>11. ASSUME NEW p \in Pages, file'[p].type # "column", NEW q, q = file'[p].next PROVE Leads(q)'
    <2>1. CASE p = c
      BY <1>5, <1>6, <1>8, <1>11, <2>1
    <2>2. CASE p # c
      BY <1>6, <1>8, <1>11, <2>2 DEF LinkInv
    <2> QED
      BY <2>1, <2>2
  <1>12. (\A p \in Pages : file[p].type # "column" => Leads(file[p].next))'
    BY <1>11
  <1>13. /\ Usable(0)' /\ (\A k \in DOMAIN chain : Usable(chain[k]))' /\ Leads(next)'
    <2>1. Usable(0) /\ (\A k \in DOMAIN chain : Usable(chain[k])) /\ Leads(next)
      BY DEF LinkInv
    <2>2. chain' = chain /\ next' = next
      BY <1>1
    <2>3. \A k \in DOMAIN chain : Usable(chain[k])'
      BY <1>7, <2>1, <2>2
    <2> QED
      BY <1>7, <1>8, <2>1, <2>2, <2>3
  <1>14. (pc = "alloc" => i = 1)' /\ (pc = "write" => 1 <= i /\ i <= tables.n /\ tables.n <= Len(chain))'
    BY <1>1, <1>2
  <1> QED
    BY <1>9, <1>10, <1>12, <1>13, <1>14 DEF LinkInv

\* The file grows, or stays as it is.
LEMMA OtherLinks ==
    ASSUME LinkInv, [Next]_vars, ~ WriteSlice
    PROVE  LinkInv'
  <1>1. LinkTypes /\ Pages \subseteq Nat
    BY PageFacts DEF LinkInv
  <1>2. CASE Allocate
    <2>1. /\ pc = "alloc" /\ num_pages < MaxPages /\ file' = [file EXCEPT ![num_pages] = ZeroPage]
          /\ num_pages' = num_pages + 1 /\ chain' = Append(chain, num_pages)
          /\ UNCHANGED <<tables, versions, pc, next, i, body>>
      BY <1>2 DEF Allocate
    <2>2. /\ file' \in [Pages -> PageType] /\ num_pages' \in Nat /\ 1 <= num_pages' /\ num_pages' <= MaxPages
          /\ (\A p : Usable(p) => Usable(p)') /\ (\A p : Leads(p) => Leads(p)')
          /\ num_pages \in Pages /\ (\A q : q = num_pages => Usable(q)')
          /\ (\A p \in Pages : p >= num_pages => file[p] = ZeroPage)'
          /\ (\A p \in Pages : file[p].type # "column" => Leads(file[p].next))'
      BY <2>1, GrowLinks
    <2>3. PICK n \in Pages : n = num_pages /\ Usable(n)'
      BY <2>2
    <2>4. chain \in Seq(Pages) /\ chain' = Append(chain, n)
      BY <1>1, <2>1, <2>3 DEF LinkTypes
    <2>5. chain' \in Seq(Pages) /\ \A k \in DOMAIN chain' : chain'[k] = n \/ (k \in DOMAIN chain /\ chain'[k] = chain[k])
      BY <2>4
    <2>6. \A k \in DOMAIN chain' : Usable(chain[k])'
      BY <2>2, <2>3, <2>5 DEF LinkInv
    <2>7. LinkTypes'
      BY <1>1, <2>1, <2>2, <2>5 DEF LinkTypes
    <2>8. Usable(0)' /\ Leads(next)'
      BY <2>1, <2>2 DEF LinkInv
    <2> QED
      BY <2>1, <2>2, <2>6, <2>7, <2>8 DEF LinkInv
  <1>3. CASE AppendColumnPage
    <2>1. /\ pc = "idle" /\ num_pages < MaxPages /\ file' = [file EXCEPT ![num_pages] = ColumnPage]
          /\ num_pages' = num_pages + 1 /\ UNCHANGED <<tables, versions, pc, chain, next, i, body>>
      BY <1>3 DEF AppendColumnPage
    <2>2. /\ file' \in [Pages -> PageType] /\ num_pages' \in Nat /\ 1 <= num_pages' /\ num_pages' <= MaxPages
          /\ (\A p : Usable(p) => Usable(p)') /\ (\A p : Leads(p) => Leads(p)')
          /\ (\A p \in Pages : p >= num_pages => file[p] = ZeroPage)'
          /\ (\A p \in Pages : file[p].type # "column" => Leads(file[p].next))'
      BY <2>1, GrowLinks
    <2>3. LinkTypes'
      BY <1>1, <2>1, <2>2 DEF LinkTypes
    <2>4. Usable(0)' /\ Leads(next)' /\ \A k \in DOMAIN chain : Usable(chain[k])'
      BY <2>1, <2>2 DEF LinkInv
    <2> QED
      BY <2>1, <2>2, <2>3, <2>4 DEF LinkInv
  <1>4. CASE UNCHANGED <<file, num_pages>>
    <2>1. /\ \A p : Usable(p)' <=> Usable(p)
          /\ \A p : Leads(p)' <=> Leads(p)
          /\ (\A p \in Pages : p >= num_pages => file[p] = ZeroPage)'
          /\ Usable(0)'
          /\ (\A p \in Pages : file[p].type # "column" => Leads(file[p].next))'
      BY <1>4, SameLinks
    <2>2. Leads(next) /\ Usable(0) /\ (\A k \in DOMAIN chain : Usable(chain[k]))
          /\ (\A p \in Pages : file[p].type # "column" => Leads(file[p].next))
      BY DEF LinkInv
    <2>3. 0 \in Pages /\ kInvalidPageId \notin Pages
      BY PageFacts
    <2>4. ASSUME NEW n \in 1 .. MaxSlices, BeginPersist(n) PROVE LinkInv'
      <3>1. /\ pc' = "probe" /\ chain' = <<0>> /\ versions' = versions + 1 /\ tables' = Version(versions + 1, n)
            /\ next' = IF file[0].type = "catalog" THEN file[0].next ELSE kInvalidPageId
            /\ UNCHANGED <<file, num_pages, i, body>>
        BY <2>4 DEF BeginPersist
      <3>2. LinkTypes'
        BY <1>1, <2>3, <3>1, CatalogAssumption DEF LinkTypes, Version
      <3>3. Leads(next')
        BY <2>2, <2>3, <3>1 DEF Leads, Usable
      <3>4. \A k \in DOMAIN chain' : chain'[k] = 0
        BY <3>1
      <3> QED
        BY <2>1, <3>1, <3>2, <3>3, <3>4 DEF LinkInv
    <2>5. CASE Probe
      <3>1. /\ pc = "probe" /\ next # kInvalidPageId /\ chain' = Append(chain, next) /\ next' = file[next].next
            /\ UNCHANGED <<tables, versions, pc, i, body>>
        BY <2>5 DEF Probe
      <3>2. PICK n \in Pages : n = next /\ Usable(n) /\ Leads(file[n].next)
        BY <2>2, <3>1 DEF Leads, Usable
      <3>3. chain \in Seq(Pages) /\ chain' = Append(chain, n)
        BY <1>1, <3>1, <3>2 DEF LinkTypes
      <3>4. chain' \in Seq(Pages) /\ \A k \in DOMAIN chain' : chain'[k] = n \/ (k \in DOMAIN chain /\ chain'[k] = chain[k])
        BY <3>3
      <3>5. LinkTypes'
        BY <1>1, <1>4, <3>1, <3>4 DEF LinkTypes
      <3> QED
        BY <2>1, <2>2, <3>1, <3>2, <3>4, <3>5 DEF LinkInv
    <2>6. CASE Reopen
      <3>1. /\ chain' = <<>> /\ i' = 1 /\ body' = <<>> /\ pc' \in {"load", "idle"} /\ versions' = versions
            /\ tables' \in {tables, Empty} /\ next' \in {0, kInvalidPageId}
        BY <2>6 DEF Reopen
      <3>2. LinkTypes'
        BY <1>1, <1>4, <3>1 DEF LinkTypes, Empty, Version
      <3>3. Leads(next')
        BY <2>2, <3>1 DEF Leads
      <3> QED
        BY <2>1, <3>1, <3>2, <3>3 DEF LinkInv
    <2>7. CASE LoadPage
      <3>1. /\ pc = "load" /\ next # kInvalidPageId /\ body' = Append(body, file[next].slice)
            /\ next' = file[next].next /\ UNCHANGED <<tables, versions, pc, chain, i>>
        BY <2>7 DEF LoadPage
      <3>2. next \in Pages /\ Leads(file[next].next)
        BY <2>2, <3>1 DEF Leads, Usable
      <3>3. file[next].slice \in Int \X Int
        BY <1>1, <3>2 DEF LinkTypes, PageType
      <3>4. LinkTypes'
        BY <1>1, <1>4, <3>1, <3>3 DEF LinkTypes
      <3> QED
        BY <2>1, <2>2, <3>1, <3>2, <3>4 DEF LinkInv
    <2>8. CASE LoadEnd
      <3>1. /\ pc' \in {"failed", "idle"} /\ tables' = Parse(body) /\ UNCHANGED <<versions, chain, next, i, body>>
        BY <2>8 DEF LoadEnd
      <3>2. Parse(body) \in [id : Int, n : Nat \ {0}]
        <4>1. PICK b \in Seq(Int \X Int) : b = body
          BY <1>1 DEF LinkTypes
        <4>2. ASSUME b # <<>> PROVE Len(b) \in Nat \ {0} /\ b[1][1] \in Int
          <5>1. Len(b) \in Nat \ {0} /\ 1 \in 1 .. Len(b)
            BY <4>2
          <5>2. b[1] \in Int \X Int
            BY <5>1
          <5> QED
            BY <5>1, <5>2
        <4> QED
          BY <4>1, <4>2 DEF Parse, Version, Garbage
      <3>3. LinkTypes'
        BY <1>1, <1>4, <3>1, <3>2 DEF LinkTypes
      <3> QED
        BY <2>1, <2>2, <3>1, <3>3 DEF LinkInv
    <2>9. CASE ProbeEnd \/ AllocateEnd \/ PersistThrows \/ UNCHANGED vars
      <3>1. /\ UNCHANGED <<tables, versions, chain, next, body>> /\ i' \in {i, 1}
            /\ pc' = "alloc" => i' = 1
            /\ pc' = "write" => Len(chain) >= tables.n /\ i' = i /\ (pc = "write" \/ i = 1)
        BY <2>9 DEF ProbeEnd, AllocateEnd, PersistThrows, vars, LinkInv
      <3>2. LinkTypes'
        BY <1>1, <1>4, <3>1 DEF LinkTypes
      <3>3. pc' = "write" => 1 <= i' /\ i' <= tables'.n /\ tables'.n <= Len(chain')
        BY <1>1, <3>1 DEF LinkInv, LinkTypes
      <3> QED
        BY <2>1, <2>2, <3>1, <3>2, <3>3 DEF LinkInv
    <2>10. ~ Allocate /\ ~ AppendColumnPage
      BY <1>1, <1>4 DEF Allocate, AppendColumnPage, LinkTypes
    <2> QED
      BY <2>4, <2>5, <2>6, <2>7, <2>8, <2>9, <2>10 DEF Next
  <1>5. Allocate \/ AppendColumnPage \/ UNCHANGED <<file, num_pages>>
    BY DEF Next, vars, BeginPersist, Probe, ProbeEnd, AllocateEnd, PersistThrows, Reopen, LoadPage, LoadEnd
  <1> QED
    BY <1>2, <1>3, <1>4, <1>5

\* The links of the file stay within the catalog, whatever has been torn.
THEOREM LinkInvariant == Spec => []LinkInv
  <1>1. LinkInv /\ [Next]_vars => LinkInv'
    BY WriteLinks, OtherLinks
  <1> QED
    BY <1>1, LinkInit, PTL DEF Spec

\* Persist never writes over a column page, whatever Persists have thrown or
\* been cut short before (Catalog::Persist).
THEOREM ColumnPagesStay == Spec => ColumnPagesUntouched
  <1>1. ASSUME LinkInv, [Next]_vars, NEW p \in Pages, file[p].type = "column"
        PROVE  file'[p] = file[p]
    <2>1. LinkTypes
      BY <1>1 DEF LinkInv
    <2>2. CASE Allocate \/ AppendColumnPage
      <3>1. p # num_pages
        <4>1. p >= num_pages => file[p] = ZeroPage
          BY <1>1 DEF LinkInv
        <4>2. p \in Nat /\ num_pages \in Nat
          BY <2>1, PageFacts DEF LinkTypes
        <4> QED
          BY <1>1, <4>1, <4>2 DEF ZeroPage
      <3> QED
        BY <2>1, <2>2, <3>1 DEF Allocate, AppendColumnPage, LinkTypes
    <2>3. CASE WriteSlice
      <3>1. i \in DOMAIN chain
        BY <1>1, <2>1, <2>3 DEF WriteSlice, LinkInv, LinkTypes
      <3>2. p # chain[i]
        BY <1>1, <3>1 DEF LinkInv, Usable
      <3> QED
        BY <2>1, <2>3, <3>2 DEF WriteSlice, LinkTypes
    <2>4. CASE UNCHANGED file
      BY <2>4
    <2>5. Allocate \/ AppendColumnPage \/ WriteSlice \/ UNCHANGED file
      BY <1>1 DEF Next, vars, BeginPersist, Probe, ProbeEnd, AllocateEnd, PersistThrows, Reopen, LoadPage, LoadEnd
    <2> QED
      BY <2>2, <2>3, <2>4, <2>5
  <1>2. LinkInv /\ [Next]_vars => [\A p \in Pages : file[p].type = "column" => file'[p] = file[p]]_vars
    BY <1>1
  <1> QED
    BY <1>2, LinkInvariant, PTL DEF Spec, ColumnPagesUntouched
=============================================================================
