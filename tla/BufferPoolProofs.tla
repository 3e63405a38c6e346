-------------------------- MODULE BufferPoolProofs ---------------------------
(***************************************************************************)
(* Theorems about BufferPool, for every number of clients, frames and      *)
(* pages, with and without disk faults.                                    *)
(***************************************************************************)
EXTENDS BufferPool, FiniteSetTheorems, SequenceTheorems, TLAPS

-----------------------------------------------------------------------------
(* The LRU list: what Erase and Touch return.                              *)

Distinct(l) == \A i, j \in DOMAIN l : l[i] = l[j] => i = j

\* Erase removes one element of a list without repetitions and nothing else.
LEMMA EraseFacts ==
    ASSUME NEW S, NEW l \in Seq(S), NEW f, Distinct(l)
    PROVE  /\ Erase(l, f) \in Seq(S)
           /\ ToSet(Erase(l, f)) = ToSet(l) \ {f}
           /\ Distinct(Erase(l, f))
<1>1. CASE ~ \E i \in DOMAIN l : l[i] = f
  BY <1>1 DEF Erase, ToSet
<1>2. CASE \E i \in DOMAIN l : l[i] = f
  <2> DEFINE k == CHOOSE i \in DOMAIN l : l[i] = f
             r == RemoveAt(l, k)
  <2>1. k \in DOMAIN l /\ l[k] = f
    BY <1>2
  <2> HIDE DEF k
  <2>2. /\ r \in Seq(S)
        /\ DOMAIN r = 1 .. Len(l) - 1
        /\ \A j \in 1 .. Len(l) - 1 : r[j] = IF j < k THEN l[j] ELSE l[j + 1]
    <3> DEFINE a == SubSeq(l, 1, k - 1)
               b == SubSeq(l, k + 1, Len(l))
    <3>1. /\ a \in Seq(S) /\ Len(a) = k - 1
          /\ \A j \in 1 .. k - 1 : a[j] = l[j]
      BY <2>1, SubSeqProperties
    <3>2. /\ b \in Seq(S) /\ Len(b) = Len(l) - k
          /\ \A j \in 1 .. Len(l) - k : b[j] = l[k + j]
      BY <2>1, SubSeqProperties
    <3>3. r = a \o b
      BY DEF RemoveAt
    <3> HIDE DEF a, b, r
    <3> QED BY <2>1, <3>1, <3>2, <3>3
  <2> HIDE DEF r
  <2>3. Erase(l, f) = r
    BY <1>2 DEF Erase, r, k
  <2>4. Distinct(r)
    BY <2>1, <2>2 DEF Distinct
  <2>5. ASSUME NEW x \in ToSet(r) PROVE x \in ToSet(l) \ {f}
    BY <2>1, <2>2, <2>5 DEF ToSet, Distinct
  <2>6. ASSUME NEW x \in ToSet(l) \ {f} PROVE x \in ToSet(r)
    <3>1. PICK i \in DOMAIN l : l[i] = x
      BY <2>6 DEF ToSet
    <3>2. CASE i < k
      BY <3>1, <3>2, <2>1, <2>2 DEF ToSet
    <3>3. CASE i > k
      <4>1. i - 1 \in 1 .. Len(l) - 1 /\ r[i - 1] = x
        BY <3>1, <3>3, <2>1, <2>2
      <4> QED BY <4>1, <2>2 DEF ToSet
    <3> QED BY <3>1, <3>2, <3>3, <2>1
  <2> QED BY <2>2, <2>3, <2>4, <2>5, <2>6
<1> QED BY <1>1, <1>2

\* Touch adds f at the front and keeps every other element once.
LEMMA TouchFacts ==
    ASSUME NEW S, NEW l \in Seq(S), NEW f \in S, Distinct(l)
    PROVE  /\ Touch(l, f) \in Seq(S)
           /\ ToSet(Touch(l, f)) = ToSet(l) \cup {f}
           /\ Distinct(Touch(l, f))
<1> DEFINE e == Erase(l, f)
<1>1. e \in Seq(S) /\ ToSet(e) = ToSet(l) \ {f} /\ Distinct(e)
  BY EraseFacts
<1>2. Touch(l, f) = <<f>> \o e
  BY DEF Touch
<1> HIDE DEF e
<1> DEFINE t == <<f>> \o e
<1>3. /\ t \in Seq(S)
      /\ Len(e) \in Nat /\ DOMAIN e = 1 .. Len(e)
      /\ DOMAIN t = 1 .. Len(e) + 1
      /\ t[1] = f
      /\ \A j \in 2 .. Len(e) + 1 : t[j] = e[j - 1]
  BY <1>1
<1> HIDE DEF t
<1>4. \A j \in DOMAIN e : e[j] # f
  BY <1>1 DEF ToSet
<1>5. Distinct(t)
  <2> SUFFICES ASSUME NEW i \in DOMAIN t, NEW j \in DOMAIN t, t[i] = t[j]
               PROVE  i = j
    BY DEF Distinct
  <2>1. \A m \in DOMAIN t : m # 1 => m - 1 \in DOMAIN e /\ t[m] = e[m - 1]
    BY <1>3
  <2>2. CASE i = 1 \/ j = 1
    BY <2>1, <2>2, <1>3, <1>4
  <2>3. CASE i # 1 /\ j # 1
    <3>1. i - 1 = j - 1
      BY <2>1, <2>3, <1>1 DEF Distinct
    <3> QED BY <3>1, <1>3
  <2> QED BY <2>2, <2>3
<1>6. ASSUME NEW x \in ToSet(t) PROVE x \in ToSet(l) \cup {f}
  <2>1. PICK i \in DOMAIN t : t[i] = x
    BY <1>6 DEF ToSet
  <2>2. CASE i # 1
    <3>1. i - 1 \in DOMAIN e /\ e[i - 1] = x
      BY <2>1, <2>2, <1>3
    <3> QED BY <3>1, <1>1 DEF ToSet
  <2> QED BY <2>1, <2>2, <1>3
<1>7. ASSUME NEW x \in ToSet(l) \cup {f} PROVE x \in ToSet(t)
  <2>1. CASE x = f
    BY <2>1, <1>3, <1>1 DEF ToSet
  <2>2. CASE x # f
    <3>1. PICK i \in DOMAIN e : e[i] = x
      BY <2>2, <1>7, <1>1 DEF ToSet
    <3>2. i + 1 \in DOMAIN t /\ t[i + 1] = x
      BY <3>1, <1>1, <1>3
    <3> QED BY <3>2 DEF ToSet
  <2> QED BY <2>1, <2>2
<1> QED BY <1>2, <1>3, <1>5, <1>6, <1>7 DEF t

-----------------------------------------------------------------------------
(* The inductive invariant.                                                *)

\* PageTableExact keeps PointerStable through an eviction (the victim has no
\* pin, so by PinsCounted no holder), ListsExact keeps victims valid, and
\* CleanIsDurable makes the unwritten victim replaceable.
PoolInv ==
    /\ TypeOK
    /\ PageTableExact
    /\ PointerStable
    /\ PinsCounted
    /\ ListsExact
    /\ CleanIsDurable
    /\ BeyondEndIsZero

\* One more, or one fewer, client in a set of clients.
LEMMA CardinalityStep ==
    ASSUME NEW S \in SUBSET Clients, NEW c \in Clients, c \notin S
    PROVE  /\ Cardinality(S \cup {c}) = Cardinality(S) + 1
           /\ Cardinality(S) \in Nat
<1>1. IsFiniteSet(S)
  BY BufferPoolAssumption, FS_Subset
<1> QED BY <1>1, FS_AddElement, FS_CardinalityType

\* A frame without pins has no holder.
LEMMA UnpinnedHasNoHolder ==
    ASSUME PinsCounted, NEW f \in Frames, pin_count[f] = 0
    PROVE  Holders(f) = {}
<1>1. Cardinality(Holders(f)) = 0
  BY DEF PinsCounted
<1>2. IsFiniteSet(Holders(f))
  BY BufferPoolAssumption, FS_Subset DEF Holders
<1> QED BY <1>1, <1>2, FS_EmptySet

\* A frame that is not valid has no pins.
LEMMA InvalidHasNoPins ==
    ASSUME TypeOK, PageTableExact, PointerStable, PinsCounted,
           NEW f \in Frames, ~valid[f]
    PROVE  pin_count[f] = 0
<1>1. Holders(f) = {}
  BY DEF Holders, PointerStable, PageTableExact, TypeOK, NoFrame, Frames, Holding
<1> QED BY <1>1, FS_EmptySet DEF PinsCounted

\* The client that gets the pointer is one more holder of that frame.
LEMMA OneMoreHolder ==
    ASSUME TypeOK, NEW c \in Clients, NEW f \in Frames, pc[c] \notin Holding,
           pc' = [pc EXCEPT ![c] = IF isNew[c] THEN "init" ELSE "held"],
           ptr' = [ptr EXCEPT ![c] = f]
    PROVE  \A g \in Frames : Cardinality(Holders(g))' =
              IF g = f THEN Cardinality(Holders(g)) + 1 ELSE Cardinality(Holders(g))
<1> TAKE g \in Frames
<1>1. CASE g = f
  <2>1. Holders(g)' = Holders(g) \cup {c} /\ c \notin Holders(g)
    BY <1>1 DEF Holders, Holding, TypeOK
  <2> QED BY <2>1, <1>1, CardinalityStep DEF Holders
<1>2. CASE g # f
  <2>1. Holders(g)' = Holders(g)
    BY <1>2 DEF Holders, Holding, TypeOK
  <2> QED BY <2>1, <1>2
<1> QED BY <1>1, <1>2

\* A client that holds nothing before and after a step changes no holders.
LEMMA SameHolders ==
    ASSUME TypeOK, NEW c \in Clients, pc[c] \notin Holding, NEW s, s \notin Holding,
           pc' = [pc EXCEPT ![c] = s], ptr' = ptr
    PROVE  \A g \in Frames : Holders(g)' = Holders(g)
  BY DEF Holders, TypeOK

\* The invariant holds when the pool is constructed.
LEMMA PoolInvInit == Init => PoolInv
<1> SUFFICES ASSUME Init PROVE PoolInv
  OBVIOUS
<1> USE BufferPoolAssumption
<1>1. TypeOK
  BY DEF Init, TypeOK, Frames, Pages, Contents, kInvalidPageId, NoFrame, Holding
<1>2. PageTableExact /\ PointerStable /\ CleanIsDurable /\ BeyondEndIsZero
  BY DEF Init, PageTableExact, PointerStable, CleanIsDurable, BeyondEndIsZero,
         Frames, Pages, NoFrame, Holding
<1>3. PinsCounted
  <2>1. \A f \in Frames : Holders(f) = {}
    BY DEF Init, Holders, Holding
  <2> QED BY <2>1, FS_EmptySet DEF Init, PinsCounted
<1>4. ListsExact
  BY DEF Init, ListsExact, ToSet, Frames
<1> QED BY <1>1, <1>2, <1>3, <1>4 DEF PoolInv

\* Reading want[c] into an unpinned frame f keeps the invariant, whether f
\* was free or has just been emptied; only f's old page may have reached
\* the file.
LEMMA ReadPagePreserves ==
    ASSUME PoolInv, NEW c \in Clients, MustLoad(c),
           NEW f \in Frames, pin_count[f] = 0,
           NEW l \in Seq(Frames), Distinct(l),
           ToSet(l) = {g \in Frames : valid[g] /\ g # f},
           NEW table,
           table = [p \in Pages |-> IF page_table[p] = f THEN NoFrame ELSE page_table[p]],
           free_list' \in Seq(Frames), Distinct(free_list'),
           \A i \in DOMAIN free_list' : ~valid[free_list'[i]] /\ free_list'[i] # f,
           disk' \in [Pages -> Contents],
           \A p \in Pages : page_table[p] # f => disk'[p] = disk[p],
           num_pages' = num_pages,
           ReadPage(c, want[c], f, l, table)
    PROVE  PoolInv'
<1> DEFINE w == want[c]
<1>1. w \in Pages /\ page_table[w] = NoFrame /\ pc[c] = "miss" /\ w < num_pages
  BY DEF MustLoad, PoolInv, TypeOK, ReadPage
<1>2. f # NoFrame
  BY DEF Frames, NoFrame
<1>3. /\ lru' = Touch(l, f)
      /\ lru' \in Seq(Frames)
      /\ ToSet(lru') = ToSet(l) \cup {f}
      /\ Distinct(lru')
  <2>1. lru' = Touch(l, f)
    BY DEF ReadPage
  <2>2. /\ Touch(l, f) \in Seq(Frames)
        /\ ToSet(Touch(l, f)) = ToSet(l) \cup {f}
        /\ Distinct(Touch(l, f))
    BY TouchFacts
  <2> QED BY <2>1, <2>2
<1>4. TypeOK'
  BY <1>1, <1>3 DEF PoolInv, TypeOK, ReadPage, Holding, Contents
<1>5. \A g \in Frames : valid'[g] <=> valid[g] \/ g = f
  BY DEF ReadPage, PoolInv, TypeOK
<1>6. \A p \in Pages : page_table'[p] =
        IF p = w THEN f ELSE IF page_table[p] = f THEN NoFrame ELSE page_table[p]
  BY <1>1 DEF ReadPage
<1>7. \A g \in Frames : page_id'[g] = IF g = f THEN w ELSE page_id[g]
  BY DEF ReadPage, PoolInv, TypeOK
<1>8. PageTableExact'
  <2>1. ASSUME NEW p \in Pages, page_table'[p] # NoFrame
        PROVE  p < num_pages' /\ valid'[page_table'[p]] /\ page_id'[page_table'[p]] = p
    <3>1. CASE p = w
      BY <3>1, <1>1, <1>5, <1>6, <1>7
    <3>2. CASE p # w
      <4>1. page_table'[p] = page_table[p] /\ page_table[p] # f /\ page_table[p] # NoFrame
        BY <3>2, <2>1, <1>6
      <4>2. page_table[p] \in Frames
        BY <4>1 DEF PoolInv, TypeOK
      <4>3. p < num_pages /\ valid[page_table[p]] /\ page_id[page_table[p]] = p
        BY <4>1 DEF PoolInv, PageTableExact
      <4> QED BY <4>1, <4>2, <4>3, <1>5, <1>7
    <3> QED BY <3>1, <3>2
  <2>2. ASSUME NEW g \in Frames, valid'[g]
        PROVE  page_id'[g] \in Pages /\ page_table'[page_id'[g]] = g
    <3>1. CASE g = f
      BY <3>1, <1>1, <1>6, <1>7
    <3>2. CASE g # f
      <4>1. valid[g] /\ page_id'[g] = page_id[g] /\ page_id[g] \in Pages
            /\ page_table[page_id[g]] = g
        BY <3>2, <2>2, <1>5, <1>7 DEF PoolInv, PageTableExact
      <4>2. page_id[g] # w
        BY <4>1, <1>1 DEF Frames, NoFrame
      <4> QED BY <4>1, <4>2, <3>2, <1>6
    <3> QED BY <3>1, <3>2
  <2> QED BY <2>1, <2>2 DEF PageTableExact
<1>9. Holders(f) = {}
  BY UnpinnedHasNoHolder DEF PoolInv
<1>10. PointerStable'
  <2> SUFFICES ASSUME NEW d \in Clients, pc'[d] \in Holding
               PROVE  page_table'[want'[d]] = ptr'[d]
    BY DEF PointerStable
  <2>1. CASE d = c
    BY <2>1, <1>1, <1>6 DEF ReadPage, PoolInv, TypeOK
  <2>2. CASE d # c
    <3>1. pc[d] \in Holding /\ want'[d] = want[d] /\ ptr'[d] = ptr[d] /\ want[d] \in Pages
      BY <2>2 DEF ReadPage, PoolInv, TypeOK, Holding
    <3>2. page_table[want[d]] = ptr[d] /\ ptr[d] # f /\ ptr[d] \in Frames
      BY <3>1, <1>9 DEF PoolInv, TypeOK, PointerStable, Holders
    <3>3. want[d] # w
      BY <3>2, <1>1 DEF Frames, NoFrame
    <3> QED BY <3>1, <3>2, <3>3, <1>6
  <2> QED BY <2>1, <2>2
<1>11. PinsCounted'
  <2>1. \A g \in Frames : Cardinality(Holders(g))' =
          IF g = f THEN Cardinality(Holders(g)) + 1 ELSE Cardinality(Holders(g))
    BY <1>1, OneMoreHolder DEF ReadPage, PoolInv, Holding
  <2>2. Cardinality(Holders(f)) = 0
    BY <1>9, FS_EmptySet
  <2>3. \A g \in Frames : pin_count'[g] = IF g = f THEN 1 ELSE pin_count[g]
    BY DEF ReadPage, PoolInv, TypeOK
  <2> QED BY <2>1, <2>2, <2>3 DEF PoolInv, PinsCounted
<1>12. ListsExact'
  <2>1. ToSet(lru') = {g \in Frames : valid'[g]}
    BY <1>3, <1>5
  <2>2. \A i \in DOMAIN free_list' : ~valid'[free_list'[i]]
    BY <1>5
  <2> QED BY <2>1, <2>2, <1>3 DEF ListsExact, Distinct, ToSet
<1>13. CleanIsDurable'
  <2> SUFFICES ASSUME NEW g \in Frames, valid'[g], ~dirty'[g], ~BeingWritten(page_id[g])'
               PROVE  page'[g] = disk'[page_id'[g]]
    BY DEF CleanIsDurable
  <2>1. CASE g = f
    <3>1. page'[g] = disk[w] /\ page_id'[g] = w
      BY <2>1 DEF ReadPage, PoolInv, TypeOK
    <3> QED BY <3>1, <1>1, <1>2
  <2>2. CASE g # f
    <3>1. valid[g] /\ ~dirty[g] /\ page_id'[g] = page_id[g] /\ page'[g] = page[g]
      BY <2>2, <1>5, <1>7 DEF ReadPage, PoolInv, TypeOK
    <3>2. page_id[g] \in Pages /\ page_table[page_id[g]] = g
      BY <3>1 DEF PoolInv, PageTableExact
    <3>3. ~BeingWritten(page_id[g])
      BY <3>1, <1>1 DEF BeingWritten, ReadPage, PoolInv, TypeOK, Holding
    <3> QED BY <3>1, <3>2, <3>3, <2>2 DEF PoolInv, CleanIsDurable
  <2> QED BY <2>1, <2>2
<1>14. BeyondEndIsZero'
  <2> SUFFICES ASSUME NEW p \in Pages, p >= num_pages
               PROVE  disk'[p] = Zero
    BY DEF BeyondEndIsZero
  <2>1. page_table[p] = NoFrame
    BY DEF PoolInv, PageTableExact, TypeOK, Pages
  <2> QED BY <2>1, <1>2 DEF PoolInv, BeyondEndIsZero
<1> QED BY <1>4, <1>8, <1>10, <1>11, <1>12, <1>13, <1>14 DEF PoolInv

\* Pinning a cached page keeps the invariant; the list may be reordered.
LEMMA PinPreserves ==
    ASSUME PoolInv, NEW c \in Clients, pc[c] \notin Holding, NEW p \in Pages,
           page_table[p] # NoFrame, Pin(c, p, page_table[p]),
           lru' \in Seq(Frames), ToSet(lru') = ToSet(lru), Distinct(lru'),
           UNCHANGED <<diskVars, frameVars, page_table, free_list>>
    PROVE  PoolInv'
<1> DEFINE f == page_table[p]
<1>1. f \in Frames
  BY DEF PoolInv, TypeOK
<1> USE DEF diskVars, frameVars
<1>2. TypeOK'
  BY <1>1 DEF PoolInv, TypeOK, Pin, Holding
<1>3. PageTableExact' /\ BeyondEndIsZero'
  BY DEF PoolInv, PageTableExact, BeyondEndIsZero
<1>4. PointerStable'
  BY <1>1 DEF PoolInv, TypeOK, PointerStable, Pin, Holding
<1>5. PinsCounted'
  <2>1. \A g \in Frames : Cardinality(Holders(g))' =
          IF g = f THEN Cardinality(Holders(g)) + 1 ELSE Cardinality(Holders(g))
    BY <1>1, OneMoreHolder DEF Pin, PoolInv
  <2>2. \A g \in Frames : pin_count'[g] = IF g = f THEN pin_count[g] + 1 ELSE pin_count[g]
    BY DEF Pin, PoolInv, TypeOK
  <2> QED BY <2>1, <2>2 DEF PoolInv, PinsCounted
<1>6. ListsExact'
  BY DEF PoolInv, ListsExact, Distinct, ToSet
<1>7. CleanIsDurable'
  <2> SUFFICES ASSUME NEW g \in Frames, valid[g], ~dirty[g], ~BeingWritten(page_id[g])'
               PROVE  page[g] = disk[page_id[g]]
    BY DEF CleanIsDurable
  <2>1. ~BeingWritten(page_id[g])
    BY DEF BeingWritten, Pin, PoolInv, TypeOK, Holding
  <2> QED BY <2>1 DEF PoolInv, CleanIsDurable
<1> QED BY <1>2, <1>3, <1>4, <1>5, <1>6, <1>7 DEF PoolInv

\* A step of a client that holds no page before or after it, and that
\* leaves the frames alone, keeps the invariant.
LEMMA WaitPreserves ==
    ASSUME PoolInv, NEW c \in Clients, pc[c] \notin Holding,
           NEW s \in {"idle", "allocated", "miss"}, pc' = [pc EXCEPT ![c] = s],
           want' \in [Clients -> Pages \cup {kInvalidPageId}],
           \A d \in Clients : d # c => want'[d] = want[d],
           s # "idle" => want'[c] \in Pages,
           isNew' \in [Clients -> BOOLEAN],
           UNCHANGED <<disk, num_pages, frameVars, pin_count, tableVars, ptr, wrote, got>>
    PROVE  PoolInv'
<1> USE DEF frameVars, tableVars
<1>1. TypeOK'
  BY DEF PoolInv, TypeOK, Holding
<1>2. PageTableExact' /\ BeyondEndIsZero' /\ ListsExact'
  BY DEF PoolInv, PageTableExact, BeyondEndIsZero, ListsExact, ToSet
<1>3. PointerStable'
  BY DEF PoolInv, TypeOK, PointerStable, Holding
<1>4. PinsCounted'
  <2>1. \A g \in Frames : Holders(g)' = Holders(g)
    BY SameHolders DEF PoolInv, Holding
  <2> QED BY <2>1 DEF PoolInv, PinsCounted
<1>5. CleanIsDurable'
  <2> SUFFICES ASSUME NEW g \in Frames, valid[g], ~dirty[g], ~BeingWritten(page_id[g])'
               PROVE  page[g] = disk[page_id[g]]
    BY DEF CleanIsDurable
  <2>1. ~BeingWritten(page_id[g])
    BY DEF BeingWritten, PoolInv, TypeOK, Holding
  <2> QED BY <2>1 DEF PoolInv, CleanIsDurable
<1> QED BY <1>1, <1>2, <1>3, <1>4, <1>5 DEF PoolInv

\* The fast path of FetchPage pins a cached page or only notes the miss.
LEMMA FastPathPreserves ==
    ASSUME PoolInv, NEW c \in Clients, pc[c] \in {"idle", "allocated"},
           NEW p \in Pages, FastPath(c, p)
    PROVE  PoolInv'
<1>1. CASE page_table[p] # NoFrame
  <2>1. /\ Pin(c, p, page_table[p])
        /\ UNCHANGED <<diskVars, frameVars, page_table, lru, free_list>>
    BY <1>1 DEF FastPath, tableVars
  <2>2. lru' \in Seq(Frames) /\ ToSet(lru') = ToSet(lru) /\ Distinct(lru')
    BY <2>1 DEF PoolInv, TypeOK, ListsExact, Distinct
  <2> QED BY <1>1, <2>1, <2>2, PinPreserves DEF Holding
<1>2. CASE page_table[p] = NoFrame
  <2>1. /\ pc' = [pc EXCEPT ![c] = "miss"]
        /\ want' = [want EXCEPT ![c] = p]
        /\ UNCHANGED <<pin_count, isNew, ptr, wrote, got, diskVars, frameVars, tableVars>>
    BY <1>2 DEF FastPath
  <2>2. /\ want' \in [Clients -> Pages \cup {kInvalidPageId}]
        /\ want'[c] \in Pages
        /\ \A d \in Clients : d # c => want'[d] = want[d]
        /\ isNew' \in [Clients -> BOOLEAN]
    BY <2>1 DEF PoolInv, TypeOK
  <2> QED BY <2>1, <2>2, WaitPreserves DEF Holding, diskVars
<1> QED BY <1>1, <1>2

\* The second look in the page table finds the frame another client filled.
LEMMA LoadCachedPreserves ==
    ASSUME PoolInv, NEW c \in Clients, LoadCached(c)
    PROVE  PoolInv'
<1> DEFINE f == page_table[want[c]]
<1>1. pc[c] \notin Holding /\ want[c] \in Pages /\ f # NoFrame /\ f \in Frames
  BY DEF LoadCached, Holding, PoolInv, TypeOK
<1>2. valid[f]
  BY <1>1 DEF PoolInv, PageTableExact
<1>3. lru \in Seq(Frames) /\ Distinct(lru) /\ f \in ToSet(lru)
  BY <1>1, <1>2 DEF PoolInv, TypeOK, ListsExact, Distinct
<1>4. lru' = Touch(lru, f)
  BY DEF LoadCached
<1>5. Touch(lru, f) \in Seq(Frames) /\ ToSet(Touch(lru, f)) = ToSet(lru) \cup {f}
      /\ Distinct(Touch(lru, f))
  BY <1>1, <1>3, TouchFacts
<1>6. lru' \in Seq(Frames) /\ ToSet(lru') = ToSet(lru) /\ Distinct(lru')
  BY <1>3, <1>4, <1>5
<1>7. Pin(c, want[c], page_table[want[c]])
      /\ UNCHANGED <<diskVars, frameVars, page_table, free_list>>
  BY DEF LoadCached
<1> QED BY <1>1, <1>6, <1>7, PinPreserves

\* The frame at the back of free_list_ is unpinned and nobody else's.
LEMMA LastFree ==
    ASSUME PoolInv, free_list # <<>>
    PROVE  /\ Last(free_list) \in Frames
           /\ ~valid[Last(free_list)]
           /\ pin_count[Last(free_list)] = 0
           /\ Front(free_list) \in Seq(Frames)
           /\ Distinct(Front(free_list))
           /\ \A i \in DOMAIN Front(free_list) :
                 ~valid[Front(free_list)[i]] /\ Front(free_list)[i] # Last(free_list)
<1> DEFINE n == Len(free_list)
<1>1. /\ free_list \in Seq(Frames) /\ n \in Nat \ {0} /\ DOMAIN free_list = 1 .. n
      /\ \A i, j \in DOMAIN free_list : free_list[i] = free_list[j] => i = j
      /\ \A i \in DOMAIN free_list : ~valid[free_list[i]]
  BY DEF PoolInv, TypeOK, ListsExact
<1>2. Last(free_list) = free_list[n] /\ free_list[n] \in Frames /\ ~valid[free_list[n]]
  BY <1>1 DEF Last
<1>3. pin_count[free_list[n]] = 0
  BY <1>2, InvalidHasNoPins DEF PoolInv
<1>4. /\ Front(free_list) \in Seq(Frames)
      /\ DOMAIN Front(free_list) = 1 .. n - 1
      /\ \A i \in 1 .. n - 1 : Front(free_list)[i] = free_list[i]
  BY <1>1 DEF Front
<1>5. Distinct(Front(free_list))
  BY <1>1, <1>4 DEF Distinct
<1>6. \A i \in 1 .. n - 1 : ~valid[free_list[i]] /\ free_list[i] # free_list[n]
  BY <1>1
<1> QED BY <1>2, <1>3, <1>4, <1>5, <1>6

\* Loading into a free frame: nobody holds it and it was not valid.
LEMMA LoadFreePreserves ==
    ASSUME PoolInv, NEW c \in Clients, LoadFree(c)
    PROVE  PoolInv'
<1> DEFINE f == Last(free_list)
<1>1. MustLoad(c) /\ free_list # <<>> /\ free_list' = Front(free_list)
      /\ ReadPage(c, want[c], f, lru, page_table) /\ disk' = disk /\ num_pages' = num_pages
  BY DEF LoadFree, diskVars
<1>2. /\ f \in Frames /\ ~valid[f] /\ pin_count[f] = 0
      /\ free_list' \in Seq(Frames) /\ Distinct(free_list')
      /\ \A i \in DOMAIN free_list' : ~valid[free_list'[i]] /\ free_list'[i] # f
  BY <1>1, LastFree
<1> HIDE DEF f
<1>3. lru \in Seq(Frames) /\ Distinct(lru) /\ ToSet(lru) = {g \in Frames : valid[g] /\ g # f}
  BY <1>2 DEF PoolInv, TypeOK, ListsExact, Distinct
<1>4. \A p \in Pages : page_table[p] # f
  BY <1>2 DEF PoolInv, PageTableExact, Frames, NoFrame
<1>5. page_table = [p \in Pages |-> IF page_table[p] = f THEN NoFrame ELSE page_table[p]]
  BY <1>4 DEF PoolInv, TypeOK
<1>6. disk' \in [Pages -> Contents] /\ \A p \in Pages : page_table[p] # f => disk'[p] = disk[p]
  BY <1>1 DEF PoolInv, TypeOK
<1> QED BY <1>1, <1>2, <1>3, <1>5, <1>6, ReadPagePreserves

\* What Throw leaves of the client.
LEMMA ThrowFacts ==
    ASSUME PoolInv, NEW c \in Clients, Throw(c)
    PROVE  /\ want' \in [Clients -> Pages \cup {kInvalidPageId}]
           /\ \A d \in Clients : d # c => want'[d] = want[d]
           /\ isNew' \in [Clients -> BOOLEAN]
  BY DEF PoolInv, TypeOK, Throw

\* A throw before anything has changed leaves the pool as it was.
LEMMA LoadThrowsPreserves ==
    ASSUME PoolInv, NEW c \in Clients, LoadThrows(c)
    PROVE  PoolInv'
<1>1. /\ pc[c] \notin Holding
      /\ pc' = [pc EXCEPT ![c] = "idle"]
      /\ Throw(c)
      /\ UNCHANGED <<disk, num_pages, frameVars, pin_count, tableVars, ptr, wrote, got>>
  BY DEF LoadThrows, MustLoad, Throw, diskVars, Holding
<1> QED BY <1>1, ThrowFacts, WaitPreserves

\* A failed read into a free frame takes that frame out of free_list_ only.
LEMMA LoadFreeThrowsPreserves ==
    ASSUME PoolInv, NEW c \in Clients, LoadFreeThrows(c)
    PROVE  PoolInv'
<1> USE DEF diskVars, frameVars
<1>1. /\ pc[c] \notin Holding
      /\ pc' = [pc EXCEPT ![c] = "idle"]
      /\ Throw(c)
      /\ free_list # <<>> /\ free_list' = Front(free_list)
      /\ UNCHANGED <<disk, num_pages, frameVars, pin_count, page_table, lru, ptr, wrote, got>>
  BY DEF LoadFreeThrows, MustLoad, Throw, Holding
<1>2. /\ free_list' \in Seq(Frames) /\ Distinct(free_list')
      /\ \A i \in DOMAIN free_list' : ~valid[free_list'[i]]
  BY <1>1, LastFree
<1>3. TypeOK'
  BY <1>1, <1>2, ThrowFacts DEF PoolInv, TypeOK, Holding
<1>4. PageTableExact' /\ BeyondEndIsZero'
  BY <1>1 DEF PoolInv, PageTableExact, BeyondEndIsZero
<1>5. ListsExact'
  BY <1>1, <1>2 DEF PoolInv, ListsExact, Distinct, ToSet
<1>6. PointerStable'
  BY <1>1, ThrowFacts DEF PoolInv, TypeOK, PointerStable, Holding
<1>7. PinsCounted'
  <2>1. \A g \in Frames : Holders(g)' = Holders(g)
    BY <1>1, SameHolders DEF PoolInv, Holding
  <2> QED BY <1>1, <2>1 DEF PoolInv, PinsCounted
<1>8. CleanIsDurable'
  <2> SUFFICES ASSUME NEW g \in Frames, valid[g], ~dirty[g], ~BeingWritten(page_id[g])'
               PROVE  page[g] = disk[page_id[g]]
    BY <1>1 DEF CleanIsDurable
  <2>1. ~BeingWritten(page_id[g])
    BY <1>1, ThrowFacts DEF BeingWritten, PoolInv, TypeOK, Holding
  <2> QED BY <2>1 DEF PoolInv, CleanIsDurable
<1> QED BY <1>3, <1>4, <1>5, <1>6, <1>7, <1>8 DEF PoolInv

\* The victim is a valid, unpinned frame; taking it out of the list and the
\* table and writing it back touches nothing else.
LEMMA VictimFacts ==
    ASSUME PoolInv, NEW i \in DOMAIN lru, IsVictim(i), WriteVictim(lru[i])
    PROVE  /\ lru[i] \in Frames /\ valid[lru[i]] /\ pin_count[lru[i]] = 0
           /\ page_id[lru[i]] \in Pages /\ page_table[page_id[lru[i]]] = lru[i]
           /\ Erase(lru, lru[i]) \in Seq(Frames)
           /\ Distinct(Erase(lru, lru[i]))
           /\ ToSet(Erase(lru, lru[i])) = {g \in Frames : valid[g] /\ g # lru[i]}
           /\ [page_table EXCEPT ![page_id[lru[i]]] = NoFrame] =
                 [p \in Pages |-> IF page_table[p] = lru[i] THEN NoFrame ELSE page_table[p]]
           /\ disk' \in [Pages -> Contents]
           /\ \A p \in Pages : page_table[p] # lru[i] => disk'[p] = disk[p]
<1> DEFINE f == lru[i]
<1>1. lru \in Seq(Frames) /\ Distinct(lru) /\ ToSet(lru) = {g \in Frames : valid[g]}
  BY DEF PoolInv, TypeOK, ListsExact, Distinct
<1>2. f \in Frames /\ f \in ToSet(lru)
  BY <1>1 DEF ToSet
<1>3. valid[f] /\ pin_count[f] = 0
  BY <1>1, <1>2 DEF IsVictim
<1>4. page_id[f] \in Pages /\ page_table[page_id[f]] = f
  BY <1>2, <1>3 DEF PoolInv, PageTableExact
<1>5. /\ Erase(lru, f) \in Seq(Frames)
      /\ Distinct(Erase(lru, f))
      /\ ToSet(Erase(lru, f)) = ToSet(lru) \ {f}
  BY <1>1, EraseFacts
<1>6. \A p \in Pages : page_table[p] = f <=> p = page_id[f]
  BY <1>2, <1>4 DEF PoolInv, PageTableExact, Frames, NoFrame
<1>7. disk' = IF dirty[f] THEN [disk EXCEPT ![page_id[f]] = page[f]] ELSE disk
  BY DEF WriteVictim
<1>8. disk' \in [Pages -> Contents]
      /\ \A p \in Pages : page_table[p] # f => disk'[p] = disk[p]
  BY <1>2, <1>4, <1>6, <1>7 DEF PoolInv, TypeOK
<1>9. [page_table EXCEPT ![page_id[f]] = NoFrame] =
        [p \in Pages |-> IF page_table[p] = f THEN NoFrame ELSE page_table[p]]
  BY <1>6 DEF PoolInv, TypeOK
<1> QED BY <1>1, <1>2, <1>3, <1>4, <1>5, <1>8, <1>9

\* Loading into a victim: it has no holder, and its content is in the file.
LEMMA LoadEvictPreserves ==
    ASSUME PoolInv, NEW c \in Clients, NEW i \in DOMAIN lru, LoadEvict(c, i)
    PROVE  PoolInv'
<1> DEFINE f == lru[i]
           table == [page_table EXCEPT ![page_id[f]] = NoFrame]
           l == Erase(lru, f)
<1>1. MustLoad(c) /\ free_list = <<>> /\ free_list' = <<>> /\ num_pages' = num_pages
      /\ IsVictim(i) /\ WriteVictim(f) /\ ReadPage(c, want[c], f, l, table)
  BY DEF LoadEvict
<1>2. /\ f \in Frames /\ pin_count[f] = 0
      /\ l \in Seq(Frames) /\ Distinct(l) /\ ToSet(l) = {g \in Frames : valid[g] /\ g # f}
      /\ table = [p \in Pages |-> IF page_table[p] = f THEN NoFrame ELSE page_table[p]]
      /\ disk' \in [Pages -> Contents]
      /\ \A p \in Pages : page_table[p] # f => disk'[p] = disk[p]
  BY <1>1, VictimFacts
<1>3. /\ free_list' \in Seq(Frames) /\ Distinct(free_list')
      /\ \A j \in DOMAIN free_list' : ~valid[free_list'[j]] /\ free_list'[j] # f
  BY <1>1 DEF Distinct
<1> HIDE DEF f, table, l
<1> QED BY <1>1, <1>2, <1>3, ReadPagePreserves

\* A failed read after an eviction leaves the victim invalid and unlisted.
LEMMA LoadEvictThrowsPreserves ==
    ASSUME PoolInv, NEW c \in Clients, NEW i \in DOMAIN lru, LoadEvictThrows(c, i)
    PROVE  PoolInv'
<1> DEFINE f == lru[i]
<1>1. /\ pc[c] \notin Holding /\ pc' = [pc EXCEPT ![c] = "idle"] /\ Throw(c)
      /\ IsVictim(i) /\ WriteVictim(f)
      /\ page_table' = [page_table EXCEPT ![page_id[f]] = NoFrame]
      /\ lru' = Erase(lru, f)
      /\ valid' = [valid EXCEPT ![f] = FALSE]
      /\ UNCHANGED <<num_pages, free_list, pin_count, page_id, dirty, page, ptr, wrote, got>>
  BY DEF LoadEvictThrows, MustLoad, Throw, Holding
<1>2. /\ f \in Frames /\ pin_count[f] = 0 /\ f # NoFrame
      /\ lru' \in Seq(Frames) /\ Distinct(lru')
      /\ ToSet(lru') = {g \in Frames : valid[g] /\ g # f}
      /\ page_table' = [p \in Pages |-> IF page_table[p] = f THEN NoFrame ELSE page_table[p]]
      /\ disk' \in [Pages -> Contents]
      /\ \A p \in Pages : page_table[p] # f => disk'[p] = disk[p]
  <2>1. /\ f \in Frames /\ pin_count[f] = 0
        /\ Erase(lru, f) \in Seq(Frames) /\ Distinct(Erase(lru, f))
        /\ ToSet(Erase(lru, f)) = {g \in Frames : valid[g] /\ g # f}
        /\ [page_table EXCEPT ![page_id[f]] = NoFrame] =
             [p \in Pages |-> IF page_table[p] = f THEN NoFrame ELSE page_table[p]]
        /\ disk' \in [Pages -> Contents]
        /\ \A p \in Pages : page_table[p] # f => disk'[p] = disk[p]
    BY <1>1, VictimFacts
  <2>2. f # NoFrame
    BY <2>1 DEF Frames, NoFrame
  <2> HIDE DEF f
  <2> QED BY <1>1, <2>1, <2>2
<1> HIDE DEF f
<1>3. \A g \in Frames : valid'[g] <=> valid[g] /\ g # f
  BY <1>1 DEF PoolInv, TypeOK
<1>4. TypeOK'
  BY <1>1, <1>2, ThrowFacts DEF PoolInv, TypeOK, Holding
<1>5. PageTableExact'
  <2>1. ASSUME NEW p \in Pages, page_table'[p] # NoFrame
        PROVE  p < num_pages' /\ valid'[page_table'[p]] /\ page_id'[page_table'[p]] = p
    <3>1. page_table'[p] = page_table[p] /\ page_table[p] # f /\ page_table[p] \in Frames
      BY <2>1, <1>2 DEF PoolInv, TypeOK
    <3> QED BY <3>1, <2>1, <1>1, <1>3 DEF PoolInv, PageTableExact
  <2>2. ASSUME NEW g \in Frames, valid'[g]
        PROVE  page_id'[g] \in Pages /\ page_table'[page_id'[g]] = g
    BY <2>2, <1>1, <1>2, <1>3 DEF PoolInv, PageTableExact
  <2> QED BY <2>1, <2>2 DEF PageTableExact
<1>6. Holders(f) = {}
  BY <1>2, UnpinnedHasNoHolder DEF PoolInv
<1>7. PointerStable'
  <2> SUFFICES ASSUME NEW d \in Clients, pc'[d] \in Holding
               PROVE  page_table'[want'[d]] = ptr'[d]
    BY DEF PointerStable
  <2>1. d # c /\ pc[d] \in Holding /\ want'[d] = want[d] /\ ptr'[d] = ptr[d] /\ want[d] \in Pages
    BY <1>1, ThrowFacts DEF PoolInv, TypeOK, Holding
  <2>2. page_table[want[d]] = ptr[d] /\ ptr[d] # f
    BY <2>1, <1>6 DEF PoolInv, PointerStable, Holders
  <2> QED BY <2>1, <2>2, <1>2
<1>8. PinsCounted'
  <2>1. \A g \in Frames : Holders(g)' = Holders(g)
    BY <1>1, SameHolders DEF PoolInv, Holding
  <2> QED BY <1>1, <2>1 DEF PoolInv, PinsCounted
<1>9. ListsExact'
  BY <1>1, <1>2, <1>3 DEF PoolInv, TypeOK, ListsExact, Distinct, ToSet
<1>10. CleanIsDurable'
  <2> SUFFICES ASSUME NEW g \in Frames, valid'[g], ~dirty[g], ~BeingWritten(page_id[g])'
               PROVE  page[g] = disk'[page_id[g]]
    BY <1>1 DEF CleanIsDurable
  <2>1. ~BeingWritten(page_id[g])
    BY <1>1, ThrowFacts DEF BeingWritten, PoolInv, TypeOK, Holding
  <2>2. valid[g] /\ page_id[g] \in Pages /\ page_table[page_id[g]] # f
    BY <1>3 DEF PoolInv, PageTableExact
  <2> QED BY <2>1, <2>2, <1>2 DEF PoolInv, CleanIsDurable
<1>11. BeyondEndIsZero'
  <2> SUFFICES ASSUME NEW p \in Pages, p >= num_pages
               PROVE  disk'[p] = Zero
    BY <1>1 DEF BeyondEndIsZero
  <2>1. page_table[p] = NoFrame
    BY DEF PoolInv, PageTableExact, TypeOK, Pages
  <2> QED BY <2>1, <1>2 DEF PoolInv, BeyondEndIsZero
<1> QED BY <1>4, <1>5, <1>7, <1>8, <1>9, <1>10, <1>11 DEF PoolInv

\* The page that AllocatePage appends is not cached and not held.
LEMMA AllocatePagePreserves ==
    ASSUME PoolInv, NEW c \in Clients, AllocatePage(c)
    PROVE  PoolInv'
<1> USE BufferPoolAssumption DEF frameVars, tableVars
<1>1. num_pages \in Pages /\ num_pages \in 1 .. MaxPages
  BY DEF AllocatePage, PoolInv, TypeOK, Pages
<1>2. disk' = disk
  BY <1>1 DEF AllocatePage, PoolInv, TypeOK, BeyondEndIsZero
<1>3. TypeOK'
  BY <1>1, <1>2 DEF AllocatePage, PoolInv, TypeOK, Holding, Pages, kInvalidPageId
<1>4. PageTableExact'
  BY <1>1 DEF AllocatePage, PoolInv, TypeOK, PageTableExact, Pages
<1>5. ListsExact'
  BY DEF AllocatePage, PoolInv, ListsExact, ToSet
<1>6. BeyondEndIsZero'
  BY <1>1, <1>2 DEF AllocatePage, PoolInv, TypeOK, BeyondEndIsZero, Pages
<1>7. PointerStable'
  BY DEF AllocatePage, PoolInv, TypeOK, PointerStable, Holding
<1>8. PinsCounted'
  <2>1. \A g \in Frames : Holders(g)' = Holders(g)
    BY SameHolders DEF AllocatePage, PoolInv, Holding
  <2> QED BY <2>1 DEF AllocatePage, PoolInv, PinsCounted
<1>9. CleanIsDurable'
  <2> SUFFICES ASSUME NEW g \in Frames, valid[g], ~dirty[g], ~BeingWritten(page_id[g])'
               PROVE  page[g] = disk[page_id[g]]
    BY <1>2 DEF CleanIsDurable, AllocatePage
  <2>1. ~BeingWritten(page_id[g])
    BY DEF AllocatePage, BeingWritten, PoolInv, TypeOK, Holding
  <2> QED BY <2>1 DEF PoolInv, CleanIsDurable
<1> QED BY <1>3, <1>4, <1>5, <1>6, <1>7, <1>8, <1>9 DEF PoolInv

\* Changing a page through the pointer: the frame is the page's, and its
\* holder is recorded as writing it.
LEMMA StorePreserves ==
    ASSUME PoolInv, NEW c \in Clients, pc[c] \in Holding, NEW v \in Contents,
           page' = [page EXCEPT ![ptr[c]] = v],
           wrote' = [wrote EXCEPT ![c] = TRUE],
           pc' = [pc EXCEPT ![c] = "held"],
           UNCHANGED <<diskVars, page_id, dirty, valid, pin_count, tableVars,
                       want, isNew, ptr, got>>
    PROVE  PoolInv'
<1> USE DEF diskVars, tableVars
<1>1. ptr[c] \in Frames /\ want[c] \in Pages /\ page_table[want[c]] = ptr[c]
  BY DEF PoolInv, TypeOK, PointerStable, Holding
<1>2. page_id[ptr[c]] = want[c]
  BY <1>1 DEF PoolInv, PageTableExact, Frames, NoFrame
<1>3. TypeOK'
  BY <1>1 DEF PoolInv, TypeOK, Holding
<1>4. PageTableExact' /\ BeyondEndIsZero' /\ ListsExact'
  BY DEF PoolInv, PageTableExact, BeyondEndIsZero, ListsExact, ToSet
<1>5. PointerStable'
  BY DEF PoolInv, TypeOK, PointerStable, Holding
<1>6. PinsCounted'
  <2>1. \A g \in Frames : Holders(g)' = Holders(g)
    BY DEF Holders, Holding, PoolInv, TypeOK
  <2> QED BY <2>1 DEF PoolInv, PinsCounted
<1>7. CleanIsDurable'
  <2> SUFFICES ASSUME NEW g \in Frames, valid[g], ~dirty[g], ~BeingWritten(page_id[g])'
               PROVE  page'[g] = disk[page_id[g]]
    BY DEF CleanIsDurable
  <2>1. BeingWritten(want[c])'
    BY DEF BeingWritten, Holding, PoolInv, TypeOK
  <2>2. g # ptr[c]
    BY <2>1, <1>2 DEF BeingWritten
  <2>3. ~BeingWritten(page_id[g])
    BY DEF BeingWritten, Holding, PoolInv, TypeOK
  <2> QED BY <2>2, <2>3 DEF PoolInv, TypeOK, CleanIsDurable
<1> QED BY <1>3, <1>4, <1>5, <1>6, <1>7 DEF PoolInv

\* NewPage initialises the page it holds, through its pointer.
LEMMA InitPagePreserves ==
    ASSUME PoolInv, NEW c \in Clients, InitPage(c)
    PROVE  PoolInv'
  BY StorePreserves DEF InitPage, Holding, Contents

\* A client writes to the page it holds, through its pointer.
LEMMA WritePtrPreserves ==
    ASSUME PoolInv, NEW c \in Clients, NEW v \in Data, WritePtr(c, v)
    PROVE  PoolInv'
<1>1. pc' = [pc EXCEPT ![c] = "held"]
  BY DEF WritePtr, PoolInv, TypeOK
<1> QED BY <1>1, StorePreserves DEF WritePtr, Holding, Contents

\* Reading through the pointer changes the client only.
LEMMA ReadPtrPreserves ==
    ASSUME PoolInv, NEW c \in Clients, ReadPtr(c)
    PROVE  PoolInv'
<1> USE DEF ReadPtr, diskVars, frameVars, tableVars
<1>1. TypeOK'
  BY DEF PoolInv, TypeOK, Holding
<1>2. PageTableExact' /\ BeyondEndIsZero' /\ ListsExact' /\ PointerStable'
  BY DEF PoolInv, PageTableExact, BeyondEndIsZero, ListsExact, ToSet, PointerStable
<1>3. PinsCounted' /\ CleanIsDurable'
  BY DEF PoolInv, PinsCounted, Holders, CleanIsDurable, BeingWritten
<1> QED BY <1>1, <1>2, <1>3 DEF PoolInv

\* UnpinPage finds the frame of its pointer: one pin and one holder fewer.
LEMMA UnpinPagePreserves ==
    ASSUME PoolInv, NEW c \in Clients, UnpinPage(c)
    PROVE  PoolInv'
<1> USE DEF diskVars, tableVars
<1>0. PICK f \in Frames : f = ptr[c]
  BY DEF UnpinPage, PoolInv, TypeOK, Holding
<1>1. pc[c] \in Holding /\ ptr[c] = f /\ want[c] \in Pages /\ page_table[want[c]] = f
  BY <1>0 DEF UnpinPage, PoolInv, TypeOK, PointerStable, Holding
<1>2. page_id[f] = want[c] /\ f # NoFrame
  BY <1>1 DEF PoolInv, PageTableExact, Frames, NoFrame
<1>3. c \in Holders(f)
  BY <1>1 DEF Holders
<1>4. pin_count[f] > 0 /\ pin_count[f] = Cardinality(Holders(f) \ {c}) + 1
      /\ Cardinality(Holders(f) \ {c}) \in Nat
  <2>1. Holders(f) = (Holders(f) \ {c}) \cup {c} /\ Holders(f) \ {c} \in SUBSET Clients
    BY <1>3 DEF Holders
  <2>2. Cardinality(Holders(f)) = Cardinality(Holders(f) \ {c}) + 1
        /\ Cardinality(Holders(f) \ {c}) \in Nat
    BY <2>1, CardinalityStep
  <2> QED BY <2>2, <1>1 DEF PoolInv, PinsCounted
<1>5. /\ pin_count' = [pin_count EXCEPT ![f] = @ - 1]
      /\ dirty' = [dirty EXCEPT ![f] = @ \/ wrote[c]]
  BY <1>1, <1>2, <1>4 DEF UnpinPage, Unpin
<1>6. TypeOK'
  <2>1. pin_count' \in [Frames -> Nat]
    BY <1>1, <1>4, <1>5 DEF PoolInv, TypeOK
  <2>2. dirty' \in [Frames -> BOOLEAN]
    BY <1>1, <1>5 DEF PoolInv, TypeOK
  <2> QED BY <2>1, <2>2 DEF UnpinPage, PoolInv, TypeOK, Holding
<1>7. PageTableExact' /\ BeyondEndIsZero' /\ ListsExact'
  BY DEF UnpinPage, PoolInv, PageTableExact, BeyondEndIsZero, ListsExact, ToSet
<1>8. PointerStable'
  BY DEF UnpinPage, PoolInv, TypeOK, PointerStable, Holding
<1>9. PinsCounted'
  <2>1. ASSUME NEW g \in Frames, g # f PROVE Holders(g)' = Holders(g)
    BY <2>1, <1>1 DEF UnpinPage, Holders, PoolInv, TypeOK, Holding
  <2>2. Holders(f)' = Holders(f) \ {c}
    BY <1>1 DEF UnpinPage, Holders, PoolInv, TypeOK, Holding
  <2>3. pin_count'[f] = pin_count[f] - 1
    BY <1>1, <1>5 DEF PoolInv, TypeOK
  <2>4. \A g \in Frames : g # f => pin_count'[g] = pin_count[g]
    BY <1>5 DEF PoolInv, TypeOK
  <2>5. pin_count'[f] = Cardinality(Holders(f)')
    BY <2>2, <2>3, <1>4
  <2>6. \A g \in Frames : g # f => pin_count'[g] = Cardinality(Holders(g)')
    BY <2>1, <2>4 DEF PoolInv, PinsCounted
  <2>7. \A g \in Frames : pin_count'[g] = Cardinality(Holders(g)')
    BY <2>5, <2>6
  <2> QED BY <2>7 DEF PinsCounted
<1>10. CleanIsDurable'
  <2> SUFFICES ASSUME NEW g \in Frames, valid[g], ~dirty'[g], ~BeingWritten(page_id[g])'
               PROVE  page[g] = disk[page_id[g]]
    BY DEF CleanIsDurable, UnpinPage
  <2>1. ~dirty[g]
    BY <1>5 DEF PoolInv, TypeOK
  <2>2. ~(wrote[c] /\ want[c] = page_id[g])
    <3>1. SUFFICES ASSUME wrote[c], want[c] = page_id[g] PROVE FALSE
      OBVIOUS
    <3>2. g = f
      BY <3>1, <1>1 DEF PoolInv, PageTableExact
    <3> QED BY <3>1, <3>2, <1>1, <1>5 DEF PoolInv, TypeOK
  <2>3. ~BeingWritten(page_id[g])
    BY <2>2 DEF UnpinPage, BeingWritten, PoolInv, TypeOK, Holding
  <2> QED BY <2>1, <2>3 DEF PoolInv, CleanIsDurable
<1> QED BY <1>6, <1>7, <1>8, <1>9, <1>10 DEF PoolInv

\* Writing current contents of valid frames to the file and marking those
\* frames clean keeps the invariant, whichever frames F are written.
LEMMA FlushPreserves ==
    ASSUME PoolInv, NEW F \in SUBSET Frames, \A f \in F : valid[f],
           disk' \in [Pages -> Contents],
           \A p \in Pages : disk'[p] = disk[p] \/ \E f \in F : page_id[f] = p,
           \A f \in F : disk'[page_id[f]] = page[f],
           dirty' = [f \in Frames |-> IF f \in F THEN FALSE ELSE dirty[f]],
           UNCHANGED <<num_pages, page_id, valid, page, pin_count, tableVars, clientVars>>
    PROVE  PoolInv'
<1> USE DEF tableVars, clientVars
<1>1. TypeOK'
  BY DEF PoolInv, TypeOK, Holding
<1>2. /\ PageTableExact'
      /\ PointerStable'
      /\ PinsCounted'
      /\ ListsExact'
  <2>1. PageTableExact'
    BY DEF PoolInv, PageTableExact
  <2>2. PointerStable'
    BY DEF PoolInv, PointerStable
  <2>3. PinsCounted'
    BY DEF PoolInv, PinsCounted, Holders
  <2>4. ListsExact'
    BY DEF PoolInv, ListsExact, ToSet
  <2> QED BY <2>1, <2>2, <2>3, <2>4
<1>3. CleanIsDurable'
  <2> SUFFICES ASSUME NEW g \in Frames, valid[g], ~dirty'[g], ~BeingWritten(page_id[g])
               PROVE  page[g] = disk'[page_id[g]]
    BY DEF CleanIsDurable, BeingWritten
  <2>1. CASE g \in F
    BY <2>1
  <2>2. CASE g \notin F
    <3>1. ~dirty[g] /\ page_id[g] \in Pages /\ page_table[page_id[g]] = g
      BY <2>2 DEF PoolInv, PageTableExact
    <3>2. ~ \E f \in F : page_id[f] = page_id[g]
      BY <2>2, <3>1 DEF PoolInv, PageTableExact
    <3> QED BY <3>1, <3>2 DEF PoolInv, CleanIsDurable
  <2> QED BY <2>1, <2>2
<1>4. BeyondEndIsZero'
  <2> SUFFICES ASSUME NEW p \in Pages, p >= num_pages
               PROVE  disk'[p] = Zero
    BY DEF BeyondEndIsZero
  <2>1. ~ \E f \in F : page_id[f] = p
    BY DEF PoolInv, PageTableExact, TypeOK, Pages, Frames, NoFrame
  <2> QED BY <2>1 DEF PoolInv, BeyondEndIsZero
<1> QED BY <1>1, <1>2, <1>3, <1>4 DEF PoolInv

\* FlushPage writes one frame at its own page.
LEMMA FlushPagePreserves ==
    ASSUME PoolInv, NEW p \in Pages, FlushPage(p)
    PROVE  PoolInv'
<1>1. PICK f \in Frames : f = page_table[p] /\ valid[f] /\ page_id[f] = p
  BY DEF FlushPage, PoolInv, TypeOK, PageTableExact
<1>2. disk' = [disk EXCEPT ![p] = page[f]] /\ dirty' = [dirty EXCEPT ![f] = FALSE]
  BY <1>1 DEF FlushPage
<1>3. dirty' = [g \in Frames |-> IF g \in {f} THEN FALSE ELSE dirty[g]]
  BY <1>2 DEF PoolInv, TypeOK
<1>4. /\ disk' \in [Pages -> Contents]
      /\ \A q \in Pages : disk'[q] = disk[q] \/ \E g \in {f} : page_id[g] = q
      /\ \A g \in {f} : disk'[page_id[g]] = page[g]
  BY <1>1, <1>2 DEF PoolInv, TypeOK
<1>5. UNCHANGED <<num_pages, page_id, valid, page, pin_count, tableVars, clientVars>>
  BY DEF FlushPage
<1>6. {f} \in SUBSET Frames /\ \A g \in {f} : valid[g]
  BY <1>1
<1> QED BY <1>3, <1>4, <1>5, <1>6, FlushPreserves

\* What FlushAll writes: each flushed frame, at its own page.
LEMMA FlushAllFacts ==
    ASSUME PoolInv, NEW k \in 0 .. num_frames, FlushAll(k)
    PROVE  /\ disk' \in [Pages -> Contents]
           /\ \A p \in Pages : disk'[p] = disk[p] \/ \E f \in Flushed(k) : page_id[f] = p
           /\ \A f \in Flushed(k) : disk'[page_id[f]] = page[f]
<1>1. \A p \in Pages : disk'[p] = IF \E f \in Flushed(k) : page_id[f] = p
                                  THEN page[CHOOSE f \in Flushed(k) : page_id[f] = p]
                                  ELSE disk[p]
  BY DEF FlushAll
<1>2. \A f \in Flushed(k) : f \in Frames /\ valid[f]
  BY DEF Flushed
<1>3. ASSUME NEW f \in Flushed(k) PROVE page_id[f] \in Pages /\ disk'[page_id[f]] = page[f]
  <2>1. page_id[f] \in Pages
    BY <1>2 DEF PoolInv, PageTableExact
  <2>2. \A g \in Flushed(k) : page_id[g] = page_id[f] => g = f
    BY <1>2 DEF PoolInv, PageTableExact
  <2>3. (CHOOSE g \in Flushed(k) : page_id[g] = page_id[f]) = f
    BY <2>2
  <2> QED BY <2>1, <2>3, <1>1
<1>4. \A p \in Pages : disk'[p] \in Contents
  <2> TAKE p \in Pages
  <2>1. CASE \E f \in Flushed(k) : page_id[f] = p
    BY <2>1, <1>2, <1>3 DEF PoolInv, TypeOK
  <2>2. CASE ~ \E f \in Flushed(k) : page_id[f] = p
    BY <2>2, <1>1 DEF PoolInv, TypeOK
  <2> QED BY <2>1, <2>2
<1>5. disk' \in [Pages -> Contents]
  BY <1>4 DEF FlushAll
<1> QED BY <1>1, <1>3, <1>5

\* FlushAll writes the dirty frames it reaches, each at its own page.
LEMMA FlushAllPreserves ==
    ASSUME PoolInv, NEW k \in 0 .. num_frames, FlushAll(k)
    PROVE  PoolInv'
<1>1. Flushed(k) \in SUBSET Frames /\ \A f \in Flushed(k) : valid[f]
  BY DEF Flushed
<1>2. /\ dirty' = [f \in Frames |-> IF f \in Flushed(k) THEN FALSE ELSE dirty[f]]
      /\ UNCHANGED <<num_pages, page_id, valid, page, pin_count, tableVars, clientVars>>
  BY DEF FlushAll
<1> QED BY <1>1, <1>2, FlushAllFacts, FlushPreserves

\* Every step of Next keeps the invariant.
LEMMA PoolInvNext == PoolInv /\ [Next]_vars => PoolInv'
<1> SUFFICES ASSUME PoolInv, [Next]_vars PROVE PoolInv'
  OBVIOUS
<1>1. ASSUME NEW c \in Clients, NEW p \in Pages, FetchPage(c, p) PROVE PoolInv'
  BY <1>1, FastPathPreserves DEF FetchPage
<1>2. ASSUME NEW c \in Clients, SlowPath(c) PROVE PoolInv'
  BY <1>2, LoadCachedPreserves, LoadFreePreserves, LoadFreeThrowsPreserves,
     LoadEvictPreserves, LoadEvictThrowsPreserves, LoadThrowsPreserves DEF SlowPath
<1>3. ASSUME NEW c \in Clients, FetchNew(c) PROVE PoolInv'
  <2>1. want[c] \in Pages
    BY <1>3 DEF FetchNew, PoolInv, TypeOK
  <2> QED BY <1>3, <2>1, FastPathPreserves DEF FetchNew
<1>4. ASSUME NEW c \in Clients, ClientStep(c) PROVE PoolInv'
  BY <1>1, <1>2, <1>3, <1>4, AllocatePagePreserves, InitPagePreserves,
     ReadPtrPreserves, WritePtrPreserves, UnpinPagePreserves DEF ClientStep
<1>5. CASE UNCHANGED vars
  <2> USE <1>5 DEF vars
  <2>1. TypeOK' /\ PageTableExact' /\ PointerStable' /\ BeyondEndIsZero'
    BY DEF PoolInv, TypeOK, PageTableExact, PointerStable, BeyondEndIsZero
  <2>2. PinsCounted' /\ ListsExact' /\ CleanIsDurable'
    BY DEF PoolInv, PinsCounted, Holders, ListsExact, ToSet, CleanIsDurable, BeingWritten
  <2> QED BY <2>1, <2>2 DEF PoolInv
<1> QED BY <1>4, <1>5, FlushPagePreserves, FlushAllPreserves DEF Next

\* The inductive invariant holds in every reachable state.
THEOREM PoolInvariant == Spec => []PoolInv
<1> QED BY PoolInvInit, PoolInvNext, PTL DEF Spec

\* The types of the pool's state.
THEOREM TypeCorrect == Spec => []TypeOK
<1>1. PoolInv => TypeOK
  BY DEF PoolInv
<1> QED BY <1>1, PoolInvariant, PTL

\* A pointer handed out by FetchPage stays the frame of its page until the
\* UnpinPage, in every interleaving of clients, evictions and disk faults.
THEOREM PointersStable == Spec => []PointerStable
<1>1. PoolInv => PointerStable
  BY DEF PoolInv
<1> QED BY <1>1, PoolInvariant, PTL

\* No page is ever cached twice, and the page table is exact.
THEOREM PageTableIsExact == Spec => []PageTableExact
<1>1. PoolInv => PageTableExact
  BY DEF PoolInv
<1> QED BY <1>1, PoolInvariant, PTL

\* A frame that is not marked dirty holds what the file holds, unless a client
\* is still writing through its pointer: dropping a clean victim loses nothing.
THEOREM CleanFramesAreDurable == Spec => []CleanIsDurable
<1>1. PoolInv => CleanIsDurable
  BY DEF PoolInv
<1> QED BY <1>1, PoolInvariant, PTL

\* pin_count never drifts from the number of holders.
THEOREM PinCountsAreHolders == Spec => []PinsCounted
<1>1. PoolInv => PinsCounted
  BY DEF PoolInv
<1> QED BY <1>1, PoolInvariant, PTL

-----------------------------------------------------------------------------
(* FlushAll.                                                               *)

\* A FlushAll that returns has made every page durable that nobody is still
\* changing: a frame it did not write was clean, hence equal to the file.
THEOREM FlushAllDurable == Spec => FlushAllMakesDurable
<1>1. ASSUME PoolInv, FlushAll(num_frames), NEW p \in Pages, ~BeingWritten(p)
      PROVE  disk'[p] = Content(p)
  <2> USE BufferPoolAssumption
  <2>0. num_frames \in 0 .. num_frames
    OBVIOUS
  <2>1. /\ \A q \in Pages : disk'[q] = disk[q]
             \/ \E f \in Flushed(num_frames) : page_id[f] = q
        /\ \A f \in Flushed(num_frames) : disk'[page_id[f]] = page[f]
    BY <1>1, <2>0, FlushAllFacts
  <2>2. CASE page_table[p] = NoFrame
    <3>1. ~ \E f \in Flushed(num_frames) : page_id[f] = p
      BY <2>2, <1>1 DEF Flushed, PoolInv, PageTableExact, Frames, NoFrame
    <3> QED BY <3>1, <2>1, <2>2 DEF Content
  <2>3. CASE page_table[p] # NoFrame
    <3>1. PICK f \in Frames : f = page_table[p] /\ valid[f] /\ page_id[f] = p
      BY <2>3, <1>1 DEF PoolInv, TypeOK, PageTableExact
    <3>2. CASE dirty[f]
      BY <3>1, <3>2, <2>1, <2>3 DEF Flushed, Content, Frames
    <3>3. CASE ~dirty[f]
      <4>1. page[f] = disk[p]
        BY <3>1, <3>3, <1>1 DEF PoolInv, CleanIsDurable
      <4>2. ~ \E g \in Flushed(num_frames) : page_id[g] = p
        BY <3>1, <3>3, <1>1 DEF Flushed, PoolInv, PageTableExact
      <4> QED BY <4>1, <4>2, <3>1, <2>1, <2>3 DEF Content
    <3> QED BY <3>2, <3>3
  <2> QED BY <2>2, <2>3
<1>2. PoolInv => [FlushAll(num_frames) =>
                    \A p \in Pages : BeingWritten(p) \/ disk'[p] = Content(p)]_vars
  BY <1>1
<1> QED BY <1>2, PoolInvariant, PTL DEF FlushAllMakesDurable

-----------------------------------------------------------------------------
(* When FetchPage may throw "all frames pinned".                           *)

\* Frames stay in circulation when the disk does not fail.
LEMMA FramesAccountedNext ==
    PoolInv /\ FramesAccounted /\ [Next]_vars => FramesAccounted'
<1> SUFFICES ASSUME PoolInv, FramesAccounted, [Next]_vars, ~Faults, NEW f \in Frames
             PROVE  valid'[f] \/ f \in ToSet(free_list')
  BY DEF FramesAccounted, LostFrames, ToSet
<1>1. valid[f] \/ f \in ToSet(free_list)
  BY DEF FramesAccounted, LostFrames
<1>2. CASE UNCHANGED <<valid, free_list>>
  BY <1>1, <1>2
<1>3. ASSUME NEW c \in Clients, LoadFree(c) PROVE valid'[f] \/ f \in ToSet(free_list')
  <2> DEFINE n == Len(free_list)
  <2>1. /\ free_list # <<>> /\ free_list' = Front(free_list)
        /\ valid' = [valid EXCEPT ![Last(free_list)] = TRUE]
    BY <1>3 DEF LoadFree, ReadPage
  <2>2. free_list \in Seq(Frames) /\ n \in Nat \ {0} /\ DOMAIN free_list = 1 .. n
        /\ valid \in [Frames -> BOOLEAN]
    BY <2>1 DEF PoolInv, TypeOK
  <2>3. CASE valid[f] \/ f = free_list[n]
    BY <2>1, <2>2, <2>3 DEF Last
  <2>4. CASE ~valid[f] /\ f # free_list[n]
    <3>1. PICK i \in 1 .. n : free_list[i] = f
      BY <2>4, <1>1, <2>2 DEF ToSet
    <3>2. i \in 1 .. n - 1
      BY <3>1, <2>2, <2>4
    <3>3. i \in DOMAIN Front(free_list) /\ Front(free_list)[i] = f
      BY <3>1, <3>2, <2>2 DEF Front
    <3> QED BY <3>3, <2>1 DEF ToSet
  <2> QED BY <2>3, <2>4
<1>4. ASSUME NEW c \in Clients, NEW i \in DOMAIN lru, LoadEvict(c, i)
      PROVE  valid'[f] \/ f \in ToSet(free_list')
  BY <1>1, <1>4 DEF LoadEvict, ReadPage, PoolInv, TypeOK
<1>5. ASSUME NEW c \in Clients, SlowPath(c) PROVE valid'[f] \/ f \in ToSet(free_list')
  <2>1. LoadCached(c) \/ LoadThrows(c) => UNCHANGED <<valid, free_list>>
    BY DEF LoadCached, LoadThrows, frameVars, tableVars
  <2>2. ~LoadFreeThrows(c) /\ \A i \in DOMAIN lru : ~LoadEvictThrows(c, i)
    BY DEF LoadFreeThrows, LoadEvictThrows
  <2> QED BY <1>2, <1>3, <1>4, <1>5, <2>1, <2>2 DEF SlowPath
<1>6. ASSUME NEW c \in Clients, ClientStep(c), ~SlowPath(c)
      PROVE  UNCHANGED <<valid, free_list>>
  BY <1>6 DEF ClientStep, FetchPage, FastPath, AllocatePage, FetchNew, InitPage,
              ReadPtr, WritePtr, UnpinPage, frameVars, tableVars
<1>7. CASE (\E p \in Pages : FlushPage(p)) \/ (\E k \in 0 .. num_frames : FlushAll(k))
            \/ UNCHANGED vars
  BY <1>7, <1>2 DEF FlushPage, FlushAll, tableVars, vars
<1> QED BY <1>2, <1>5, <1>6, <1>7 DEF Next

\* The frames in circulation, for every reachable state.
THEOREM FramesStayAccounted == Spec => []FramesAccounted
<1>1. Init => FramesAccounted
  <2> SUFFICES ASSUME Init, NEW f \in Frames PROVE f \in ToSet(free_list)
    BY DEF FramesAccounted, LostFrames
  <2>1. f + 1 \in DOMAIN free_list /\ free_list[f + 1] = f
    BY BufferPoolAssumption DEF Init, Frames
  <2> QED BY <2>1 DEF ToSet
<1> QED BY <1>1, FramesAccountedNext, PoolInvariant, PTL DEF Spec

\* "all frames pinned" is thrown only when every frame is pinned that no
\* failed read has taken out of circulation.
THEOREM FullIsTruthful == Spec => []FullMeansAllPinned
<1>1. PoolInv => FullMeansAllPinned
  <2> SUFFICES ASSUME PoolInv, free_list = <<>>, NoVictim, NEW f \in Frames \ LostFrames
               PROVE  pin_count[f] > 0
    BY DEF FullMeansAllPinned
  <2>1. valid[f]
    BY DEF LostFrames, ToSet
  <2>2. PICK i \in DOMAIN lru : lru[i] = f
    BY <2>1 DEF PoolInv, ListsExact, ToSet
  <2> QED BY <2>2 DEF NoVictim, PoolInv, TypeOK
<1> QED BY <1>1, PoolInvariant, PTL

\* If at least as many frames as there are clients are in circulation, a
\* fetch always finds one: were all of them pinned, each would have a holder
\* of its own, and the fetching client holds none.
THEOREM FetchNeverFull == Spec => []EnoughFramesNeverFull
<1>1. ASSUME PoolInv, FullMeansAllPinned,
             Cardinality(Clients) + Cardinality(LostFrames) <= num_frames,
             NEW c \in Clients, MustLoad(c), free_list = <<>>, NoVictim
      PROVE  FALSE
  <2> DEFINE U == Frames \ LostFrames
             h == [f \in U |-> CHOOSE d \in Clients : d \in Holders(f)]
             T == Clients \ {c}
  <2>1. \A f \in U : \E d \in Clients : d \in Holders(f)
    <3> TAKE f \in U
    <3>1. pin_count[f] # 0
      BY <1>1 DEF FullMeansAllPinned
    <3>2. Holders(f) # {}
      BY <3>1, <1>1, FS_EmptySet DEF PoolInv, PinsCounted
    <3> QED BY <3>2 DEF Holders
  <2>2. \A f \in U : h[f] \in Clients /\ h[f] \in Holders(f)
    BY <2>1
  <2>3. \A f \in U : c \notin Holders(f)
    BY <1>1 DEF MustLoad, Holders, Holding
  <2>4. h \in [U -> T]
    BY <2>2, <2>3
  <2>5. IsFiniteSet(T) /\ Cardinality(T) = Cardinality(Clients) - 1
        /\ Cardinality(Clients) \in Nat
    BY BufferPoolAssumption, FS_RemoveElement, FS_CardinalityType
  <2>6. IsFiniteSet(Frames) /\ Cardinality(Frames) = num_frames
    BY BufferPoolAssumption, FS_Interval DEF Frames
  <2>7. IsFiniteSet(U) /\ Cardinality(U) = num_frames - Cardinality(LostFrames)
    <3>1. LostFrames \in SUBSET Frames
      BY DEF LostFrames
    <3>2. IsFiniteSet(LostFrames) /\ Frames \cap LostFrames = LostFrames
      BY <2>6, <3>1, FS_Subset
    <3> QED BY <2>6, <3>2, FS_Difference
  <2>8. Cardinality(LostFrames) \in Nat
    BY <2>6, FS_Subset, FS_CardinalityType DEF LostFrames
  <2>9. Cardinality(T) < Cardinality(U)
    BY <2>5, <2>7, <2>8, <1>1, BufferPoolAssumption
  <2> HIDE DEF h, T, U
  <2>10. \E f, g \in U : f # g /\ h[f] = h[g]
    BY <2>4, <2>5, <2>7, <2>9, FS_PigeonHole
  <2> QED BY <2>2, <2>10 DEF Holders
<1>2. PoolInv /\ FullMeansAllPinned => EnoughFramesNeverFull
  BY <1>1 DEF EnoughFramesNeverFull
<1> QED BY <1>2, PoolInvariant, FullIsTruthful, PTL

-----------------------------------------------------------------------------
(***************************************************************************)
(* BufferPool implements PageStore, for every value of the constants.      *)
(***************************************************************************)

\* The refinement mapping: the page store's state seen in the pool's.
Store == [p \in Pages |-> Content(p)]
Holds == [c \in Clients |-> IF pc[c] \in Holding THEN want[c] ELSE kInvalidPageId]

\* A step that hands page w to client c is an AcquireAndClean of the store.
LEMMA AcquireStep ==
    ASSUME PoolInv, NEW c \in Clients, pc[c] \notin Holding,
           pc' = [pc EXCEPT ![c] = IF isNew[c] THEN "init" ELSE "held"],
           NEW w \in Pages, w < num_pages, want' = [want EXCEPT ![c] = w],
           NEW P \in SUBSET Pages, Store' = Store,
           disk' = [p \in Pages |-> IF p \in P THEN Store[p] ELSE disk[p]],
           UNCHANGED <<num_pages, got>>
    PROVE  PS!Next
<1>1. Holds[c] = kInvalidPageId /\ Holds' = [Holds EXCEPT ![c] = w]
  BY DEF Holds, Holding, PoolInv, TypeOK
<1>2. PS!AcquireAndClean(c, w, P)
  BY <1>1 DEF PS!AcquireAndClean, PS!Acquire, PS!WriteBack, Store, Holds
<1> QED BY <1>2 DEF PS!Next

\* The same for a step that writes nothing to the file.
LEMMA AcquireOnlyStep ==
    ASSUME PoolInv, NEW c \in Clients, pc[c] \notin Holding,
           pc' = [pc EXCEPT ![c] = IF isNew[c] THEN "init" ELSE "held"],
           NEW w \in Pages, w < num_pages, want' = [want EXCEPT ![c] = w],
           Store' = Store, UNCHANGED <<disk, num_pages, got>>
    PROVE  PS!Next
<1>1. PICK P \in SUBSET Pages : P = {}
  OBVIOUS
<1>2. disk' = [p \in Pages |-> IF p \in P THEN Store[p] ELSE disk[p]]
  BY <1>1 DEF PoolInv, TypeOK
<1> QED BY <1>2, AcquireStep

\* A step that only writes the current content of the pages P to the file.
LEMMA CleanStep ==
    ASSUME NEW P \in SUBSET Pages, Store' = Store, Holds' = Holds,
           disk' = [p \in Pages |-> IF p \in P THEN Store[p] ELSE disk[p]],
           UNCHANGED <<num_pages, got>>
    PROVE  PS!Next
<1>1. PS!Clean(P)
  BY DEF PS!Clean, PS!WriteBack, Store, Holds
<1> QED BY <1>1 DEF PS!Next

\* A step that changes nothing the store sees.
LEMMA StutterStep ==
    ASSUME Store' = Store, Holds' = Holds, UNCHANGED <<disk, num_pages, got>>
    PROVE  UNCHANGED PS!vars
  BY DEF PS!vars, Store, Holds

\* A client that holds nothing before and after a step holds nothing.
LEMMA SameHolds ==
    ASSUME PoolInv, NEW c \in Clients, pc[c] \notin Holding, NEW s, s \notin Holding,
           pc' = [pc EXCEPT ![c] = s],
           \A d \in Clients : d # c => want'[d] = want[d]
    PROVE  Holds' = Holds
  BY DEF Holds, PoolInv, TypeOK

\* A new pool over a new file is a new page store.
LEMMA InitRefines == Init => PS!Init
  BY BufferPoolAssumption
     DEF Init, PS!Init, Content, Pages, Holding, NoFrame, kInvalidPageId

\* A hit of the fast path acquires the page; a miss is invisible.
LEMMA FastPathRefines ==
    ASSUME PoolInv, NEW c \in Clients, pc[c] \in {"idle", "allocated"},
           NEW p \in Pages, FastPath(c, p)
    PROVE  [PS!Next]_PS!vars
<1> USE DEF diskVars, frameVars, tableVars
<1>1. Store' = Store /\ UNCHANGED <<disk, num_pages, got>>
  BY DEF FastPath, Pin, Store, Content
<1>2. CASE page_table[p] # NoFrame
  <2>1. p < num_pages
    BY <1>2 DEF PoolInv, PageTableExact
  <2>2. pc' = [pc EXCEPT ![c] = IF isNew[c] THEN "init" ELSE "held"]
        /\ want' = [want EXCEPT ![c] = p] /\ pc[c] \notin Holding
    BY <1>2 DEF FastPath, Pin, Holding
  <2> QED BY <1>1, <2>1, <2>2, AcquireOnlyStep
<1>3. CASE page_table[p] = NoFrame
  <2>1. Holds' = Holds
    BY <1>3 DEF FastPath, Holds, Holding, PoolInv, TypeOK
  <2> QED BY <1>1, <2>1, StutterStep
<1> QED BY <1>2, <1>3

\* A page that another client has loaded is acquired as it is.
LEMMA LoadCachedRefines ==
    ASSUME PoolInv, NEW c \in Clients, LoadCached(c)
    PROVE  PS!Next
<1> USE DEF diskVars, frameVars
<1>1. Store' = Store /\ UNCHANGED <<disk, num_pages, got>>
  BY DEF LoadCached, Pin, Store, Content
<1>2. want[c] \in Pages /\ want[c] < num_pages
  BY DEF LoadCached, PoolInv, TypeOK, PageTableExact
<1>3. pc' = [pc EXCEPT ![c] = IF isNew[c] THEN "init" ELSE "held"]
      /\ want' = [want EXCEPT ![c] = want[c]] /\ pc[c] \notin Holding
  BY DEF LoadCached, Pin, Holding
<1> QED BY <1>1, <1>2, <1>3, AcquireOnlyStep

\* Evicting an unpinned frame loses nothing: if it is dirty its content is
\* written to the file, and if it is clean it already equals the file's.
LEMMA VictimKeepsContent ==
    ASSUME PoolInv, NEW i \in DOMAIN lru, IsVictim(i), WriteVictim(lru[i])
    PROVE  \E P \in SUBSET Pages :
             /\ disk' = [p \in Pages |-> IF p \in P THEN Store[p] ELSE disk[p]]
             /\ disk'[page_id[lru[i]]] = Store[page_id[lru[i]]]
             /\ \A p \in Pages : p # page_id[lru[i]] => disk'[p] = disk[p]
<1>1. PICK f \in Frames : /\ f = lru[i] /\ valid[f] /\ pin_count[f] = 0
                          /\ page_id[f] \in Pages /\ page_table[page_id[f]] = f
  BY VictimFacts
<1>2. Store[page_id[f]] = page[f]
  BY <1>1 DEF Store, Content, Frames, NoFrame
<1>3. disk' = IF dirty[f] THEN [disk EXCEPT ![page_id[f]] = page[f]] ELSE disk
  BY <1>1 DEF WriteVictim
<1>4. CASE dirty[f]
  <2>1. disk' = [p \in Pages |-> IF p \in {page_id[f]} THEN Store[p] ELSE disk[p]]
    BY <1>1, <1>2, <1>3, <1>4 DEF PoolInv, TypeOK
  <2> {page_id[f]} \in SUBSET Pages
    BY <1>1
  <2> WITNESS {page_id[f]} \in SUBSET Pages
  <2> QED BY <1>1, <2>1
<1>5. CASE ~dirty[f]
  <2>1. Holders(f) = {}
    BY <1>1, UnpinnedHasNoHolder DEF PoolInv
  <2>2. ~BeingWritten(page_id[f])
    BY <1>1, <2>1 DEF BeingWritten, Holders, PoolInv, PointerStable
  <2>3. page[f] = disk[page_id[f]]
    BY <1>1, <1>5, <2>2 DEF PoolInv, CleanIsDurable
  <2>4. disk' = [p \in Pages |-> IF p \in {} THEN Store[p] ELSE disk[p]]
    BY <1>3, <1>5 DEF PoolInv, TypeOK
  <2> WITNESS {} \in SUBSET Pages
  <2> QED BY <1>1, <1>2, <1>3, <1>5, <2>3, <2>4
<1> QED BY <1>4, <1>5

\* Loading into a free frame acquires the page with the file's content.
LEMMA LoadFreeRefines ==
    ASSUME PoolInv, NEW c \in Clients, LoadFree(c)
    PROVE  PS!Next
<1>1. PICK f \in Frames : f = Last(free_list) /\ ~valid[f]
  BY LastFree DEF LoadFree
<1>2. ReadPage(c, want[c], f, lru, page_table) /\ UNCHANGED <<disk, num_pages>>
  BY <1>1 DEF LoadFree, diskVars
<1>3. pc[c] \notin Holding /\ want[c] \in Pages /\ page_table[want[c]] = NoFrame
  BY DEF LoadFree, MustLoad, Holding, PoolInv, TypeOK
<1>4. \A p \in Pages : page_table[p] # f
  BY <1>1 DEF PoolInv, PageTableExact, Frames, NoFrame
<1>5. \A p \in Pages : Content(p)' = Content(p)
  BY <1>2, <1>3, <1>4 DEF ReadPage, Content, PoolInv, TypeOK, Frames, NoFrame
<1>6. Store' = Store
  BY <1>5 DEF Store
<1>7. want[c] < num_pages /\ want' = [want EXCEPT ![c] = want[c]] /\ UNCHANGED <<num_pages, got>>
      /\ pc' = [pc EXCEPT ![c] = IF isNew[c] THEN "init" ELSE "held"]
  BY <1>2 DEF ReadPage, PoolInv, TypeOK
<1> QED BY <1>2, <1>3, <1>6, <1>7, AcquireOnlyStep

\* Loading into a victim acquires the page and may clean the victim's.
LEMMA LoadEvictRefines ==
    ASSUME PoolInv, NEW c \in Clients, NEW i \in DOMAIN lru, LoadEvict(c, i)
    PROVE  PS!Next
<1>1. PICK f \in Frames : /\ f = lru[i]
                          /\ page_id[f] \in Pages /\ page_table[page_id[f]] = f
  <2>1. IsVictim(i) /\ WriteVictim(lru[i])
    BY DEF LoadEvict
  <2>2. lru[i] \in Frames /\ page_id[lru[i]] \in Pages /\ page_table[page_id[lru[i]]] = lru[i]
    BY <2>1, VictimFacts
  <2> QED BY <2>2
<1>2. PICK P \in SUBSET Pages :
        /\ disk' = [p \in Pages |-> IF p \in P THEN Store[p] ELSE disk[p]]
        /\ disk'[page_id[f]] = Store[page_id[f]]
        /\ \A p \in Pages : p # page_id[f] => disk'[p] = disk[p]
  BY <1>1, VictimKeepsContent DEF LoadEvict
<1>3. pc[c] \notin Holding /\ want[c] \in Pages /\ page_table[want[c]] = NoFrame
  BY DEF LoadEvict, MustLoad, Holding, PoolInv, TypeOK
<1>4. ReadPage(c, want[c], f, Erase(lru, f), [page_table EXCEPT ![page_id[f]] = NoFrame])
      /\ num_pages' = num_pages
  BY <1>1 DEF LoadEvict
<1>5. f # NoFrame /\ want[c] # page_id[f]
  BY <1>1, <1>3 DEF Frames, NoFrame
<1>6. ASSUME NEW p \in Pages PROVE Content(p)' = Content(p)
  <2>1. CASE p = want[c]
    BY <2>1, <1>3, <1>4, <1>5 DEF ReadPage, Content, PoolInv, TypeOK
  <2>2. CASE p = page_id[f]
    <3>1. page_table'[p] = NoFrame
      BY <2>2, <1>1, <1>4, <1>5 DEF ReadPage, PoolInv, TypeOK
    <3> QED BY <3>1, <2>2, <1>2 DEF Content, Store
  <2>3. CASE p # want[c] /\ p # page_id[f]
    <3>1. page_table'[p] = page_table[p] /\ disk'[p] = disk[p]
      BY <2>3, <1>2, <1>4 DEF ReadPage, PoolInv, TypeOK
    <3>2. page_table[p] # f
      BY <2>3, <1>5 DEF PoolInv, PageTableExact
    <3>3. page_table[p] # NoFrame => page'[page_table[p]] = page[page_table[p]]
      BY <3>2, <1>4 DEF ReadPage, PoolInv, TypeOK
    <3> QED BY <3>1, <3>3 DEF Content
  <2> QED BY <2>1, <2>2, <2>3
<1>7. Store' = Store
  BY <1>6 DEF Store
<1>8. want[c] < num_pages /\ want' = [want EXCEPT ![c] = want[c]] /\ UNCHANGED <<num_pages, got>>
      /\ pc' = [pc EXCEPT ![c] = IF isNew[c] THEN "init" ELSE "held"]
  BY <1>4 DEF ReadPage, PoolInv, TypeOK
<1> QED BY <1>2, <1>3, <1>7, <1>8, AcquireStep

\* A failed read after an eviction may have cleaned the victim's page.
LEMMA LoadEvictThrowsRefines ==
    ASSUME PoolInv, NEW c \in Clients, NEW i \in DOMAIN lru, LoadEvictThrows(c, i)
    PROVE  PS!Next
<1>1. PICK f \in Frames : /\ f = lru[i]
                          /\ page_id[f] \in Pages /\ page_table[page_id[f]] = f
  <2>1. IsVictim(i) /\ WriteVictim(lru[i])
    BY DEF LoadEvictThrows
  <2>2. lru[i] \in Frames /\ page_id[lru[i]] \in Pages /\ page_table[page_id[lru[i]]] = lru[i]
    BY <2>1, VictimFacts
  <2> QED BY <2>2
<1>2. PICK P \in SUBSET Pages :
        /\ disk' = [p \in Pages |-> IF p \in P THEN Store[p] ELSE disk[p]]
        /\ disk'[page_id[f]] = Store[page_id[f]]
        /\ \A p \in Pages : p # page_id[f] => disk'[p] = disk[p]
  BY <1>1, VictimKeepsContent DEF LoadEvictThrows
<1>3. /\ page_table' = [page_table EXCEPT ![page_id[f]] = NoFrame]
      /\ UNCHANGED <<num_pages, page, got>>
  BY <1>1 DEF LoadEvictThrows, Throw
<1>4. \A p \in Pages : Content(p)' = Content(p)
  BY <1>1, <1>2, <1>3 DEF Content, Store, PoolInv, TypeOK
<1>5. Store' = Store
  BY <1>4 DEF Store
<1>6. Holds' = Holds
  BY ThrowFacts, SameHolds DEF LoadEvictThrows, MustLoad, Throw, Holding
<1> QED BY <1>2, <1>3, <1>5, <1>6, CleanStep

\* The throws that leave the pool as it is, or only drop a free frame.
LEMMA ThrowRefines ==
    ASSUME PoolInv, NEW c \in Clients, LoadThrows(c) \/ LoadFreeThrows(c)
    PROVE  UNCHANGED PS!vars
<1>1. Store' = Store /\ UNCHANGED <<disk, num_pages, got>>
  BY DEF LoadThrows, LoadFreeThrows, Throw, Store, Content, diskVars, frameVars, tableVars
<1>2. Holds' = Holds
  BY ThrowFacts, SameHolds DEF LoadThrows, LoadFreeThrows, MustLoad, Throw, Holding
<1> QED BY <1>1, <1>2, StutterStep

\* AllocatePage extends the store by one page.
LEMMA AllocatePageRefines ==
    ASSUME PoolInv, NEW c \in Clients, AllocatePage(c)
    PROVE  PS!Next
<1>1. num_pages \in Pages /\ num_pages' = num_pages + 1 /\ got' = got
  BY BufferPoolAssumption DEF AllocatePage, PoolInv, TypeOK, Pages
<1>2. disk' = disk
  BY <1>1 DEF AllocatePage, PoolInv, TypeOK, BeyondEndIsZero
<1>3. Store' = Store
  BY <1>2 DEF AllocatePage, Store, Content, frameVars, tableVars
<1>4. Holds' = Holds
  BY DEF AllocatePage, Holds, Holding, PoolInv, TypeOK
<1>5. PS!Extend
  BY <1>1, <1>2, <1>3, <1>4 DEF PS!Extend, Store, Holds
<1> QED BY <1>5 DEF PS!Next

\* Writing through the pointer writes the page: by PointerStable the frame
\* is the page's, and by PageTableExact no other page's.
LEMMA StoreRefines ==
    ASSUME PoolInv, NEW c \in Clients, pc[c] \in Holding, NEW v \in Contents,
           page' = [page EXCEPT ![ptr[c]] = v],
           pc' = [pc EXCEPT ![c] = "held"],
           UNCHANGED <<disk, num_pages, page_table, want, got>>
    PROVE  PS!Next
<1>1. PICK w \in Pages : w = want[c] /\ page_table[w] = ptr[c] /\ ptr[c] \in Frames
  BY DEF PoolInv, TypeOK, PointerStable, Holding
<1>2. \A p \in Pages : Content(p)' = IF p = w THEN v ELSE Content(p)
  <2> TAKE p \in Pages
  <2>1. CASE p = w
    BY <2>1, <1>1 DEF Content, PoolInv, TypeOK, Frames, NoFrame
  <2>2. CASE p # w
    <3>1. page_table[p] # NoFrame => page_table[p] \in Frames /\ page_table[p] # ptr[c]
      BY <2>2, <1>1 DEF PoolInv, TypeOK, PageTableExact, Frames, NoFrame
    <3> QED BY <3>1, <2>2 DEF Content, PoolInv, TypeOK
  <2> QED BY <2>1, <2>2
<1>3. Store' = [Store EXCEPT ![w] = v]
  BY <1>2 DEF Store
<1>4. Holds' = Holds /\ Holds[c] = w /\ w # kInvalidPageId
  BY <1>1 DEF Holds, Holding, PoolInv, TypeOK, Pages, kInvalidPageId
<1>5. PS!Write(c, v)
  BY <1>3, <1>4 DEF PS!Write, Store, Holds
<1> QED BY <1>5 DEF PS!Next

\* The initialisation in NewPage is a write of the store.
LEMMA InitPageRefines ==
    ASSUME PoolInv, NEW c \in Clients, InitPage(c)
    PROVE  PS!Next
  BY StoreRefines DEF InitPage, Holding, Contents, diskVars, tableVars

\* Writing through the pointer writes the held page.
LEMMA WritePtrRefines ==
    ASSUME PoolInv, NEW c \in Clients, NEW v \in Data, WritePtr(c, v)
    PROVE  PS!Next
<1>1. pc' = [pc EXCEPT ![c] = "held"]
  BY DEF WritePtr, PoolInv, TypeOK
<1> QED BY <1>1, StoreRefines DEF WritePtr, Holding, Contents, diskVars, tableVars

\* Reading through the pointer reads the held page.
LEMMA ReadPtrRefines ==
    ASSUME PoolInv, NEW c \in Clients, ReadPtr(c)
    PROVE  PS!Next
<1>1. PICK w \in Pages : w = want[c] /\ page_table[w] = ptr[c] /\ ptr[c] \in Frames
  BY DEF ReadPtr, PoolInv, TypeOK, PointerStable, Holding
<1>2. Store[w] = page[ptr[c]]
  BY <1>1 DEF Store, Content, Frames, NoFrame
<1>3. Store' = Store /\ UNCHANGED <<disk, num_pages>>
  BY DEF ReadPtr, Store, Content, diskVars, frameVars, tableVars
<1>4. Holds' = Holds /\ Holds[c] = w /\ w # kInvalidPageId
  BY <1>1 DEF ReadPtr, Holds, Holding, Pages, kInvalidPageId
<1>5. got' = [got EXCEPT ![c] = Store[Holds[c]]]
  BY <1>2, <1>4 DEF ReadPtr
<1>6. PS!Read(c)
  BY <1>3, <1>4, <1>5 DEF PS!Read, Store, Holds
<1> QED BY <1>6 DEF PS!Next

\* UnpinPage releases the page, whose content stays.
LEMMA UnpinPageRefines ==
    ASSUME PoolInv, NEW c \in Clients, UnpinPage(c)
    PROVE  PS!Next
<1>1. Store' = Store /\ UNCHANGED <<disk, num_pages>>
  BY DEF UnpinPage, Store, Content, diskVars, tableVars
<1>2. Holds' = [Holds EXCEPT ![c] = kInvalidPageId] /\ Holds[c] # kInvalidPageId
  <2>1. pc[c] \in Holding /\ want[c] \in Pages
    BY DEF UnpinPage, Holding, PoolInv, TypeOK
  <2>2. Holds[c] # kInvalidPageId
    BY <2>1 DEF Holds, Pages, kInvalidPageId
  <2>3. pc' = [pc EXCEPT ![c] = "idle"] /\ want' = [want EXCEPT ![c] = kInvalidPageId]
    BY DEF UnpinPage
  <2>4. \A d \in Clients : Holds'[d] = IF d = c THEN kInvalidPageId ELSE Holds[d]
    BY <2>3 DEF Holds, Holding, PoolInv, TypeOK
  <2>5. Holds' = [Holds EXCEPT ![c] = kInvalidPageId]
    BY <2>4 DEF Holds
  <2> QED BY <2>2, <2>5
<1>3. got' = [got EXCEPT ![c] = NoContent]
  BY DEF UnpinPage
<1>4. PS!Release(c)
  BY <1>1, <1>2, <1>3 DEF PS!Release, Store, Holds
<1> QED BY <1>4 DEF PS!Next

\* FlushPage cleans one page.
LEMMA FlushPageRefines ==
    ASSUME PoolInv, NEW p \in Pages, FlushPage(p)
    PROVE  PS!Next
<1>1. PICK f \in Frames : f = page_table[p] /\ page_id[f] = p /\ f # NoFrame
  BY DEF FlushPage, PoolInv, TypeOK, PageTableExact
<1>2. Store[p] = page[f]
  BY <1>1 DEF Store, Content
<1>3. PICK P \in SUBSET Pages : P = {p}
  OBVIOUS
<1>4. disk' = [q \in Pages |-> IF q \in P THEN Store[q] ELSE disk[q]]
  BY <1>1, <1>2, <1>3 DEF FlushPage, PoolInv, TypeOK
<1>5. \A q \in Pages : Content(q)' = Content(q)
  BY <1>1, <1>2, <1>3, <1>4 DEF FlushPage, Content, tableVars
<1>6. Store' = Store /\ Holds' = Holds /\ UNCHANGED <<num_pages, got>>
  BY <1>5 DEF Store, Holds, FlushPage, clientVars
<1> QED BY <1>4, <1>6, CleanStep

\* FlushAll cleans the pages of the frames it reaches.
LEMMA FlushAllRefines ==
    ASSUME PoolInv, NEW k \in 0 .. num_frames, FlushAll(k)
    PROVE  PS!Next
<1>1. PICK P \in SUBSET Pages : P = {p \in Pages : \E f \in Flushed(k) : page_id[f] = p}
  OBVIOUS
<1>2. /\ disk' \in [Pages -> Contents]
      /\ \A p \in Pages : disk'[p] = disk[p] \/ \E f \in Flushed(k) : page_id[f] = p
      /\ \A f \in Flushed(k) : disk'[page_id[f]] = page[f]
  BY FlushAllFacts
<1>3. \A f \in Flushed(k) : page_id[f] \in Pages => Store[page_id[f]] = page[f]
  BY DEF Flushed, Store, Content, PoolInv, PageTableExact, Frames, NoFrame
<1>4. \A p \in Pages : disk'[p] = IF p \in P THEN Store[p] ELSE disk[p]
  BY <1>1, <1>2, <1>3
<1>5. disk' = [p \in Pages |-> IF p \in P THEN Store[p] ELSE disk[p]]
  BY <1>2, <1>4
<1>6. \A p \in Pages : page_table[p] = NoFrame => p \notin P
  BY <1>1 DEF Flushed, PoolInv, PageTableExact, Frames, NoFrame
<1>7. \A p \in Pages : Content(p)' = Content(p)
  BY <1>4, <1>6 DEF FlushAll, Content, tableVars
<1>8. Store' = Store /\ Holds' = Holds /\ UNCHANGED <<num_pages, got>>
  BY <1>7 DEF Store, Holds, FlushAll, clientVars
<1> QED BY <1>5, <1>8, CleanStep

\* Every step of the pool is a step of the page store or invisible to it.
LEMMA NextRefines == PoolInv /\ [Next]_vars => [PS!Next]_PS!vars
<1> SUFFICES ASSUME PoolInv, [Next]_vars PROVE [PS!Next]_PS!vars
  OBVIOUS
<1>1. ASSUME NEW c \in Clients, NEW p \in Pages, FetchPage(c, p) PROVE [PS!Next]_PS!vars
  BY <1>1, FastPathRefines DEF FetchPage
<1>2. ASSUME NEW c \in Clients, SlowPath(c) PROVE [PS!Next]_PS!vars
  BY <1>2, LoadCachedRefines, LoadFreeRefines, LoadEvictRefines, LoadEvictThrowsRefines,
     ThrowRefines DEF SlowPath
<1>3. ASSUME NEW c \in Clients, FetchNew(c) PROVE [PS!Next]_PS!vars
  <2>1. want[c] \in Pages
    BY <1>3 DEF FetchNew, PoolInv, TypeOK
  <2> QED BY <1>3, <2>1, FastPathRefines DEF FetchNew
<1>4. ASSUME NEW c \in Clients, ClientStep(c) PROVE [PS!Next]_PS!vars
  BY <1>1, <1>2, <1>3, <1>4, AllocatePageRefines, InitPageRefines, ReadPtrRefines,
     WritePtrRefines, UnpinPageRefines DEF ClientStep
<1>5. CASE UNCHANGED vars
  <2>1. Store' = Store /\ Holds' = Holds /\ UNCHANGED <<disk, num_pages, got>>
    BY <1>5 DEF vars, Store, Holds, Content
  <2> QED BY <2>1, StutterStep
<1> QED BY <1>4, <1>5, FlushPageRefines, FlushAllRefines DEF Next

\* The pool implements the page store: a held page always reads as it was
\* last written, and the file only ever receives current contents, whatever
\* the clients, the evictions and the disk faults do.
THEOREM PoolImplementsPageStore == Spec => ImplementsPageStore
<1> QED BY InitRefines, NextRefines, PoolInvariant, PTL
        DEF Spec, ImplementsPageStore, PS!Spec
=============================================================================
