----------------------------- MODULE BufferPool ------------------------------
(***************************************************************************)
(* The buffer pool (storage/buffer_pool.cpp) over the page file            *)
(* (storage/disk_manager.cpp), used by concurrent clients.                 *)
(*                                                                         *)
(* A step is one critical section of the pool: FetchPage is the fast path  *)
(* under the shared lock and, after a miss, the slow path under the        *)
(* exclusive lock, with the lock free in between; NewPage is AllocatePage, *)
(* then FetchPage, then the initialisation of the page outside any lock.   *)
(* Every other operation holds the exclusive lock throughout.              *)
(*                                                                         *)
(* A client is one pin: a scan worker is one client (PagedInputStream pins *)
(* one page at a time), a PagedOutputStream is up to two (StartNewPage     *)
(* gets the new page before it unpins the previous one).  The client side  *)
(* of the contract is the streams': use the page only between FetchPage    *)
(* and UnpinPage, and unpin with is_dirty = true after changing it.        *)
(***************************************************************************)
EXTENDS Integers, Sequences, FiniteSets, SequencesExt

CONSTANTS
    Clients,        \* concurrent holders of a pin
    num_frames,     \* BufferPool's num_frames_
    MaxPages,       \* bound: the pages the file may grow to
    Data,           \* the payloads clients write
    Zero,           \* a page as AllocatePage appends it, all zero bytes
    Fresh,          \* a page as NewPage initialises it
    NoContent,      \* a client that has read nothing yet
    Faults          \* TRUE: disk reads and writes may throw

ASSUME BufferPoolAssumption ==
    /\ IsFiniteSet(Clients)
    /\ num_frames \in Nat \ {0}
    /\ MaxPages \in Nat \ {0}
    /\ Faults \in BOOLEAN

Frames == 0 .. num_frames - 1
Pages == 0 .. MaxPages - 1
Contents == Data \cup {Zero, Fresh}
NoFrame == -1
kInvalidPageId == -1

VARIABLES
    \* DiskManager: the file and its length in pages.
    disk, num_pages,
    \* Frame: page_id[f], pin_count[f], dirty[f], valid[f] and page[f].
    page_id, pin_count, dirty, valid, page,
    \* page_table_, lru_ (front first; lru_pos_ is its index), free_list_.
    page_table, lru, free_list,
    \* Clients: where each one is, the page it asked for, whether through
    \* NewPage, the Page* it got, whether it changed the page since, and
    \* what it read.
    pc, want, isNew, ptr, wrote, got

diskVars == <<disk, num_pages>>
frameVars == <<page_id, dirty, valid, page>>
tableVars == <<page_table, lru, free_list>>
clientVars == <<pc, want, isNew, ptr, wrote, got>>
vars == <<disk, num_pages, page_id, pin_count, dirty, valid, page,
          page_table, lru, free_list, pc, want, isNew, ptr, wrote, got>>

Holding == {"init", "held"}

\* A new file has one page, the catalog's; the frames are all free.
Init ==
    /\ disk = [p \in Pages |-> Zero]
    /\ num_pages = 1
    /\ page_id = [f \in Frames |-> kInvalidPageId]
    /\ pin_count = [f \in Frames |-> 0]
    /\ dirty = [f \in Frames |-> FALSE]
    /\ valid = [f \in Frames |-> FALSE]
    /\ page = [f \in Frames |-> Zero]
    /\ page_table = [p \in Pages |-> NoFrame]
    /\ lru = <<>>
    /\ free_list = [i \in 1 .. num_frames |-> i - 1]
    /\ pc = [c \in Clients |-> "idle"]
    /\ want = [c \in Clients |-> kInvalidPageId]
    /\ isNew = [c \in Clients |-> FALSE]
    /\ ptr = [c \in Clients |-> NoFrame]
    /\ wrote = [c \in Clients |-> FALSE]
    /\ got = [c \in Clients |-> NoContent]

-----------------------------------------------------------------------------
(* The LRU list.                                                           *)

Erase(l, f) ==
    IF \E i \in DOMAIN l : l[i] = f
    THEN RemoveAt(l, CHOOSE i \in DOMAIN l : l[i] = f)
    ELSE l

\* Mutant: only frames already listed are moved, a loaded one is not added.
TouchListedOnly(l, f) == IF f \in ToSet(l) THEN <<f>> \o Erase(l, f) ELSE l

\* Touch: f becomes the front of the list, wherever it was.
Touch(l, f) == <<f>> \o Erase(l, f)

\* Mutant: the frame at the back, pinned or not.
IsVictimPinned(i) == i \in DOMAIN lru /\ i = Len(lru)

\* PickVictim: the position nearest the back whose frame is not pinned.
IsVictim(i) ==
    /\ i \in DOMAIN lru
    /\ pin_count[lru[i]] = 0
    /\ \A j \in DOMAIN lru : j > i => pin_count[lru[j]] # 0

\* PickVictim throws "all frames pinned, cannot evict".
NoVictim == \A i \in DOMAIN lru : pin_count[lru[i]] # 0

-----------------------------------------------------------------------------
(* FetchPage.                                                              *)

\* Mutant: the pin of an earlier client is overwritten.
PinStore(c, p, f) ==
    /\ pin_count' = [pin_count EXCEPT ![f] = 1]
    /\ ptr' = [ptr EXCEPT ![c] = f]
    /\ want' = [want EXCEPT ![c] = p]
    /\ pc' = [pc EXCEPT ![c] = IF isNew[c] THEN "init" ELSE "held"]
    /\ UNCHANGED <<isNew, wrote, got>>

\* c gets the Page* of frame f, which goes up by one pin.
Pin(c, p, f) ==
    /\ pin_count' = [pin_count EXCEPT ![f] = @ + 1]
    /\ ptr' = [ptr EXCEPT ![c] = f]
    /\ want' = [want EXCEPT ![c] = p]
    /\ pc' = [pc EXCEPT ![c] = IF isNew[c] THEN "init" ELSE "held"]
    /\ UNCHANGED <<isNew, wrote, got>>

\* An exception leaves FetchPage (and NewPage): c has no page.
Throw(c) ==
    /\ pc' = [pc EXCEPT ![c] = "idle"]
    /\ want' = [want EXCEPT ![c] = kInvalidPageId]
    /\ isNew' = [isNew EXCEPT ![c] = FALSE]
    /\ UNCHANGED <<ptr, wrote, got>>

\* The fast path: a cached page is pinned under the shared lock, without a
\* Touch; on a miss the lock is released.
FastPath(c, p) ==
    /\ \/ /\ page_table[p] # NoFrame
          /\ Pin(c, p, page_table[p])
       \/ /\ page_table[p] = NoFrame
          /\ pc' = [pc EXCEPT ![c] = "miss"]
          /\ want' = [want EXCEPT ![c] = p]
          /\ UNCHANGED <<pin_count, isNew, ptr, wrote, got>>
    /\ UNCHANGED <<diskVars, frameVars, tableVars>>

FetchPage(c, p) ==
    /\ pc[c] = "idle"
    /\ p < num_pages \/ Faults
    /\ FastPath(c, p)

\* DiskManager::ReadPage fills frame f, LoadIntoFrame enters it in the page
\* table, FetchPage pins it and moves it to the front of the list l.
ReadPage(c, p, f, l, table) ==
    /\ p < num_pages
    /\ page' = [page EXCEPT ![f] = disk[p]]
    /\ page_id' = [page_id EXCEPT ![f] = p]
    /\ dirty' = [dirty EXCEPT ![f] = FALSE]
    /\ valid' = [valid EXCEPT ![f] = TRUE]
    /\ page_table' = [table EXCEPT ![p] = f]
    /\ pin_count' = [pin_count EXCEPT ![f] = 1]
    /\ lru' = Touch(l, f)
    /\ ptr' = [ptr EXCEPT ![c] = f]
    /\ pc' = [pc EXCEPT ![c] = IF isNew[c] THEN "init" ELSE "held"]
    /\ UNCHANGED <<want, isNew, wrote, got>>

\* LoadIntoFrame looks again: another client loaded the page meanwhile.
LoadCached(c) ==
    /\ pc[c] = "miss"
    /\ page_table[want[c]] # NoFrame
    /\ Pin(c, want[c], page_table[want[c]])
    /\ lru' = Touch(lru, page_table[want[c]])
    /\ UNCHANGED <<diskVars, frameVars, page_table, free_list>>

\* Mutant: LoadIntoFrame does not look in the page table again.
MustLoadNoRecheck(c) == pc[c] = "miss"

MustLoad(c) ==
    /\ pc[c] = "miss"
    /\ page_table[want[c]] = NoFrame

\* LoadIntoFrame takes the frame at the back of free_list_.
LoadFree(c) ==
    /\ MustLoad(c)
    /\ free_list # <<>>
    /\ free_list' = Front(free_list)
    /\ ReadPage(c, want[c], Last(free_list), lru, page_table)
    /\ UNCHANGED diskVars

\* The same, but ReadPage throws (page id beyond the file, short read): the
\* frame has left free_list_ and enters neither the table nor the list.
LoadFreeThrows(c) ==
    /\ MustLoad(c)
    /\ Faults
    /\ free_list # <<>>
    /\ free_list' = Front(free_list)
    /\ Throw(c)
    /\ UNCHANGED <<diskVars, frameVars, pin_count, page_table, lru>>

\* A dirty victim is written back before its frame is reused.  A write that
\* fails throws; WritePage does not test the stream again after its last call,
\* file_.flush() (disk_manager.cpp:73), so a failure that only shows there
\* would go unnoticed: here and in FlushAll it is taken to throw.
WriteVictim(f) ==
    disk' = IF dirty[f] THEN [disk EXCEPT ![page_id[f]] = page[f]] ELSE disk

\* LoadIntoFrame evicts the victim at position i and reads into its frame.
LoadEvict(c, i) ==
    /\ MustLoad(c)
    /\ free_list = <<>>
    /\ IsVictim(i)
    /\ WriteVictim(lru[i])
    /\ ReadPage(c, want[c], lru[i], Erase(lru, lru[i]),
                [page_table EXCEPT ![page_id[lru[i]]] = NoFrame])
    /\ UNCHANGED <<num_pages, free_list>>

\* The same, but ReadPage throws: the victim is gone from the table and the
\* list, and its frame does not return to free_list_.
LoadEvictThrows(c, i) ==
    /\ MustLoad(c)
    /\ Faults
    /\ free_list = <<>>
    /\ IsVictim(i)
    /\ WriteVictim(lru[i])
    /\ page_table' = [page_table EXCEPT ![page_id[lru[i]]] = NoFrame]
    /\ lru' = Erase(lru, lru[i])
    /\ valid' = [valid EXCEPT ![lru[i]] = FALSE]
    /\ Throw(c)
    /\ UNCHANGED <<num_pages, free_list, pin_count, page_id, dirty, page>>

\* PickVictim finds nothing, or the write-back of the victim throws before
\* anything has changed.
LoadThrows(c) ==
    /\ MustLoad(c)
    /\ free_list = <<>>
    /\ NoVictim \/ (Faults /\ \E i \in DOMAIN lru : IsVictim(i) /\ dirty[lru[i]])
    /\ Throw(c)
    /\ UNCHANGED <<diskVars, frameVars, pin_count, tableVars>>

SlowPath(c) ==
    \/ LoadCached(c)
    \/ LoadFree(c)
    \/ LoadFreeThrows(c)
    \/ \E i \in DOMAIN lru : LoadEvict(c, i) \/ LoadEvictThrows(c, i)
    \/ LoadThrows(c)

-----------------------------------------------------------------------------
(* NewPage.                                                                *)

\* DiskManager::AllocatePage appends a page of zeros.
AllocatePage(c) ==
    /\ pc[c] = "idle"
    /\ num_pages < MaxPages
    /\ num_pages' = num_pages + 1
    /\ disk' = [disk EXCEPT ![num_pages] = Zero]
    /\ pc' = [pc EXCEPT ![c] = "allocated"]
    /\ want' = [want EXCEPT ![c] = num_pages]
    /\ isNew' = [isNew EXCEPT ![c] = TRUE]
    /\ UNCHANGED <<frameVars, pin_count, tableVars, ptr, wrote, got>>

FetchNew(c) ==
    /\ pc[c] = "allocated"
    /\ FastPath(c, want[c])

\* The memset and the header fields, written through the pointer, no lock.
InitPage(c) ==
    /\ pc[c] = "init"
    /\ page' = [page EXCEPT ![ptr[c]] = Fresh]
    /\ wrote' = [wrote EXCEPT ![c] = TRUE]
    /\ pc' = [pc EXCEPT ![c] = "held"]
    /\ UNCHANGED <<diskVars, page_id, dirty, valid, pin_count, tableVars,
                   want, isNew, ptr, got>>

-----------------------------------------------------------------------------
(* What a client does with its page, and UnpinPage.                        *)

\* LoadPage copies the page through the pointer.
ReadPtr(c) ==
    /\ pc[c] = "held"
    /\ got' = [got EXCEPT ![c] = page[ptr[c]]]
    /\ UNCHANGED <<diskVars, frameVars, pin_count, tableVars,
                   pc, want, isNew, ptr, wrote>>

\* Write and StartNewPage change the page through the pointer.
WritePtr(c, v) ==
    /\ pc[c] = "held"
    /\ page' = [page EXCEPT ![ptr[c]] = v]
    /\ wrote' = [wrote EXCEPT ![c] = TRUE]
    /\ UNCHANGED <<diskVars, page_id, dirty, valid, pin_count, tableVars,
                   pc, want, isNew, ptr, got>>

\* Mutant: a dirty unpin gives up two pins.
UnpinTwice(p, is_dirty) ==
    LET f == page_table[p] IN
    /\ pin_count' = [pin_count EXCEPT ![f] = @ - (IF is_dirty THEN 2 ELSE 1)]
    /\ dirty' = [dirty EXCEPT ![f] = @ \/ is_dirty]

\* Mutant: the flag of the last unpin replaces that of earlier ones.
UnpinSetsDirty(p, is_dirty) ==
    LET f == page_table[p] IN
    /\ pin_count' = [pin_count EXCEPT ![f] = @ - 1]
    /\ dirty' = [dirty EXCEPT ![f] = is_dirty]

\* Mutant: a clean unpin returns before the pin is given up.
UnpinDirtyOnly(p, is_dirty) ==
    LET f == page_table[p] IN
    IF is_dirty
    THEN /\ pin_count' = [pin_count EXCEPT ![f] = @ - 1]
         /\ dirty' = [dirty EXCEPT ![f] = TRUE]
    ELSE UNCHANGED <<pin_count, dirty>>

\* UnpinPage finds the frame by the page id, not by the pointer.  It returns
\* false, changing nothing, if the page is not cached or not pinned.
Unpin(p, is_dirty) ==
    LET f == page_table[p] IN
    IF f # NoFrame /\ pin_count[f] > 0
    THEN /\ pin_count' = [pin_count EXCEPT ![f] = @ - 1]
         /\ dirty' = [dirty EXCEPT ![f] = @ \/ is_dirty]
    ELSE UNCHANGED <<pin_count, dirty>>

UnpinPage(c) ==
    /\ pc[c] = "held"
    /\ Unpin(want[c], wrote[c])
    /\ pc' = [pc EXCEPT ![c] = "idle"]
    /\ want' = [want EXCEPT ![c] = kInvalidPageId]
    /\ isNew' = [isNew EXCEPT ![c] = FALSE]
    /\ ptr' = [ptr EXCEPT ![c] = NoFrame]
    /\ wrote' = [wrote EXCEPT ![c] = FALSE]
    /\ got' = [got EXCEPT ![c] = NoContent]
    /\ UNCHANGED <<diskVars, page_id, valid, page, tableVars>>

-----------------------------------------------------------------------------
(* FlushPage and FlushAll.                                                 *)

FlushPage(p) ==
    /\ page_table[p] # NoFrame
    /\ valid[page_table[p]]
    /\ disk' = [disk EXCEPT ![page_id[page_table[p]]] = page[page_table[p]]]
    /\ dirty' = [dirty EXCEPT ![page_table[p]] = FALSE]
    /\ UNCHANGED <<num_pages, page_id, valid, page, pin_count, tableVars, clientVars>>

\* Mutant: pinned frames are skipped.
FlushedUnpinned(k) == {f \in Frames : f < k /\ valid[f] /\ dirty[f] /\ pin_count[f] = 0}

\* The frames below k have been flushed; a write that throws at frame k
\* ends the loop there, so k = num_frames is a FlushAll that succeeds.
Flushed(k) == {f \in Frames : f < k /\ valid[f] /\ dirty[f]}

\* Mutant: the dirty flags are cleared before the writes.
FlushAllClearsFirst(k) ==
    /\ k = num_frames \/ Faults
    /\ disk' = [p \in Pages |->
                  IF \E f \in Flushed(k) : page_id[f] = p
                  THEN page[CHOOSE f \in Flushed(k) : page_id[f] = p]
                  ELSE disk[p]]
    /\ dirty' = [f \in Frames |-> FALSE]
    /\ UNCHANGED <<num_pages, page_id, valid, page, pin_count, tableVars, clientVars>>

FlushAll(k) ==
    /\ k = num_frames \/ Faults
    /\ disk' = [p \in Pages |->
                  IF \E f \in Flushed(k) : page_id[f] = p
                  THEN page[CHOOSE f \in Flushed(k) : page_id[f] = p]
                  ELSE disk[p]]
    /\ dirty' = [f \in Frames |-> IF f \in Flushed(k) THEN FALSE ELSE dirty[f]]
    /\ UNCHANGED <<num_pages, page_id, valid, page, pin_count, tableVars, clientVars>>

-----------------------------------------------------------------------------
ClientStep(c) ==
    \/ \E p \in Pages : FetchPage(c, p)
    \/ SlowPath(c)
    \/ AllocatePage(c)
    \/ FetchNew(c)
    \/ InitPage(c)
    \/ ReadPtr(c)
    \/ \E v \in Data : WritePtr(c, v)
    \/ UnpinPage(c)

Next ==
    \/ \E c \in Clients : ClientStep(c)
    \/ \E p \in Pages : FlushPage(p)
    \/ \E k \in 0 .. num_frames : FlushAll(k)

Spec == Init /\ [][Next]_vars

-----------------------------------------------------------------------------
(* Properties.                                                             *)

Holders(f) == {c \in Clients : pc[c] \in Holding /\ ptr[c] = f}

\* The current content of page p: its frame's if it is cached, else the file's.
Content(p) == IF page_table[p] # NoFrame THEN page[page_table[p]] ELSE disk[p]

\* Some client has changed page p and not unpinned it yet.
BeingWritten(p) == \E c \in Clients : pc[c] \in Holding /\ want[c] = p /\ wrote[c]

\* The types of the pool's, the file's and the clients' state.
TypeOK ==
    /\ disk \in [Pages -> Contents]
    /\ num_pages \in 1 .. MaxPages
    /\ page_id \in [Frames -> Pages \cup {kInvalidPageId}]
    /\ pin_count \in [Frames -> Nat]
    /\ dirty \in [Frames -> BOOLEAN]
    /\ valid \in [Frames -> BOOLEAN]
    /\ page \in [Frames -> Contents]
    /\ page_table \in [Pages -> Frames \cup {NoFrame}]
    /\ lru \in Seq(Frames)
    /\ free_list \in Seq(Frames)
    /\ pc \in [Clients -> {"idle", "allocated", "miss", "init", "held"}]
    /\ want \in [Clients -> Pages \cup {kInvalidPageId}]
    /\ \A c \in Clients : pc[c] # "idle" => want[c] \in Pages
    /\ isNew \in [Clients -> BOOLEAN]
    /\ ptr \in [Clients -> Frames \cup {NoFrame}]
    /\ \A c \in Clients : pc[c] \in Holding => ptr[c] \in Frames
    /\ wrote \in [Clients -> BOOLEAN]
    /\ got \in [Clients -> Contents \cup {NoContent}]

\* page_table_ and the frames describe each other exactly: no page is ever
\* cached in two frames, although two clients may miss on it at once and
\* each reach LoadIntoFrame (buffer_pool.cpp:45-76, 89-91).
PageTableExact ==
    /\ \A p \in Pages : page_table[p] # NoFrame =>
          p < num_pages /\ valid[page_table[p]] /\ page_id[page_table[p]] = p
    /\ \A f \in Frames : valid[f] =>
          page_id[f] \in Pages /\ page_table[page_id[f]] = f

\* The Page* that FetchPage returned stays the frame of the requested page
\* until UnpinPage, whatever other clients load or evict meanwhile, and
\* UnpinPage, which looks the page up by id, finds that frame.
PointerStable ==
    \A c \in Clients : pc[c] \in Holding => page_table[want[c]] = ptr[c]

\* pin_count is the number of clients that hold the frame: no pin is lost
\* or left behind by a fast path racing slow paths, evictions and throws.
PinsCounted == \A f \in Frames : pin_count[f] = Cardinality(Holders(f))

\* lru_ lists each valid frame once and nothing else (so lru_pos_ is its
\* index), and free_list_ lists each of its frames once, none of them valid.
ListsExact ==
    /\ ToSet(lru) = {f \in Frames : valid[f]}
    /\ \A i, j \in DOMAIN lru : lru[i] = lru[j] => i = j
    /\ \A i, j \in DOMAIN free_list : free_list[i] = free_list[j] => i = j
    /\ \A i \in DOMAIN free_list : ~valid[free_list[i]]

\* A cached page that is not marked dirty and that no client is changing is
\* identical to the page in the file: evicting it without a write is safe.
CleanIsDurable ==
    \A f \in Frames : valid[f] /\ ~dirty[f] /\ ~BeingWritten(page_id[f])
                        => page[f] = disk[page_id[f]]

\* A page beyond the end of the file is what AllocatePage will append.
BeyondEndIsZero == \A p \in Pages : p >= num_pages => disk[p] = Zero

\* The frames that a ReadPage that threw has taken out of circulation: they
\* hold no page and are not in free_list_ (buffer_pool.cpp:52-69).
LostFrames == {f \in Frames : ~valid[f] /\ f \notin ToSet(free_list)}

\* Without disk faults every frame stays in circulation.
FramesAccounted == ~Faults => LostFrames = {}

\* FetchPage throws "all frames pinned, cannot evict" only when every frame
\* that is still in circulation really is pinned (buffer_pool.cpp:42).
FullMeansAllPinned ==
    free_list = <<>> /\ NoVictim => \A f \in Frames \ LostFrames : pin_count[f] > 0

\* With at least as many frames in circulation as clients, a fetch that
\* missed always finds a frame: ColumnScan's 8 workers can never exhaust the
\* pool, whatever they have pinned and unpinned before.
EnoughFramesNeverFull ==
    Cardinality(Clients) + Cardinality(LostFrames) <= num_frames =>
        \A c \in Clients : MustLoad(c) => free_list # <<>> \/ ~NoVictim

\* A FlushAll that completes leaves the current content of every page in
\* the file, except pages some client is still changing: what DB relies on
\* when it persists the catalog after FlushAll (db.cpp:83-84).
FlushAllMakesDurable ==
    [][FlushAll(num_frames) =>
          \A p \in Pages : BeingWritten(p) \/ disk'[p] = Content(p)]_vars

\* The pool implements the abstract page store.
PS == INSTANCE PageStore WITH
        NoPage <- kInvalidPageId,
        store <- [p \in Pages |-> Content(p)],
        durable <- disk,
        size <- num_pages,
        holds <- [c \in Clients |-> IF pc[c] \in Holding THEN want[c] ELSE kInvalidPageId],
        got <- got

\* A held page reads as last written, whatever was evicted, loaded, flushed
\* or failed in between, and the file only receives current contents.
ImplementsPageStore == PS!Spec
=============================================================================
