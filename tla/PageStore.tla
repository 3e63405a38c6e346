------------------------------ MODULE PageStore ------------------------------
(***************************************************************************)
(* What the page layer of LiteOLAP promises to the code above it           *)
(* (PagedOutputStream, PagedInputStream, DB): a growing array of pages.    *)
(* A client that holds a page reads and writes its CURRENT content, a      *)
(* content once written is never lost or replaced by an older one, and the *)
(* file only ever receives the current content of a page.  Frames, pin     *)
(* counts, the page table and eviction do not exist at this level;         *)
(* BufferPool is shown to implement this specification.                    *)
(***************************************************************************)
EXTENDS Integers

CONSTANTS
    Clients,        \* whoever holds at most one page at a time
    Pages,          \* the page ids the file may grow to
    Contents,       \* what a page can hold
    Zero,           \* a page AllocatePage has just appended
    NoPage,         \* kInvalidPageId
    NoContent       \* a client that has read nothing yet

VARIABLES
    store,          \* store[p]: the current content of page p
    durable,        \* durable[p]: the content of page p in the file
    size,           \* number of pages in the file
    holds,          \* holds[c]: the page client c works on, or NoPage
    got             \* got[c]: what client c last read from its page

vars == <<store, durable, size, holds, got>>

Init ==
    /\ store = [p \in Pages |-> Zero]
    /\ durable = [p \in Pages |-> Zero]
    /\ size = 1
    /\ holds = [c \in Clients |-> NoPage]
    /\ got = [c \in Clients |-> NoContent]

\* The file gains one zero-filled page.
Extend ==
    /\ size \in Pages
    /\ size' = size + 1
    /\ UNCHANGED <<store, durable, holds, got>>

Acquire(c, p) ==
    /\ holds[c] = NoPage
    /\ p \in Pages
    /\ p < size
    /\ holds' = [holds EXCEPT ![c] = p]
    /\ UNCHANGED <<store, size, got>>

Read(c) ==
    /\ holds[c] # NoPage
    /\ got' = [got EXCEPT ![c] = store[holds[c]]]
    /\ UNCHANGED <<store, durable, size, holds>>

Write(c, v) ==
    /\ holds[c] # NoPage
    /\ store' = [store EXCEPT ![holds[c]] = v]
    /\ UNCHANGED <<durable, size, holds, got>>

Release(c) ==
    /\ holds[c] # NoPage
    /\ holds' = [holds EXCEPT ![c] = NoPage]
    /\ got' = [got EXCEPT ![c] = NoContent]
    /\ UNCHANGED <<store, durable, size>>

\* The current content of the pages P reaches the file.
WriteBack(P) ==
    durable' = [p \in Pages |-> IF p \in P THEN store[p] ELSE durable[p]]

\* A write-back at a moment the store chooses ...
Clean(P) ==
    /\ WriteBack(P)
    /\ UNCHANGED <<store, size, holds, got>>

\* ... or together with handing out a page (an eviction makes room for it).
AcquireAndClean(c, p, P) ==
    /\ Acquire(c, p)
    /\ WriteBack(P)

Next ==
    \/ Extend
    \/ \E c \in Clients, p \in Pages, P \in SUBSET Pages : AcquireAndClean(c, p, P)
    \/ \E c \in Clients : Read(c) \/ Release(c)
    \/ \E c \in Clients, v \in Contents : Write(c, v)
    \/ \E P \in SUBSET Pages : Clean(P)

Spec == Init /\ [][Next]_vars
=============================================================================
