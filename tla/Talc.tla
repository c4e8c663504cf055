------------------------------- MODULE Talc --------------------------------
(***************************************************************************)
(* The general heap (talc.rs): size classes, boundary tags, intrusive free *)
(* lists, splitting and merging of chunks.  An operation is one step, for  *)
(* it runs under the mutation lock, which Directory.tla models.            *)
(*                                                                         *)
(* Addresses count 8-byte words from the base pointer.  A word that holds  *)
(* an offset, a size or a tag is a number whose low two bits are the flags *)
(* of a tag: 4 * words + flags.  Requests are in words, since chunk_size   *)
(* and the end of an allocation round up to words; size classes are        *)
(* computed in bytes, as the code does.                                    *)
(***************************************************************************)
EXTENDS Naturals, Sequences, FiniteSetsExt

CONSTANTS
    WordBits,   \* bits of an availability word
    Extent,     \* bytes of the heap (Config::size)
    Shape,      \* the arguments of Geometry::new, or <<>> for Geometry::auto
    Origin,     \* word address of the base pointer
    Requests,   \* what the client asks for: size and alignment, in words
    MaxBlocks,  \* bound: live allocations of the client
    Extents     \* extents for which the size classes are checked

VARIABLES
    heap,   \* mem: the words; avails: per word, its set bits; summary: words with a set bit
    blocks  \* the client's allocations: pointer, size and alignment

talcVars == <<heap, blocks>>

WORD == 8
LINK == 16               \* bytes of FreeNodeLink
FREE_NODE == 3           \* words of FreeNode: the next link, and the place of the link to it
MIN_CHUNK == 4           \* words of FreeNode and Tag
MIN_METADATA == 512
MAX_METADATA == 16384

----------------------------------------------------------------------------
(* Geometry: size classes.                                                 *)

Log2(n) == CHOOSE k \in 0 .. 30 : 2 ^ k <= n /\ n < 2 ^ (k + 1)
DivCeil(n, d) == (n + d - 1) \div d
Least(m, n) == IF m < n THEN m ELSE n
Most(m, n) == IF m < n THEN n ELSE m

Classes(extent, linear_shift, exponential_log, divisions_log) ==
    LET linear == 2 ^ (exponential_log - linear_shift) IN
    [linear |-> linear, linear_shift |-> linear_shift, exponential_log |-> exponential_log,
     divisions_log |-> divisions_log,
     bins |-> linear + (Log2(extent) - exponential_log + 1) * 2 ^ divisions_log]

NoGeometry == [bins |-> 0]
AvailabilityWords(g) == DivCeil(g.bins, WordBits)
MetadataBytes(g) == g.bins * LINK + AvailabilityWords(g) * WORD
Budget(extent) == Least(Most(extent \div 1024, MIN_METADATA), MAX_METADATA)

\* Geometry::validate; what follows from how Classes computes the fields is left out
Validated(g, extent) ==
    IF AvailabilityWords(g) <= WordBits /\ MetadataBytes(g) + MIN_METADATA <= extent
    THEN g ELSE NoGeometry

New(extent, linear_shift, exponential_log, divisions_log) ==
    IF \/ extent < MIN_CHUNK * WORD \/ linear_shift > exponential_log
       \/ exponential_log > Log2(extent) \/ divisions_log > 3
    THEN NoGeometry
    ELSE Validated(Classes(extent, linear_shift, exponential_log, divisions_log), extent)

\* the finest linear classes, and for them the most divisions, that the budget allows
Auto(extent) ==
    LET exponential_log == Least(Log2(extent), 10)
        max_bins == Least((Budget(extent) * 8) \div 129, WordBits * WordBits)
        Fits(shift, log) == Classes(extent, shift, exponential_log, log).bins <= max_bins
        shifts == {s \in Least(4, exponential_log) .. exponential_log : Fits(s, 0)}
        shift == Min(shifts)
    IN  IF extent < MIN_CHUNK * WORD \/ shifts = {} THEN NoGeometry
        ELSE Validated(Classes(extent, shift, exponential_log,
                               Max({l \in 0 .. 3 : Fits(shift, l)})), extent)

\* Mutant: the classes of all octaves coincide.
IndexOneOctave(g, size) ==
    LET octave == Log2(size) IN
    IF size < 2 ^ g.exponential_log THEN (size - 1) \div 2 ^ g.linear_shift
    ELSE g.linear + ((size - 2 ^ octave) * 2 ^ g.divisions_log) \div 2 ^ octave

Index(g, size) ==
    LET octave == Log2(size) IN
    IF size < 2 ^ g.exponential_log THEN (size - 1) \div 2 ^ g.linear_shift
    ELSE g.linear + (octave - g.exponential_log) * 2 ^ g.divisions_log
         + ((size - 2 ^ octave) * 2 ^ g.divisions_log) \div 2 ^ octave

Bin(g, size) == Least(Index(g, size), g.bins - 1)

G == IF Shape = <<>> THEN Auto(Extent) ELSE New(Extent, Shape[1], Shape[2], Shape[3])
BinOf == [words \in 1 .. Extent \div WORD |-> Bin(G, words * WORD)]

ASSUME TalcAssumption ==
    /\ WordBits \in Nat \ {0} /\ Extent \in Nat /\ Origin \in Nat /\ MaxBlocks \in Nat
    /\ Requests \subseteq [size : Nat \ {0}, align : Nat \ {0}] /\ Extents \subseteq Nat
    /\ G # NoGeometry

----------------------------------------------------------------------------
(* The layout of the heap, tags and free lists.  m is the memory.          *)

Start == 3                              \* TalcMeta: summary and the two relative slices
End == Start + Extent \div WORD
BinAt(i) == Start + 1 + AvailabilityWords(G) + 2 * i
MetaTag == BinAt(G.bins)
Addresses == Start .. End - 1

Stale == 0                              \* what earlier users left in a word
Data(ptr) == 4 * ptr + 3                \* what the client writes looks like a tag

AllocatedFlag == 1
AboveFreeFlag == 2
IsAllocated(v) == v % 2 = 1
IsAboveFree(v) == (v \div 2) % 2 = 1
Offset(v) == v \div 4
Tag(base, above) == 4 * base + AllocatedFlag + (IF above THEN AboveFreeFlag ELSE 0)
ToggleAboveFree(m, tag, above) == [m EXCEPT ![tag] = Tag(Offset(m[tag]), above)]

\* Tag::from_alloc_base: the word after the allocation is its tag, or leads to it
TagOf(m, ptr, size) == IF m[ptr + size] > 4 * (ptr + size) THEN Offset(m[ptr + size]) ELSE ptr + size

\* an optional link takes two words; None leaves the second as it was
Null == 0
LinkAt(m, p) == IF m[p] = 0 THEN Null ELSE Offset(m[p + 1])
SetLink(m, p, node) ==
    IF node = Null THEN [m EXCEPT ![p] = 0, ![p + 1] = Stale] ELSE [m EXCEPT ![p] = 1, ![p + 1] = 4 * node]

SizeLow(m, node) == Offset(m[node + FREE_NODE])
PrevNext(m, node) == Offset(m[node + 2])
SetPrevNext(m, node, p) == IF node = Null THEN m ELSE [m EXCEPT ![node + 2] = 4 * p]

\* FreeNode::insert_by and FreeNode::remove
InsertNode(m, node, p) ==
    LET next == LinkAt(m, p) IN
    SetPrevNext(SetLink(SetPrevNext(SetLink(m, node, next), node, p), p, node), next, node)

RemoveNode(m, node) ==
    SetPrevNext(SetLink(m, PrevNext(m, node), LinkAt(m, node)), LinkAt(m, node), PrevNext(m, node))

----------------------------------------------------------------------------
(* TalcMeta: availability bits, insertion and removal of free chunks.      *)

ToggleAvail(h, i) ==
    LET w == i \div WordBits  bits == SymDiff(h.avails[w], {i % WordBits}) IN
    [h EXCEPT !.avails[w] = bits,
              !.summary = IF bits = {} THEN @ \ {w} ELSE @ \cup {w}]

NextAvailBin(h, i) ==
    LET w == i \div WordBits
        here == {b \in h.avails[w] : b >= i % WordBits}
        later == {v \in h.summary : v > w}
    IN  IF i >= G.bins THEN G.bins
        ELSE IF here # {} THEN w * WordBits + Min(here)
        ELSE IF later = {} THEN G.bins
        ELSE Min(later) * WordBits + Min(h.avails[Min(later)])

\* what a chunk held is of no meaning once it is free
Forget(m, from, to) == [p \in Addresses |-> IF p \in from .. to - 1 THEN Stale ELSE m[p]]

InsertFree(h, base, size) ==
    LET i == BinOf[size]
        marked == IF LinkAt(h.mem, BinAt(i)) = Null THEN ToggleAvail(h, i) ELSE h
    IN  [marked EXCEPT !.mem = [InsertNode(Forget(@, base, base + size), base, BinAt(i))
                                EXCEPT ![base + FREE_NODE] = 4 * size, ![base + size - 1] = 4 * size]]

RemoveFree(h, node) ==
    LET i == BinOf[SizeLow(h.mem, node)]
        removed == [h EXCEPT !.mem = RemoveNode(@, node)]
    IN  IF LinkAt(removed.mem, BinAt(i)) = Null THEN ToggleAvail(removed, i) ELSE removed

----------------------------------------------------------------------------
(* allocate and deallocate.                                                *)

AlignUp(p, align) == CHOOSE q \in p .. p + align - 1 : (Origin + q) % align = 0

ChunkSize(size) == IF size <= FREE_NODE THEN MIN_CHUNK ELSE size + 1

RECURSIVE Fitting(_, _, _, _)
\* the first chunk of a list, from a node on, that holds the request
Fitting(m, node, size, align) ==
    IF node = Null \/ AlignUp(node, align) + ChunkSize(size) <= node + SizeLow(m, node) THEN node
    ELSE Fitting(m, LinkAt(m, node), size, align)

\* Mutant: only the class of the request is searched.
AcquireHere(h, i, size, align) ==
    IF i >= G.bins THEN Null ELSE Fitting(h.mem, LinkAt(h.mem, BinAt(i)), size, align)

RECURSIVE Acquire(_, _, _, _)
Acquire(h, i, size, align) ==
    IF i >= G.bins THEN Null
    ELSE LET found == Fitting(h.mem, LinkAt(h.mem, BinAt(i)), size, align) IN
         IF found # Null THEN found ELSE Acquire(h, NextAvailBin(h, i + 1), size, align)

AcquireChunk(h, size, align) == Acquire(h, NextAvailBin(h, BinOf[ChunkSize(size)]), size, align)

\* the heap after a request that found the free chunk at node
Carve(h, node, size, align) ==
    LET acme == node + SizeLow(h.mem, node)
        ptr == AlignUp(node, align)
        \* split_prefix
        prefix == ptr - node >= MIN_CHUNK
        base == IF prefix THEN ptr ELSE node
        taken == RemoveFree(h, node)
        before == IF prefix THEN InsertFree(taken, node, ptr - node)
                  ELSE [taken EXCEPT !.mem = ToggleAboveFree(@, node - 1, FALSE)]
        \* split_suffix
        lowest == Most(base + FREE_NODE, ptr + size)
        suffix == acme - (lowest + 1) >= MIN_CHUNK
        tag == IF suffix THEN lowest ELSE acme - 1
        after == IF suffix THEN InsertFree(before, tag + 1, acme - (tag + 1)) ELSE before
        own == [Forget(after.mem, base, tag + 1) EXCEPT ![tag] = Tag(base, suffix)]
    IN  [after EXCEPT !.mem = IF tag = ptr + size THEN own ELSE [own EXCEPT ![ptr + size] = 4 * tag]]

\* Mutant: a freed chunk is not merged with the one after it.
DisposeBackOnly(h, ptr, size) ==
    LET tag == TagOf(h.mem, ptr, size)
        base == Offset(h.mem[tag])
        back == ~IsAllocated(h.mem[base - 1])
        first == IF back THEN base - Offset(h.mem[base - 1]) ELSE base
        merged == IF back THEN RemoveFree(h, first)
                  ELSE [h EXCEPT !.mem = ToggleAboveFree(@, base - 1, TRUE)]
    IN  InsertFree(merged, first, tag + 1 - first)

Dispose(h, ptr, size) ==
    LET tag == TagOf(h.mem, ptr, size)
        base == Offset(h.mem[tag])
        back == ~IsAllocated(h.mem[base - 1])
        first == IF back THEN base - Offset(h.mem[base - 1]) ELSE base
        merged == IF back THEN RemoveFree(h, first)
                  ELSE [h EXCEPT !.mem = ToggleAboveFree(@, base - 1, TRUE)]
        forward == IsAboveFree(h.mem[tag])
        acme == IF forward THEN tag + 1 + SizeLow(h.mem, tag + 1) ELSE tag + 1
    IN  InsertFree(IF forward THEN RemoveFree(merged, tag + 1) ELSE merged, first, acme - first)

----------------------------------------------------------------------------
(* TalcMeta::claim, and the client.                                        *)

Claimed ==
    LET bare == [mem |-> [p \in Addresses |-> Stale],
                 avails |-> [w \in 0 .. AvailabilityWords(G) - 1 |-> {}], summary |-> {}]
        whole == InsertFree(bare, MetaTag + 1, End - (MetaTag + 1))
    IN  [whole EXCEPT !.mem[Start] = Tag(0, TRUE), !.mem[MetaTag] = Tag(Start, TRUE)]

\* before the layout is initialised
Raw == [mem |-> [p \in {} |-> Stale], avails |-> [w \in {} |-> {}], summary |-> {}]

TalcInit == heap = Raw /\ blocks = {}

\* TalckMeta::init
ClaimHeap == heap' = Claimed /\ UNCHANGED blocks

\* the client fills what it gets
Allocate(size, align) ==
    LET node == AcquireChunk(heap, size, align)  ptr == AlignUp(node, align) IN
    /\ Cardinality(blocks) < MaxBlocks
    /\ node # Null
    /\ heap' = [Carve(heap, node, size, align) EXCEPT !.mem =
                  [p \in Addresses |-> IF p \in ptr .. ptr + size - 1 THEN Data(ptr) ELSE @[p]]]
    /\ blocks' = blocks \cup {[ptr |-> ptr, size |-> size, align |-> align]}

Deallocate(b) ==
    /\ heap' = Dispose(heap, b.ptr, b.size)
    /\ blocks' = blocks \ {b}

\* what a session does with the heap
TalcNext ==
    \/ \E r \in Requests : Allocate(r.size, r.align)
    \/ \E b \in blocks : Deallocate(b)

----------------------------------------------------------------------------
(* Properties.                                                             *)

RECURSIVE Nodes(_, _)
Nodes(m, node) == IF node = Null THEN {} ELSE {node} \cup Nodes(m, LinkAt(m, node))

FreeNodes == UNION {Nodes(heap.mem, LinkAt(heap.mem, BinAt(i))) : i \in 0 .. G.bins - 1}
FreeChunks == {[base |-> n, acme |-> n + SizeLow(heap.mem, n)] : n \in FreeNodes}
UsedChunks ==
    LET Tags == {TagOf(heap.mem, b.ptr, b.size) : b \in blocks} IN
    {[base |-> Offset(heap.mem[t]), acme |-> t + 1] : t \in Tags}

\* Free chunks and the chunks of the live allocations cover the heap without
\* overlap; two free chunks never touch, and a tag says whether the chunk
\* above it is free.  So whatever was split is joined again when it is freed.
HeapIsTiled == heap # Raw =>
    LET all == FreeChunks \cup UsedChunks IN
    /\ \A c \in all : MetaTag < c.base /\ c.acme <= End /\ c.acme - c.base >= MIN_CHUNK
    /\ \A c, d \in all : c # d => c.acme <= d.base \/ d.acme <= c.base
    /\ MapThenSumSet(LAMBDA c : c.acme - c.base, all) = End - (MetaTag + 1)
    /\ Cardinality(UsedChunks) = Cardinality(blocks)
    /\ \A c, d \in FreeChunks : c.acme # d.base
    /\ \A t \in {c.acme - 1 : c \in UsedChunks} \cup {MetaTag} :
        IsAllocated(heap.mem[t]) /\ (IsAboveFree(heap.mem[t]) <=> t + 1 \in FreeNodes)

\* What scan_errors asserts in debug builds, and more: each free chunk is in the
\* list of its class, with both its sizes and a link back, and the bits that
\* steer the search are those of the lists that are not empty.
ListsAreSound == heap # Raw =>
    LET m == heap.mem IN
    /\ \A i \in 0 .. G.bins - 1 :
        LET nodes == Nodes(m, LinkAt(m, BinAt(i))) IN
        /\ nodes # {} <=> i % WordBits \in heap.avails[i \div WordBits]
        /\ \A n \in nodes :
            /\ BinOf[SizeLow(m, n)] = i
            /\ m[n + SizeLow(m, n) - 1] = m[n + FREE_NODE]
            /\ LinkAt(m, PrevNext(m, n)) = n
            /\ IsAllocated(m[n - 1]) /\ IsAboveFree(m[n - 1])
    /\ \A w \in DOMAIN heap.avails : heap.avails[w] # {} <=> w \in heap.summary

\* The allocator never writes into a live allocation, and each one is aligned
\* as requested: tags, links and the pointers to tags stay out of it.
DataIsIntact ==
    \A b \in blocks :
        /\ (Origin + b.ptr) % b.align = 0
        /\ \A p \in b.ptr .. b.ptr + b.size - 1 : heap.mem[p] = Data(b.ptr)

\* The heap is tiled, its lists and bits are those of its free chunks, and the
\* data of the clients is intact, after any sequence of allocations and
\* deallocations (TalcMeta::allocate, TalcMeta::deallocate).
HeapIsSound == HeapIsTiled /\ ListsAreSound /\ DataIsIntact

\* allocate answers Exhausted only when no free chunk can hold the request:
\* the search from the class of the request upwards misses none.
ExhaustedIsTruthful == heap # Raw =>
    \A r \in Requests :
        AcquireChunk(heap, r.size, r.align) = Null <=>
            \A c \in FreeChunks : AlignUp(c.base, r.align) + ChunkSize(r.size) > c.acme

\* a search upwards from the class of a request misses no chunk of this extent
Covers(g, extent) ==
    /\ \A s \in 1 .. extent - 1 : Index(g, s) <= Index(g, s + 1)
    /\ Index(g, extent) < g.bins
=============================================================================
