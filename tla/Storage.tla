------------------------------ MODULE Storage ------------------------------
(***************************************************************************)
(* The geometry of a pool (pool.rs): its size classes, where the control   *)
(* words and the payloads of a class lie, how many blocks an extent holds, *)
(* and which class serves a request.  Sizes are in bytes and unbounded:    *)
(* where the code would overflow it refuses the pool.                      *)
(***************************************************************************)
EXTENDS Naturals, Sequences, FiniteSetsExt

CONSTANTS
    HeadBytes,    \* size of RcHeader<Storage>
    PoolExtents,  \* extents for which pools are created
    PoolRanges,   \* block ranges they are created with: least and greatest size
    BlockSizes,   \* sizes of the values reserved in them
    BlockAligns   \* and their alignments

MIN_BLOCK == 64
DEFAULT_MAX == 65536
CONTROL == 4             \* bytes of a control word
NoPool == [classes |-> <<>>]

Pow2(n) == 2 ^ n
Floor2(n) == CHOOSE k \in 0 .. 30 : Pow2(k) <= n /\ n < Pow2(k + 1)
NextPower(n) == IF Pow2(Floor2(n)) = n THEN n ELSE Pow2(Floor2(n) + 1)
Greater(m, n) == IF m < n THEN n ELSE m
RoundUp(n, align) == ((n + align - 1) \div align) * align

\* BlockRange::new, which refuses a range whose greatest size is less than the least
BlockRange(least, greatest) ==
    [least |-> NextPower(Greater(least, MIN_BLOCK)), greatest |-> NextPower(Greater(greatest, MIN_BLOCK))]
IsRange(r) == r.least <= r.greatest

\* Geometry::build: each class doubles the block, every second halves their number
Build(least, count, base) ==
    LET Grown[n \in 0 .. count] ==
            IF n = 0 THEN [size |-> HeadBytes, align |-> 8, classes |-> <<>>]
            ELSE LET prior == Grown[n - 1]
                     bytes == least * Pow2(n - 1)
                     slots == base \div Pow2((n - 1) \div 2)
                     controls == RoundUp(prior.size, CONTROL)
                     payload == RoundUp(controls + CONTROL * slots, bytes)
                 IN  [size |-> payload + bytes * slots, align |-> Greater(prior.align, bytes),
                      classes |-> Append(prior.classes, [bytes |-> bytes, slots |-> slots,
                                                         controls |-> controls, payload |-> payload])]
    IN  [Grown[count] EXCEPT !.size = RoundUp(@, Grown[count].align)]

\* Mutant: a pool that fills its extent is refused.
RECURSIVE LargestBaseShort(_, _, _, _, _)
LargestBaseShort(least, count, bound, low, high) ==
    LET middle == low + (high - low) \div 2 IN
    IF low + 1 >= high THEN low
    ELSE IF Build(least, count, middle).size < bound
         THEN LargestBaseShort(least, count, bound, middle, high)
         ELSE LargestBaseShort(least, count, bound, low, middle)

\* the bisection of Geometry::create: low fits, high does not
RECURSIVE LargestBase(_, _, _, _, _)
LargestBase(least, count, bound, low, high) ==
    LET middle == low + (high - low) \div 2 IN
    IF low + 1 >= high THEN low
    ELSE IF Build(least, count, middle).size <= bound
         THEN LargestBase(least, count, bound, middle, high)
         ELSE LargestBase(least, count, bound, low, middle)

\* Geometry::create: the most classes whose least number of blocks fits; a range
\* that the caller chose is not narrowed
LeastBase(count) == MIN_BLOCK * Pow2((count - 1) \div 2)
CreateGeometry(bound, range, exact) ==
    LET all == Floor2(range.greatest) - Floor2(range.least) + 1
        counts == {n \in (IF exact THEN {all} ELSE 1 .. all) :
                     Build(range.least, n, LeastBase(n)).size <= bound}
        count == Max(counts)
    IN  IF counts = {} THEN NoPool
        ELSE Build(range.least, count,
                   LargestBase(range.least, count, bound, LeastBase(count), bound \div (MIN_BLOCK + 1) + 1))

\* PoolRef::claim: the class where the search begins, and the slots it visits there
Preferred(g, size, align) ==
    Floor2(Greater(NextPower(Greater(size, align)), g.classes[1].bytes)) - Floor2(g.classes[1].bytes) + 1
Probes(g, c) ==
    LET slots == g.classes[c].slots  start == ((c - 1) * 40503) % slots IN
    {(start + probe) % slots : probe \in 0 .. slots - 1}

----------------------------------------------------------------------------
(* What the geometry promises, for the extents and ranges of the instance. *)

DefaultRange == [least |-> MIN_BLOCK, greatest |-> DEFAULT_MAX]
Created ==
    {[bound |-> b, least |-> MIN_BLOCK, g |-> CreateGeometry(b, DefaultRange, FALSE)] : b \in PoolExtents}
    \cup {[bound |-> b, least |-> r.least, g |-> CreateGeometry(b, r, TRUE)] :
            b \in PoolExtents, r \in {r \in {BlockRange(q[1], q[2]) : q \in PoolRanges} : IsRange(r)}}
Pools == {c \in Created : c.g # NoPool}

Disjoint(g) ==
    LET Areas == UNION {{<<c.controls, c.controls + CONTROL * c.slots>>,
                         <<c.payload, c.payload + c.bytes * c.slots>>} :
                         c \in {g.classes[i] : i \in DOMAIN g.classes}} \cup {<<0, HeadBytes>>}
    IN  /\ \A a \in Areas : a[2] <= g.size
        /\ \A a, b \in Areas : a # b => a[2] <= b[1] \/ b[2] <= a[1]
        /\ \A i \in DOMAIN g.classes :
            /\ g.classes[i].payload % g.classes[i].bytes = 0
            /\ g.classes[i].controls % CONTROL = 0
            /\ g.classes[i].slots > 0

Largest(c) ==
    /\ c.g.size <= c.bound
    /\ Build(c.least, Len(c.g.classes), c.g.classes[1].slots + 1).size > c.bound

Serves(g, size, align) ==
    LET fit == {i \in DOMAIN g.classes : size <= g.classes[i].bytes /\ align <= g.classes[i].bytes}
        first == Preferred(g, size, align)
    IN  /\ first > Len(g.classes) <=> fit = {}
        /\ fit # {} => first = Min(fit)
        /\ \A i \in fit : Probes(g, i) = 0 .. g.classes[i].slots - 1
=============================================================================
