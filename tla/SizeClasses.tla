------------------------------ MODULE SizeClasses ------------------------------
(***************************************************************************)
(* The size classes of heap.rs: how large a payload a request is given,    *)
(* and which free list a payload of that size is on.  The arithmetic is    *)
(* over a usize of BITS bits.  There is no state: what is said is said of  *)
(* every request that alloc.rs needed lets through.                        *)
(***************************************************************************)
EXTENDS Integers

CONSTANT BITS    \* the width of a usize

\* With fewer bits the block for a quarter of a usize would not fit in one.
ASSUME ClassAssumption == BITS \in Nat /\ BITS >= 8

GRANULE == 16  \* bytes that share a version
STEPS == 4     \* payload sizes between one power of two and the next
CLASSES == STEPS - 1 + (BITS - 2 - 1) * STEPS

\* 1 << k
bit[k \in 0..BITS] == IF k = 0 THEN 1 ELSE 2 * bit[k - 1]

MAX == bit[BITS] - 1

div_ceil(a, b) == (a + b - 1) \div b

\* layout.rs
HEADER_BYTES == 32
payload(size) == div_ceil(size, GRANULE) * GRANULE
aux(size) == div_ceil(payload(size), 8) * 16
block(size) == HEADER_BYTES + aux(size) + payload(size)

magnitude(count) == CHOOSE m \in 0..BITS - 1 : bit[m] <= count /\ count < bit[m + 1]

\* A slip: the spacing of the magnitude above.
sizedCoarse(size) ==
    LET wanted == IF size = 0 THEN GRANULE ELSE payload(size)
        count == wanted \div GRANULE
        step == bit[magnitude(count) - 1] IN
    IF count <= STEPS THEN wanted ELSE div_ceil(count, step) * step * GRANULE

\* A slip: a size that is a class size already moves to the next.
sizedPast(size) ==
    LET wanted == IF size = 0 THEN GRANULE ELSE payload(size)
        count == wanted \div GRANULE
        step == bit[magnitude(count) - 2] IN
    IF count <= STEPS THEN wanted ELSE (count \div step + 1) * step * GRANULE

\* Arena::sized
sized(size) ==
    LET wanted == IF size = 0 THEN GRANULE ELSE payload(size)
        count == wanted \div GRANULE
        step == bit[magnitude(count) - 2] IN
    IF count <= STEPS THEN wanted ELSE div_ceil(count, step) * step * GRANULE

\* A slip: the classes of a magnitude counted from one.
class_ofShifted(size) ==
    LET count == size \div GRANULE
        m == magnitude(count) IN
    IF count <= STEPS THEN count - 1
    ELSE STEPS + (m - 2) * STEPS + (count - bit[m]) \div bit[m - 2]

\* Arena::class_of, of a size that is a class size.
class_of(size) ==
    LET count == size \div GRANULE
        m == magnitude(count) IN
    IF count <= STEPS THEN count - 1
    ELSE STEPS - 1 + (m - 2) * STEPS + (count - bit[m]) \div bit[m - 2]

\* A slip: the aux is forgotten, and half of a usize let through.
RequestsHalf == 0..MAX \div 2

\* needed lets a request through that is at most a quarter of a usize.
Requests == 0..MAX \div 4

-----------------------------------------------------------------------------
(* What could go wrong with a request                                      *)

\* The request's list is not in the table, or it neither has the payload and
\* the list of the request before it nor the next payload and the next list.
OffLadder ==
    {n \in Requests :
        \/ class_of(sized(n)) \notin 0..CLASSES - 1
        \/ /\ n > 0 /\ sized(n) # sized(n - 1)
           /\ \/ sized(n) < sized(n - 1)
              \/ class_of(sized(n)) # class_of(sized(n - 1)) + 1}

\* The payload it is given is not one that is given out, or does not hold it.
Misfiled == {n \in Requests : sized(sized(n)) # sized(n) \/ sized(n) < n}

\* Its payload wastes one part in STEPS of itself on the rounding to a class,
\* or anything at all up to STEPS granules.
Wasteful ==
    {n \in Requests \ {0} :
        \/ STEPS * (sized(n) - payload(n)) >= sized(n)
        \/ payload(n) <= STEPS * GRANULE /\ sized(n) # payload(n)}

\* Its block is longer than a usize can say.
Overlong == {n \in Requests : block(sized(n)) > MAX}

=============================================================================
