------------------------------ MODULE HeapInvariant ------------------------------
(***************************************************************************)
(* The inductive invariant of Heap.  What BlocksAccounted and              *)
(* RunsAreInstances say with the lock free is true with the lock held, up  *)
(* to the one block that the holder is at; the parts below say how far it  *)
(* is with that block, who may name a block, and which instance each       *)
(* version is.                                                             *)
(***************************************************************************)
EXTENDS Heap

\* Where a thread holds the heap lock, and where it has a block in hand.
HoldPCs == {"fill_begin", "fill_end", "ended"}
EndPCs == {"end", "fill_end", "ended", "over"}

Arena == [len : Nat, next : Nat, count : Nat, free : [Sizes -> Seq(Nat)]]
Header == [ext : Sizes \cup {0}, ver : Nat, live : BOOLEAN]

Shaped ==
    /\ lock \in Threads \cup {NoThread}
    /\ watched \in 0..REGIONS
    /\ arenas \in Seq(Arena) /\ Len(arenas) <= watched
    /\ headers \in [Granules -> Header]
    /\ plane \in [Granules -> Nat] /\ epochs \in [Granules -> Nat]
    /\ pc \in [Threads -> Labels]
    /\ want \in [Threads -> Sizes \cup {0}]
    /\ at \in [Threads -> Granules \cup {<<>>}]
    /\ done \in [Threads -> Nat]
    /\ given \in [Threads -> Cap \cup {NoCap}]
    /\ got \in [Threads -> Cap \cup {NoCap}]
    /\ caps \subseteq Cap /\ freed \subseteq caps /\ twice \subseteq freed
    /\ stopped \in caps \cup {NoCap}

\* What a thread's place says of its registers and of the lock.
Posted(t) ==
    /\ lock = t <=> pc[t] \in HoldPCs
    /\ pc[t] = "run" => given[t] = NoCap
    /\ pc[t] \notin {"fill_begin", "fill_end", "over"} => done[t] = 0
    /\ pc[t] \in {"begin", "extent"} => want[t] \in Sizes
    /\ pc[t] \in {"extent"} \cup EndPCs => given[t] # NoCap
    /\ given[t] # NoCap => given[t] \in freed
    /\ pc[t] \in EndPCs => at[t] = given[t].at
    /\ pc[t] \in {"fill_begin", "begun"} \cup EndPCs => at[t] \in Placed
    /\ pc[t] \in HoldPCs => headers[at[t]].live
    /\ pc[t] \in {"fill_begin", "fill_end"} => done[t] < headers[at[t]].ext
    /\ pc[t] = "over" => want[t] = headers[at[t]].ext
    /\ pc[t] \notin EndPCs => got[t] = NoCap

Located == \A t \in Threads : Posted(t)

\* Two threads give the same away only after it was given away twice.
Paired ==
    \A t, u \in Threads :
        t # u /\ given[t] # NoCap /\ given[t] = given[u] => given[t] \in twice

\* A version without whether it is over.
number(version) == version \div 2

\* Where the block whose payload is at p starts and where it stops.
Lo(p) == p[2] - (HEADER + Aux(headers[p].ext))
Hi(p) == p[2] + headers[p].ext

\* The blocks lie between the start of an arena and its bump, apart.
Laid ==
    /\ \A a \in DOMAIN arenas :
         /\ arenas[a].len \in Lengths
         /\ arenas[a].next <= arenas[a].len
    /\ \A p \in Placed :
         /\ headers[p].ext \in Sizes
         /\ p[1] \in DOMAIN arenas
         /\ 0 <= Lo(p) /\ Hi(p) <= arenas[p[1]].next
    /\ \A p, q \in Placed : p[1] = q[1] /\ p # q => Hi(p) <= Lo(q) \/ Hi(q) <= Lo(p)

\* A free list has the blocks of its class that carry no live instance.
Lists ==
    /\ \A a \in DOMAIN arenas : \A s \in Sizes :
         LET list == arenas[a].free[s] IN
         \A i \in DOMAIN list :
            /\ <<a, list[i]>> \in Placed
            /\ headers[<<a, list[i]>>].ext = s
            /\ ~ headers[<<a, list[i]>>].live
            /\ \A j \in DOMAIN list : list[i] = list[j] => i = j
    /\ \A p \in Placed : ~ headers[p].live => Listed(p)

\* A version is its arena's own, and even while its instance lives.
Versioned ==
    /\ \A a \in DOMAIN arenas : arenas[a].count \in Nat \ {0}
    /\ \A p \in Placed :
         /\ number(headers[p].ver) \in 1..arenas[p[1]].count - 1
         /\ headers[p].live <=> headers[p].ver % 2 = 0
    /\ \A p, q \in Placed :
         p[1] = q[1] /\ number(headers[p].ver) = number(headers[q].ver) => p = q

\* The holder of the lock is at the block.
Busy(p) == \E t \in Threads : lock = t /\ at[t] = p

Spot(p, k) == <<p[1], p[2] + k>>

\* The plane says what the headers say, except where it is being filled.
Painted ==
    /\ \A p \in Placed : \A k \in 0..headers[p].ext - 1 :
         /\ ~ Busy(p) => plane[Spot(p, k)] = headers[p].ver
         /\ \A t \in Threads : at[t] = p =>
              /\ pc[t] = "fill_begin" =>
                   IF k < done[t] THEN plane[Spot(p, k)] = headers[p].ver
                                  ELSE ~ owned(plane[Spot(p, k)])
              /\ pc[t] = "fill_end" =>
                   plane[Spot(p, k)] = IF k < done[t] THEN ended(headers[p].ver)
                                                      ELSE headers[p].ver
              /\ pc[t] = "ended" => plane[Spot(p, k)] = ended(headers[p].ver)
    /\ \A g \in Granules :
         (\A p \in Placed : g \notin Payload(p, headers[p].ext)) => plane[g] = DEAD

\* The capability of what the header at p describes.
Described(p) == [at |-> p, ext |-> headers[p].ext, ver |-> headers[p].ver]

\* The instances there have been, each under a version of its own.
Borne ==
    /\ born \subseteq Cap
    /\ \A c \in born :
         /\ c.at[1] \in DOMAIN arenas
         /\ c.ver % 2 = 0 /\ number(c.ver) \in 1..arenas[c.at[1]].count - 1
    /\ \A c, d \in born : Name(c) = Name(d) => c = d
    /\ \A p \in Placed : headers[p].live /\ ~ Busy(p) => Described(p) \in born
    /\ \A t \in Threads :
         /\ pc[t] \in {"fill_end", "ended"} => Described(at[t]) \in born
         /\ pc[t] = "fill_begin" =>
              \A c \in born : Name(c) # <<at[t][1], headers[at[t]].ver>>

\* The threads an allocation of which may still count.
Pending == {t \in Threads : pc[t] \in {"begin", "extent", "fill_begin"}}

\* No more instances begin than the bound and the calls under way allow.
Counted ==
    /\ IsFiniteSet(born)
    /\ Cardinality(born) + Cardinality(Pending) <= BEGINS + Cardinality(Threads)
    /\ \A a \in DOMAIN arenas :
         arenas[a].count - 1 <=
           Cardinality(born) +
           IF \E t \in Threads : pc[t] = "fill_begin" /\ at[t][1] = a THEN 1 ELSE 0

\* What a capability says of the storage it names stays true of it.
Known ==
    \A c \in caps \cup {got[t] : t \in Threads} :
        c # NoCap =>
            /\ c.at \in Placed
            /\ headers[c.at].ext = c.ext
            /\ number(c.ver) < arenas[c.at[1]].count

\* The header still describes the instance c was handed out for.
Intact(c) == headers[c.at] = [ext |-> c.ext, ver |-> c.ver, live |-> TRUE]

\* What a thread has begun and the program does not have yet.
Own(t) == IF pc[t] \in {"fill_begin", "begun"} THEN Described(at[t]) ELSE got[t]

\* While nothing was given away twice: what the program holds, what a thread
\* was given and what it has begun are all of them intact and all different.
Kept == twice = {} =>
    /\ \A c \in caps \ freed : Intact(c)
    /\ \A t \in Threads :
         /\ given[t] # NoCap /\ pc[t] # "over" => Intact(given[t])
         /\ Own(t) # NoCap => Intact(Own(t)) /\ Own(t) \notin caps
         /\ \A u \in Threads : t # u /\ Own(t) # NoCap => Own(t) # Own(u)

HeapInv ==
    /\ Shaped /\ Located /\ Paired
    /\ Laid /\ Lists /\ Versioned /\ Painted
    /\ Borne /\ Counted /\ Known /\ Kept
    /\ NoFalseRefusal

=============================================================================
