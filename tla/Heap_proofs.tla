---------------------------- MODULE Heap_proofs ----------------------------
(***************************************************************************)
(* Proofs about the heap, for every page size, header size, number of      *)
(* pages and set of requests.                                              *)
(***************************************************************************)
EXTENDS Heap, FiniteSetTheorems, WellFoundedInduction, TLAPS

(* The inductive invariant, as predicates on a heap h with first block head. *)

Shaped(h) ==
    \A b \in DOMAIN h : /\ b \in Nat \ {0} /\ b % ALIGN = 0
                        /\ h[b] \in [size : Nat, free : BOOLEAN, next : Nat]
                        /\ h[b].size % ALIGN = 0
                        /\ End(h, b) <= NPAGES * PAGE_SIZE

Apart(h) == \A a, b \in DOMAIN h : a < b => End(h, a) <= b

Linked(h, head) ==
    /\ head # NULL => head \in DOMAIN h
    /\ \A a \in DOMAIN h : h[a].next # NULL => h[a].next \in DOMAIN h
    /\ \A a, b \in DOMAIN h : a # b /\ h[a].next # NULL => h[a].next # h[b].next
    /\ \A a \in DOMAIN h : h[a].next # head

\* The blocks S contain the first one and, with each block, the next.
Follows(h, head, S) ==
    /\ head # NULL => head \in S
    /\ \A a \in S : h[a].next # NULL => h[a].next \in S

\* Nothing but all blocks does: every block is on the chain.
Whole(h, head) == \A S \in SUBSET DOMAIN h : Follows(h, head, S) => S = DOMAIN h

Covers(h, x) == \E b \in DOMAIN h : b <= x /\ x < End(h, b)

InPages(P, x) == \E i \in P : i * PAGE_SIZE <= x /\ x < (i + 1) * PAGE_SIZE

HeapOK(h, head) == Shaped(h) /\ Apart(h) /\ Linked(h, head) /\ Whole(h, head)

InUse(h) == {a \in DOMAIN h : ~h[a].free}

\* A block of that size serves the request, as far as requests are served.
Enough(want, size) == want \in Unkept \/ want <= size

Held ==
    /\ DOMAIN live = {b + HEADER_SIZE : b \in InUse(hdr)}
    /\ \A p \in DOMAIN live : live[p] \in Nat /\ Enough(live[p], hdr[p - HEADER_SIZE].size)

\* What malloc knows while it walks along the chain.
CallOK ==
    /\ call \in [op : {"none", "malloc"}, size : Nat, want : Nat, cur : Nat, prev : Nat, old : Nat]
    /\ call.size < WORD
    /\ call.op = "none" => call = Idle
    /\ call.cur # NULL => call.cur \in DOMAIN hdr
    /\ call.prev # NULL => call.prev \in DOMAIN hdr
    /\ call.old # NULL => call.old \in DOMAIN live
    /\ call.op = "malloc" =>
          /\ call.size % ALIGN = 0
          /\ call.want \in Unkept \/ (call.want <= call.size /\ call.size + HEADER_SIZE + PAGE_SIZE <= WORD)
          /\ call.prev = NULL => call.cur = heap_head
          /\ call.prev # NULL => call.cur = hdr[call.prev].next

IInv ==
    /\ heap_head \in Nat
    /\ HeapOK(hdr, heap_head)
    /\ \A x \in Nat : Covers(hdr, x) <=> InPages(pages, x)
    /\ pages \subseteq Page /\ others \subseteq Page /\ 0 \in others /\ pages \cap others = {}
    /\ Held
    /\ CallOK

\* It holds until a program's heap goes astray.
HeapInv ==
    /\ owner \in {"kernel", "program", "ended", "astray"}
    /\ owner # "astray" => IInv
----------------------------------------------------------------------------
(* Arithmetic. *)

LEMMA Sizes ==
    /\ HEADER_SIZE \in Nat \ {0} /\ PAGE_SIZE \in Nat \ {0} /\ WORD \in Nat \ {0} /\ NPAGES \in Nat \ {0}
    /\ HEADER_SIZE % 4 = 0 /\ PAGE_SIZE % 4 = 0 /\ WORD % 4 = 0
    /\ HEADER_SIZE >= 4 /\ PAGE_SIZE >= 8 /\ HEADER_SIZE < PAGE_SIZE
    /\ NPAGES * PAGE_SIZE \in Nat \ {0} /\ NPAGES * PAGE_SIZE < WORD
    /\ ALIGN = 4 /\ NULL = 0
<1>1. NPAGES * PAGE_SIZE \in Nat \ {0}
  BY SizesAssumption
<1> QED BY <1>1, SizesAssumption DEF ALIGN, NULL

LEMMA Cancel ==
    ASSUME NEW i \in Nat, NEW j \in Nat
    PROVE  /\ i * PAGE_SIZE \in Nat
           /\ i * PAGE_SIZE < j * PAGE_SIZE => i < j
           /\ i <= j => i * PAGE_SIZE <= j * PAGE_SIZE
           /\ (i + 1) * PAGE_SIZE = i * PAGE_SIZE + PAGE_SIZE
           /\ (i + j) * PAGE_SIZE = i * PAGE_SIZE + j * PAGE_SIZE
BY Sizes

\* Rounding up on a size_t.
LEMMA RoundType ==
    ASSUME NEW n \in Nat
    PROVE  Round(n) \in Nat /\ Round(n) < WORD /\ Round(n) % 4 = 0
<1> DEFINE m == (n + ALIGN - 1) % WORD
<1>1. m \in Nat /\ m < WORD
  BY Sizes
<1>2. Round(n) = m - (m % 4)
  BY Sizes DEF Round
<1> HIDE DEF m
<1> QED BY <1>1, <1>2, Sizes

\* Rounding up where it does not wrap.
LEMMA RoundFacts ==
    ASSUME NEW n \in Nat, n # 0, n + 3 < WORD
    PROVE  /\ Round(n) \in Nat /\ Round(n) % 4 = 0
           /\ n <= Round(n) /\ Round(n) <= n + 3
           /\ n % 4 = 0 => Round(n) = n
<1>1. (n + 4 - 1) % WORD = n + 3
  BY Sizes
<1> QED BY <1>1, Sizes DEF Round

LEMMA RunType == ASSUME NEW n \in Nat PROVE PagesNeeded(n) \in Nat
<1> DEFINE m == (n + HEADER_SIZE + PAGE_SIZE - 1) % WORD
<1>1. m \in Nat
  BY Sizes
<1> HIDE DEF m
<1>2. m \div PAGE_SIZE \in Nat
  BY <1>1, Sizes
<1> QED BY <1>2 DEF PagesNeeded, m

LEMMA RunLength ==
    ASSUME NEW n \in Nat, n + HEADER_SIZE + PAGE_SIZE <= WORD
    PROVE  n + HEADER_SIZE <= PagesNeeded(n) * PAGE_SIZE
<1> DEFINE m == n + HEADER_SIZE + PAGE_SIZE - 1
<1>1. m \in Nat /\ m % WORD = m
  BY Sizes
<1>2. PagesNeeded(n) = m \div PAGE_SIZE
  BY <1>1 DEF PagesNeeded
<1> HIDE DEF m
<1>3. /\ m \div PAGE_SIZE \in Nat
      /\ m < (m \div PAGE_SIZE) * PAGE_SIZE + PAGE_SIZE
  BY <1>1, Sizes
<1>4. n + HEADER_SIZE <= (m \div PAGE_SIZE) * PAGE_SIZE
  BY <1>1, <1>3, Sizes, Cancel DEF m
<1> QED BY <1>2, <1>4

\* Each byte below n pages is in one of them.
LEMMA PageOf ==
    ASSUME NEW x \in Nat, NEW n \in Nat, x < n * PAGE_SIZE
    PROVE  \E k \in 0 .. n - 1 : k * PAGE_SIZE <= x /\ x < (k + 1) * PAGE_SIZE
<1> DEFINE k == x \div PAGE_SIZE
<1>1. k \in Nat /\ k * PAGE_SIZE <= x /\ x < k * PAGE_SIZE + PAGE_SIZE
  BY Sizes
<1> HIDE DEF k
<1>2. k < n
  BY <1>1, Cancel
<1> QED BY <1>1, <1>2, Cancel

LEMMA PageAligned ==
    ASSUME NEW i \in Nat
    PROVE  (i * PAGE_SIZE) % 4 = 0
<1>1. PICK k \in Nat : PAGE_SIZE = 4 * k
  <2>1. PAGE_SIZE = 4 * (PAGE_SIZE \div 4) /\ PAGE_SIZE \div 4 \in Nat
    BY Sizes
  <2> QED BY <2>1
<1>2. i * PAGE_SIZE = 4 * (i * k) /\ i * k \in Nat
  BY <1>1
<1>3. \A y \in Nat : (4 * y) % 4 = 0
  OBVIOUS
<1> QED BY <1>2, <1>3

\* calloc's test that the product did not wrap.
LEMMA ProductFits ==
    ASSUME NEW m \in Nat \ {0}, NEW n \in Nat, Survives(m, n)
    PROVE  m * n = (m * n) % WORD
<1> DEFINE r == (m * n) % WORD
<1>1. m * n \in Nat /\ r \in Nat /\ r <= m * n
  <2> DEFINE k == m * n
  <2>1. k \in Nat
    OBVIOUS
  <2> HIDE DEF k
  <2>2. k % WORD \in Nat /\ k % WORD <= k
    BY <2>1, Sizes
  <2> QED BY <2>1, <2>2 DEF k
<1>2. r \div m = n
  BY DEF Survives
<1> HIDE DEF r
<1>3. m * (r \div m) <= r
  BY <1>1
<1> QED BY <1>1, <1>2, <1>3 DEF r
----------------------------------------------------------------------------
(* The operations on the chain of blocks. *)

LEMMA HeaderType ==
    ASSUME NEW x \in Nat, NEW v \in BOOLEAN, NEW y \in Nat
    PROVE  /\ [size |-> x, free |-> v, next |-> y] \in [size : Nat, free : BOOLEAN, next : Nat]
           /\ [size |-> x, free |-> v, next |-> y].size = x
OBVIOUS

LEMMA BlockFacts ==
    ASSUME NEW h, Shaped(h), NEW a \in DOMAIN h
    PROVE  /\ a \in Nat \ {0} /\ a % 4 = 0 /\ h[a].size \in Nat /\ h[a].size % 4 = 0
           /\ h[a].next \in Nat /\ h[a].free \in BOOLEAN
           /\ h[a] = [size |-> h[a].size, free |-> h[a].free, next |-> h[a].next]
           /\ End(h, a) \in Nat /\ End(h, a) = a + HEADER_SIZE + h[a].size /\ a < End(h, a)
           /\ End(h, a) <= NPAGES * PAGE_SIZE
<1>1. /\ a \in Nat \ {0} /\ a % 4 = 0 /\ End(h, a) <= NPAGES * PAGE_SIZE
      /\ h[a] \in [size : Nat, free : BOOLEAN, next : Nat] /\ h[a].size % 4 = 0
  BY Sizes DEF Shaped
<1>2. h[a] = [size |-> h[a].size, free |-> h[a].free, next |-> h[a].next]
  BY <1>1
<1> QED BY <1>1, <1>2, Sizes DEF End

\* A block that malloc takes: its size and the bytes of the heap after it.
Took(h, g, b, n) ==
    /\ b \in DOMAIN g /\ InUse(g) = InUse(h) \cup {b}
    /\ n <= g[b].size
    /\ \A a \in InUse(h) : g[a].size = h[a].size
    /\ \A x \in Nat : Covers(g, x) <=> Covers(h, x)

\* A change of the mark alone.
LEMMA Remarked ==
    ASSUME NEW h, NEW head \in Nat, HeapOK(h, head), NEW b \in DOMAIN h, NEW v \in BOOLEAN, NEW g,
           DOMAIN g = DOMAIN h, \A a \in DOMAIN h \ {b} : g[a] = h[a],
           g[b] = [size |-> h[b].size, free |-> v, next |-> h[b].next]
    PROVE  /\ HeapOK(g, head)
           /\ InUse(g) = IF v THEN InUse(h) \ {b} ELSE InUse(h) \cup {b}
           /\ \A a \in DOMAIN h : g[a].size = h[a].size
           /\ \A x \in Nat : Covers(g, x) <=> Covers(h, x)
<1>1. /\ g[b] \in [size : Nat, free : BOOLEAN, next : Nat]
      /\ g[b].size = h[b].size /\ g[b].next = h[b].next /\ g[b].free = v
  BY HeaderType, BlockFacts DEF HeapOK
<1>2. \A a \in DOMAIN h : g[a].size = h[a].size /\ g[a].next = h[a].next /\ End(g, a) = End(h, a)
  BY <1>1 DEF End
<1>3. Shaped(g)
  BY <1>1, <1>2 DEF HeapOK, Shaped
<1>4. Apart(g) /\ Linked(g, head) /\ Whole(g, head)
  BY <1>2 DEF HeapOK, Apart, Linked, Whole, Follows
<1>5. InUse(g) = IF v THEN InUse(h) \ {b} ELSE InUse(h) \cup {b}
  <2>1. CASE v
    BY <1>1, <2>1 DEF InUse
  <2>2. CASE ~v
    BY <1>1, <2>2 DEF InUse
  <2> QED BY <2>1, <2>2
<1>6. \A x \in Nat : Covers(g, x) <=> Covers(h, x)
  BY <1>2 DEF Covers
<1> QED BY <1>2, <1>3, <1>4, <1>5, <1>6 DEF HeapOK

\* Carving the first bytes off a free block keeps the heap sound.
LEMMA CarveOK ==
    ASSUME NEW h, NEW head \in Nat, HeapOK(h, head), NEW b \in DOMAIN h, NEW n \in Nat,
           n % 4 = 0, FitsIn(h, b, n)
    PROVE  HeapOK(Carve(h, b, n), head) /\ Took(h, Carve(h, b, n), b, n)
<1> DEFINE g == Carve(h, b, n)
           s == b + HEADER_SIZE + n
<1>2. /\ b \in Nat \ {0} /\ b % 4 = 0 /\ h[b].size \in Nat /\ h[b].size % 4 = 0
      /\ h[b].next \in Nat /\ End(h, b) = b + HEADER_SIZE + h[b].size
      /\ End(h, b) \in Nat /\ End(h, b) <= NPAGES * PAGE_SIZE
  BY BlockFacts DEF HeapOK
<1>3. h[b].free /\ h[b].size >= n
  BY DEF FitsIn
<1>1. (n + HEADER_SIZE + 4) % WORD = n + HEADER_SIZE + 4
  <2>1. b >= 4 /\ n + HEADER_SIZE + 4 <= End(h, b)
    BY <1>2, <1>3, Sizes
  <2> QED BY <1>2, <2>1, Sizes
<1>4. \A e \in DOMAIN h : e \in Nat /\ End(h, e) \in Nat /\ e < End(h, e)
  BY BlockFacts DEF HeapOK
<1>5. CASE h[b].size >= n + HEADER_SIZE + 4
  <2> DEFINE left  == h[b].size - n - HEADER_SIZE
             rest  == [size |-> left, free |-> TRUE, next |-> h[b].next]
             first == [size |-> n, free |-> FALSE, next |-> s]
  <2>1. /\ s \in Nat \ {0} /\ s # b /\ b < s /\ s < End(h, b) /\ s % 4 = 0
        /\ s = b + HEADER_SIZE + n
        /\ left \in Nat \ {0} /\ left % 4 = 0 /\ s + HEADER_SIZE + left = End(h, b)
    BY <1>2, <1>5, Sizes
  <2>2. s \notin DOMAIN h
    <3>1. SUFFICES ASSUME s \in DOMAIN h PROVE End(h, b) <= s
      BY <1>2, <2>1
    <3> QED BY <2>1, <3>1 DEF HeapOK, Apart
  <2>3. g = [With(h, s, rest) EXCEPT ![b] = first]
    BY <1>1, <1>5 DEF Carve
  <2> HIDE DEF g, s, left
  <2>4. DOMAIN g = DOMAIN h \cup {s} /\ \A a \in DOMAIN h \ {b} : g[a] = h[a]
    BY <2>1, <2>2, <2>3 DEF With
  <2>5. g[b] = first /\ g[s] = rest
    BY <2>1, <2>2, <2>3 DEF With
  <2>6. g[b].size = n /\ g[b].next = s /\ g[s].size = left /\ g[s].next = h[b].next
    BY <2>5
  <2>7. ~g[b].free /\ g[s].free
    BY <2>5
  <2>8. /\ g[b] \in [size : Nat, free : BOOLEAN, next : Nat]
        /\ g[s] \in [size : Nat, free : BOOLEAN, next : Nat]
    BY <1>2, <2>1, <2>5, HeaderType
  <2> HIDE DEF first, rest
  <2>9. /\ End(g, b) = s /\ End(g, s) = End(h, b)
        /\ \A a \in DOMAIN h \ {b} : End(g, a) = End(h, a)
    BY <1>2, <2>1, <2>4, <2>6, Sizes DEF End
  <2>10. Shaped(g)
    <3>1. SUFFICES ASSUME NEW a \in DOMAIN g
                   PROVE  /\ a \in Nat \ {0} /\ a % 4 = 0
                          /\ g[a] \in [size : Nat, free : BOOLEAN, next : Nat]
                          /\ g[a].size % 4 = 0 /\ End(g, a) <= NPAGES * PAGE_SIZE
      BY Sizes DEF Shaped
    <3>2. CASE a = b
      BY <1>2, <2>1, <2>6, <2>8, <2>9, <3>2, Sizes
    <3>3. CASE a = s
      BY <1>2, <2>1, <2>6, <2>8, <2>9, <3>3
    <3>4. CASE a \in DOMAIN h \ {b}
      BY <2>4, <2>9, <3>4, BlockFacts DEF HeapOK, Shaped
    <3> QED BY <2>4, <3>2, <3>3, <3>4
  <2>11. Apart(g)
    <3>1. SUFFICES ASSUME NEW a \in DOMAIN g, NEW c \in DOMAIN g, a < c PROVE End(g, a) <= c
      BY DEF Apart
    <3>2. CASE a = s
      <4>1. c \in DOMAIN h /\ b < c
        BY <1>2, <1>4, <2>1, <2>4, <3>1, <3>2
      <4> QED BY <2>9, <3>2, <4>1 DEF HeapOK, Apart
    <3>3. CASE a = b
      <4>1. CASE c = s
        BY <2>1, <2>9, <3>3, <4>1
      <4>2. CASE c \in DOMAIN h
        <5>1. End(h, b) <= c /\ c \in Nat
          BY <1>4, <3>1, <3>3, <4>2 DEF HeapOK, Apart
        <5> QED BY <1>2, <2>1, <2>9, <3>3, <5>1
      <4> QED BY <2>4, <4>1, <4>2
    <3>4. CASE a \in DOMAIN h \ {b} /\ c \in DOMAIN h
      BY <2>9, <3>1, <3>4 DEF HeapOK, Apart
    <3>5. CASE a \in DOMAIN h \ {b} /\ c = s
      <4>1. a < b
        <5>1. SUFFICES ASSUME b < a PROVE FALSE
          BY <1>2, <1>4, <3>5
        <5>2. End(h, b) <= a
          BY <3>5, <5>1 DEF HeapOK, Apart
        <5> QED BY <1>2, <1>4, <2>1, <3>1, <3>5, <5>2
      <4>2. End(h, a) <= b
        BY <3>5, <4>1 DEF HeapOK, Apart
      <4> QED BY <1>2, <1>4, <2>1, <2>9, <3>5, <4>2
    <3> QED BY <2>4, <3>2, <3>3, <3>4, <3>5
  <2>12. Linked(g, head)
    BY <1>2, <2>1, <2>2, <2>4, <2>6, Sizes DEF HeapOK, Linked
  <2>13. InUse(g) = InUse(h) \cup {b}
    BY <1>3, <2>2, <2>4, <2>7 DEF InUse
  <2>14. \A x \in Nat : Covers(g, x) <=> Covers(h, x)
    <3> TAKE x \in Nat
    <3>1. ASSUME Covers(g, x) PROVE Covers(h, x)
      <4>1. PICK a \in DOMAIN g : a <= x /\ x < End(g, a)
        BY <3>1 DEF Covers
      <4>2. CASE a \in {b, s}
        <5>1. b <= x /\ x < End(h, b)
          BY <1>2, <2>1, <2>9, <4>1, <4>2
        <5> QED BY <5>1 DEF Covers
      <4>3. CASE a \notin {b, s}
        BY <2>4, <2>9, <4>1, <4>3 DEF Covers
      <4> QED BY <4>2, <4>3
    <3>2. ASSUME Covers(h, x) PROVE Covers(g, x)
      BY <1>2, <2>1, <2>4, <2>9, <3>2 DEF Covers
    <3> QED BY <3>1, <3>2
  <2>15. \A a \in InUse(h) : g[a].size = h[a].size
    BY <1>3, <2>4 DEF InUse
  <2>16. Whole(g, head)
    <3> SUFFICES ASSUME NEW S \in SUBSET DOMAIN g, Follows(g, head, S) PROVE S = DOMAIN g
      BY DEF Whole
    <3>1. \A a \in S \ {s} : h[a].next # NULL => h[a].next \in S \ {s}
      <4> SUFFICES ASSUME NEW a \in S \ {s}, h[a].next # NULL PROVE h[a].next \in S \ {s}
        OBVIOUS
      <4>1. a \in DOMAIN h /\ h[a].next \in DOMAIN h
        BY <2>4 DEF HeapOK, Linked
      <4>2. CASE a = b
        <5>1. s \in S
          BY <2>1, <2>6, <4>2, Sizes DEF Follows
        <5>2. h[b].next \in S
          BY <2>6, <4>2, <5>1 DEF Follows
        <5> QED BY <2>2, <4>1, <4>2, <5>2
      <4>3. CASE a # b
        BY <2>2, <2>4, <4>1, <4>3 DEF Follows
      <4> QED BY <4>2, <4>3
    <3>2. Follows(h, head, S \ {s})
      BY <2>2, <3>1 DEF Follows, HeapOK, Linked
    <3>3. S \ {s} = DOMAIN h
      BY <2>4, <3>2 DEF HeapOK, Whole
    <3>4. s \in S
      BY <2>1, <2>6, <3>3, Sizes DEF Follows
    <3> QED BY <2>4, <3>3, <3>4
  <2> QED BY <2>4, <2>6, <2>10, <2>11, <2>12, <2>13, <2>14, <2>15, <2>16 DEF HeapOK, Took, g
<1>6. CASE ~(h[b].size >= n + HEADER_SIZE + 4)
  <2>1. g = [h EXCEPT ![b].free = FALSE]
    BY <1>1, <1>6 DEF Carve
  <2> HIDE DEF g
  <2>2. DOMAIN g = DOMAIN h /\ \A a \in DOMAIN h \ {b} : g[a] = h[a]
    BY <2>1
  <2>3. g[b] = [size |-> h[b].size, free |-> FALSE, next |-> h[b].next]
    <3>1. g[b] = [h[b] EXCEPT !.free = FALSE]
      BY <2>1
    <3>2. h[b] = [size |-> h[b].size, free |-> h[b].free, next |-> h[b].next]
      BY BlockFacts DEF HeapOK
    <3> QED BY <3>1, <3>2
  <2>4. /\ HeapOK(g, head)
        /\ InUse(g) = IF FALSE THEN InUse(h) \ {b} ELSE InUse(h) \cup {b}
        /\ \A a \in DOMAIN h : g[a].size = h[a].size
        /\ \A x \in Nat : Covers(g, x) <=> Covers(h, x)
    BY <2>2, <2>3, Remarked, Zenon
  <2>5. n <= g[b].size /\ \A a \in InUse(h) : g[a].size = h[a].size
    BY <1>3, <2>4 DEF InUse
  <2> QED BY <2>2, <2>4, <2>5 DEF Took, g
<1> QED BY <1>2, <1>5, <1>6, Sizes

\* Freeing a block keeps the heap sound, whether or not it absorbs the next.
LEMMA FreeOK ==
    ASSUME NEW h, NEW head \in Nat, HeapOK(h, head), NEW b \in InUse(h)
    PROVE  /\ HeapOK(kfree(h, b), head)
           /\ InUse(kfree(h, b)) = InUse(h) \ {b}
           /\ \A a \in InUse(h) \ {b} : kfree(h, b)[a].size = h[a].size
           /\ \A x \in Nat : Covers(kfree(h, b), x) <=> Covers(h, x)
<1> DEFINE g == kfree(h, b)
           n == h[b].next
<1>1. b \in DOMAIN h /\ ~h[b].free /\ b \in Nat \ {0} /\ h[b].size \in Nat /\ n \in Nat
  BY DEF InUse, HeapOK, Shaped
<1>2. CASE Coalesces(h, b)
  <2>1. n \in DOMAIN h /\ h[n].free /\ End(h, b) = n /\ n # NULL
    BY <1>1, <1>2 DEF Coalesces, HeapOK, Linked
  <2>2. /\ n \in Nat \ {0} /\ h[n].size \in Nat /\ h[n].size % 4 = 0 /\ h[n].next \in Nat
        /\ End(h, n) \in Nat /\ End(h, n) = n + HEADER_SIZE + h[n].size /\ n < End(h, n)
        /\ End(h, n) <= NPAGES * PAGE_SIZE
    BY <2>1, BlockFacts DEF HeapOK
  <2>3. /\ b \in Nat /\ b % 4 = 0 /\ h[b].size % 4 = 0 /\ End(h, b) = b + HEADER_SIZE + h[b].size /\ b < n /\ b # n
    BY <1>1, <2>1, BlockFacts DEF HeapOK
  <2> DEFINE total == h[b].size + HEADER_SIZE + h[n].size
             both  == [size |-> total, free |-> TRUE, next |-> h[n].next]
  <2>4. g = [Without(h, n) EXCEPT ![b] = both]
    BY <1>1, <1>2, <2>1, <2>3 DEF kfree, Without
  <2>5. total \in Nat \ {0} /\ total % 4 = 0 /\ b + HEADER_SIZE + total = End(h, n)
    BY <1>1, <2>1, <2>2, <2>3, Sizes
  <2> HIDE DEF g, total
  <2>6. DOMAIN g = DOMAIN h \ {n} /\ \A a \in DOMAIN h \ {n, b} : g[a] = h[a]
    BY <1>1, <2>3, <2>4 DEF Without
  <2>7. g[b] = both
    BY <1>1, <2>3, <2>4 DEF Without
  <2>8. g[b].size = total /\ g[b].next = h[n].next
    BY <2>7
  <2>9. g[b].free
    BY <2>7
  <2>10. g[b] \in [size : Nat, free : BOOLEAN, next : Nat]
    BY <2>2, <2>5, <2>7, HeaderType
  <2> HIDE DEF both
  <2>11. End(g, b) = End(h, n) /\ \A a \in DOMAIN h \ {n, b} : End(g, a) = End(h, a)
    BY <2>5, <2>6, <2>8 DEF End
  <2>12. Shaped(g)
    <3>1. SUFFICES ASSUME NEW a \in DOMAIN g
                   PROVE  /\ a \in Nat \ {0} /\ a % 4 = 0
                          /\ g[a] \in [size : Nat, free : BOOLEAN, next : Nat]
                          /\ g[a].size % 4 = 0 /\ End(g, a) <= NPAGES * PAGE_SIZE
      BY Sizes DEF Shaped
    <3>2. CASE a = b
      BY <1>1, <2>2, <2>3, <2>5, <2>8, <2>10, <2>11, <3>2
    <3>3. CASE a # b
      BY <2>6, <2>11, <3>1, <3>3, BlockFacts DEF HeapOK, Shaped
    <3> QED BY <3>2, <3>3
  <2>13. Apart(g)
    <3>1. SUFFICES ASSUME NEW a \in DOMAIN g, NEW c \in DOMAIN g, a < c PROVE End(g, a) <= c
      BY DEF Apart
    <3>2. a \in DOMAIN h /\ c \in DOMAIN h /\ c # n /\ c \in Nat
      BY <2>6, BlockFacts DEF HeapOK
    <3>3. CASE a = b
      <4>1. n <= c
        BY <2>1, <3>1, <3>2, <3>3 DEF HeapOK, Apart
      <4>2. n < c
        BY <2>2, <3>2, <4>1
      <4> QED BY <2>1, <2>11, <3>2, <3>3, <4>2 DEF HeapOK, Apart
    <3>4. CASE a # b
      BY <2>6, <2>11, <3>1, <3>2, <3>4 DEF HeapOK, Apart
    <3> QED BY <3>3, <3>4
  <2>14. Linked(g, head)
    <3>1. h[n].next # n /\ head # n /\ \A a \in DOMAIN h \ {b} : h[a].next # n
      BY <1>1, <2>1, <2>3, Sizes DEF HeapOK, Linked
    <3>2. \A a \in DOMAIN h \ {n} : h[n].next # NULL => h[a].next # h[n].next
      BY <2>1 DEF HeapOK, Linked
    <3> QED BY <1>1, <2>1, <2>6, <2>8, <3>1, <3>2 DEF HeapOK, Linked
  <2>15. InUse(g) = InUse(h) \ {b}
    BY <1>1, <2>1, <2>6, <2>9 DEF InUse
  <2>16. \A x \in Nat : Covers(g, x) <=> Covers(h, x)
    <3> TAKE x \in Nat
    <3>1. ASSUME Covers(g, x) PROVE Covers(h, x)
      <4>1. PICK a \in DOMAIN g : a <= x /\ x < End(g, a)
        BY <3>1 DEF Covers
      <4>2. CASE a = b
        BY <1>1, <2>1, <2>2, <2>3, <2>11, <4>1, <4>2 DEF Covers
      <4>3. CASE a # b
        BY <2>6, <2>11, <4>1, <4>3 DEF Covers
      <4> QED BY <4>2, <4>3
    <3>2. ASSUME Covers(h, x) PROVE Covers(g, x)
      <4>1. PICK a \in DOMAIN h : a <= x /\ x < End(h, a)
        BY <3>2 DEF Covers
      <4>2. CASE a \in {b, n}
        <5>1. b <= x /\ x < End(g, b)
          <6> HIDE DEF n
          <6>0. b \in Nat /\ n \in Nat /\ End(h, n) \in Nat /\ b < n /\ n < End(h, n)
            BY <2>2, <2>3
          <6>1. CASE a = b
            <7>1. b <= x /\ x < n
              BY <2>1, <4>1, <6>1
            <7> QED BY <2>11, <6>0, <7>1
          <6>2. CASE a = n
            <7>1. n <= x /\ x < End(h, n)
              BY <4>1, <6>2
            <7> QED BY <2>11, <6>0, <7>1
          <6> QED BY <4>2, <6>1, <6>2
        <5> QED BY <1>1, <2>3, <2>6, <5>1 DEF Covers
      <4>3. CASE a \notin {b, n}
        BY <2>6, <2>11, <4>1, <4>3 DEF Covers
      <4> QED BY <4>2, <4>3
    <3> QED BY <3>1, <3>2
  <2>17. \A a \in InUse(h) \ {b} : g[a].size = h[a].size
    BY <2>1, <2>6 DEF InUse
  <2>18. Whole(g, head)
    <3> SUFFICES ASSUME NEW S \in SUBSET DOMAIN g, Follows(g, head, S) PROVE S = DOMAIN g
      BY DEF Whole
    <3> DEFINE T == IF b \in S THEN S \cup {n} ELSE S
    <3>1. head # NULL => head \in T
      BY DEF Follows
    <3>2. ASSUME NEW a \in T, h[a].next # NULL PROVE h[a].next \in T
      <4>1. CASE a = b
        BY <3>2, <4>1
      <4>2. CASE a = n
        <5>1. b \in S
          BY <2>6, <3>2, <4>2
        <5> QED BY <2>8, <3>2, <4>2, <5>1 DEF Follows
      <4>3. CASE a \notin {b, n}
        <5>1. a \in S /\ g[a] = h[a]
          BY <2>6, <3>2, <4>3
        <5> QED BY <3>2, <5>1 DEF Follows
      <4> QED BY <4>1, <4>2, <4>3
    <3>3. T \in SUBSET DOMAIN h
      BY <2>1, <2>6
    <3> HIDE DEF T
    <3>4. T = DOMAIN h
      BY <3>1, <3>2, <3>3 DEF HeapOK, Whole, Follows
    <3> QED BY <2>1, <2>6, <3>4 DEF T
  <2> QED BY <2>12, <2>13, <2>14, <2>15, <2>16, <2>17, <2>18 DEF HeapOK, g
<1>3. CASE ~Coalesces(h, b)
  <2>1. g = [h EXCEPT ![b].free = TRUE]
    BY <1>3 DEF kfree
  <2>2. b \in DOMAIN h
    BY <1>1
  <2> HIDE DEF g, n
  <2>3. DOMAIN g = DOMAIN h /\ \A a \in DOMAIN h \ {b} : g[a] = h[a]
    BY <2>1
  <2>4. g[b] = [size |-> h[b].size, free |-> TRUE, next |-> h[b].next]
    <3>1. g[b] = [h[b] EXCEPT !.free = TRUE]
      BY <2>1, <2>2
    <3>2. h[b] = [size |-> h[b].size, free |-> h[b].free, next |-> h[b].next]
      BY <2>2, BlockFacts DEF HeapOK
    <3> QED BY <3>1, <3>2
  <2>5. /\ HeapOK(g, head)
        /\ InUse(g) = IF TRUE THEN InUse(h) \ {b} ELSE InUse(h) \cup {b}
        /\ \A a \in DOMAIN h : g[a].size = h[a].size
        /\ \A x \in Nat : Covers(g, x) <=> Covers(h, x)
    BY <2>2, <2>3, <2>4, Remarked, Zenon
  <2> QED BY <2>5 DEF g, InUse
<1> QED BY <1>2, <1>3

\* The heap h with a new block of n pages at page i, linked behind block prev.
Appended(h, head, prev, i, n) ==
    LET b == i * PAGE_SIZE
        g == With(h, b, [size |-> n * PAGE_SIZE - HEADER_SIZE, free |-> FALSE, next |-> NULL])
    IN  IF head = NULL THEN g ELSE [g EXCEPT ![prev].next = b]

\* Pages that the heap did not have hold no part of a block.
LEMMA NewPagesApart ==
    ASSUME NEW h, Shaped(h), NEW P \in SUBSET Nat, \A x \in Nat : Covers(h, x) <=> InPages(P, x),
           NEW i \in Nat, NEW n \in Nat \ {0}, Run(i, n) \cap P = {}, NEW a \in DOMAIN h
    PROVE  End(h, a) <= i * PAGE_SIZE \/ (i + n) * PAGE_SIZE <= a
<1> DEFINE lo == i * PAGE_SIZE
           hi == (i + n) * PAGE_SIZE
           x  == IF a < lo THEN lo ELSE a
<1>1. lo \in Nat /\ hi \in Nat /\ a \in Nat /\ End(h, a) \in Nat /\ a < End(h, a)
  <2>1. i + n \in Nat
    OBVIOUS
  <2> QED BY <2>1, Cancel, BlockFacts
<1>2. lo < hi
  <2>1. hi = lo + n * PAGE_SIZE /\ 1 * PAGE_SIZE <= n * PAGE_SIZE
    BY Cancel
  <2> QED BY <1>1, <2>1, Sizes, Cancel
<1> HIDE DEF lo, hi
<1>3. SUFFICES ASSUME lo < End(h, a), a < hi PROVE FALSE
  BY <1>1 DEF lo, hi
<1>4. x \in Nat /\ lo <= x /\ x < hi /\ a <= x /\ x < End(h, a)
  BY <1>1, <1>2, <1>3
<1> HIDE DEF x
<1>5. PICK j \in P : j * PAGE_SIZE <= x /\ x < (j + 1) * PAGE_SIZE
  BY <1>4 DEF Covers, InPages
<1>6. j \in Nat /\ j * PAGE_SIZE < (i + n) * PAGE_SIZE /\ i * PAGE_SIZE < (j + 1) * PAGE_SIZE
  <2>1. j \in Nat /\ j * PAGE_SIZE \in Nat /\ (j + 1) * PAGE_SIZE \in Nat
    BY Cancel
  <2>2. j * PAGE_SIZE < hi /\ lo < (j + 1) * PAGE_SIZE
    BY <1>1, <1>4, <1>5, <2>1
  <2> QED BY <2>1, <2>2 DEF lo, hi
<1>7. j < i + n /\ i < j + 1
  <2>1. j < i + n
    BY <1>6, Cancel
  <2>2. j + 1 \in Nat /\ i < j + 1
    BY <1>6, Cancel
  <2> QED BY <2>1, <2>2
<1> QED BY <1>6, <1>7 DEF Run

LEMMA AppendOK ==
    ASSUME NEW h, NEW head \in Nat, HeapOK(h, head),
           NEW P \in SUBSET Nat, \A x \in Nat : Covers(h, x) <=> InPages(P, x),
           NEW i \in Nat \ {0}, NEW n \in Nat \ {0}, Run(i, n) \cap P = {}, i + n <= NPAGES,
           NEW prev \in Nat, head # NULL => prev \in DOMAIN h /\ h[prev].next = NULL
    PROVE  LET b == i * PAGE_SIZE
               g == Appended(h, head, prev, i, n)
           IN  /\ HeapOK(g, IF head = NULL THEN b ELSE head)
               /\ b \in DOMAIN g /\ b \notin DOMAIN h /\ InUse(g) = InUse(h) \cup {b}
               /\ g[b].size = n * PAGE_SIZE - HEADER_SIZE
               /\ \A a \in InUse(h) : g[a].size = h[a].size
               /\ \A x \in Nat : Covers(g, x) <=> InPages(P \cup Run(i, n), x)
<1> DEFINE b == i * PAGE_SIZE
           e == (i + n) * PAGE_SIZE
           z == n * PAGE_SIZE - HEADER_SIZE
           header == [size |-> z, free |-> FALSE, next |-> NULL]
           g == Appended(h, head, prev, i, n)
           top == IF head = NULL THEN b ELSE head
<1>1. /\ b \in Nat \ {0} /\ b % 4 = 0 /\ z \in Nat \ {0} /\ z % 4 = 0
      /\ e \in Nat /\ e = b + HEADER_SIZE + z /\ b < e /\ e <= NPAGES * PAGE_SIZE
  <2>1. /\ b \in Nat /\ n * PAGE_SIZE \in Nat /\ e \in Nat /\ e = b + n * PAGE_SIZE
        /\ 1 * PAGE_SIZE <= b /\ 1 * PAGE_SIZE <= n * PAGE_SIZE /\ e <= NPAGES * PAGE_SIZE
    <3>1. i + n \in Nat /\ 1 <= i /\ 1 <= n /\ NPAGES \in Nat
      BY Sizes
    <3> QED BY <3>1, Cancel
  <2>2. b % 4 = 0 /\ (n * PAGE_SIZE) % 4 = 0
    BY PageAligned
  <2> DEFINE m == n * PAGE_SIZE
  <2>3. m \in Nat /\ m % 4 = 0 /\ PAGE_SIZE <= m
    BY <2>1, <2>2, Sizes
  <2> HIDE DEF m
  <2>4. m - HEADER_SIZE \in Nat \ {0} /\ (m - HEADER_SIZE) % 4 = 0
    BY <2>3, Sizes
  <2> QED BY <2>1, <2>2, <2>4, Sizes DEF m
<1>2. \A a \in DOMAIN h : /\ a \in Nat \ {0} /\ a % 4 = 0 /\ End(h, a) \in Nat /\ a < End(h, a)
                          /\ End(h, a) <= b \/ e <= a
  BY BlockFacts, NewPagesApart DEF HeapOK
<1>3. g = IF head = NULL THEN With(h, b, header) ELSE [With(h, b, header) EXCEPT ![prev].next = b]
  BY DEF Appended
<1> HIDE DEF b, e, z, g
<1>4. b \notin DOMAIN h
  BY <1>1, <1>2
<1>5. DOMAIN g = DOMAIN h \cup {b}
  BY <1>3 DEF With
<1>6. g[b] = header
  BY <1>3, <1>4 DEF With
<1>7. \A a \in DOMAIN h :
         /\ g[a].size = h[a].size
         /\ g[a].next = IF head # NULL /\ a = prev THEN b ELSE h[a].next
         /\ g[a].free <=> h[a].free
         /\ g[a] \in [size : Nat, free : BOOLEAN, next : Nat]
  <2>1. SUFFICES ASSUME NEW a \in DOMAIN h
                 PROVE  /\ g[a].size = h[a].size
                        /\ g[a].next = IF head # NULL /\ a = prev THEN b ELSE h[a].next
                        /\ g[a].free <=> h[a].free
                        /\ g[a] \in [size : Nat, free : BOOLEAN, next : Nat]
    OBVIOUS
  <2>2. h[a] = [size |-> h[a].size, free |-> h[a].free, next |-> h[a].next]
    BY BlockFacts DEF HeapOK
  <2>3. CASE head # NULL /\ a = prev
    <3>1. g[a] = [h[a] EXCEPT !.next = b]
      BY <1>3, <1>4, <2>3 DEF With
    <3>2. g[a] = [size |-> h[a].size, free |-> h[a].free, next |-> b]
      BY <2>2, <3>1
    <3> QED BY <1>1, <2>3, <3>2, HeaderType, BlockFacts DEF HeapOK
  <2>4. CASE ~(head # NULL /\ a = prev)
    <3>1. g[a] = h[a]
      BY <1>3, <1>4, <2>4 DEF With
    <3> QED BY <2>4, <3>1 DEF HeapOK, Shaped
  <2> QED BY <2>3, <2>4
<1>8. g[b].size = z /\ g[b].next = NULL /\ ~g[b].free
  BY <1>6
<1>9. g[b] \in [size : Nat, free : BOOLEAN, next : Nat]
  BY <1>1, <1>6, HeaderType, Sizes
<1> HIDE DEF header
<1>10. End(g, b) = e /\ \A a \in DOMAIN h : End(g, a) = End(h, a)
  BY <1>1, <1>7, <1>8 DEF End
<1>11. Shaped(g)
  <2>1. \A a \in DOMAIN h : h[a].size % 4 = 0 /\ End(h, a) <= NPAGES * PAGE_SIZE
    BY BlockFacts DEF HeapOK
  <2>2. SUFFICES ASSUME NEW a \in DOMAIN g
                 PROVE  /\ a \in Nat \ {0} /\ a % 4 = 0
                        /\ g[a] \in [size : Nat, free : BOOLEAN, next : Nat]
                        /\ g[a].size % 4 = 0 /\ End(g, a) <= NPAGES * PAGE_SIZE
    BY Sizes DEF Shaped
  <2>3. CASE a = b
    BY <1>1, <1>8, <1>9, <1>10, <2>3
  <2>4. CASE a \in DOMAIN h
    <3>1. g[a] \in [size : Nat, free : BOOLEAN, next : Nat] /\ g[a].size = h[a].size
      BY <1>7, <2>4
    <3>2. a \in Nat \ {0} /\ a % 4 = 0
      BY <2>4, BlockFacts DEF HeapOK
    <3>3. End(g, a) = End(h, a)
      BY <1>10, <2>4
    <3> QED BY <2>1, <2>4, <3>1, <3>2, <3>3
  <2> QED BY <1>5, <2>3, <2>4
<1>12. Apart(g)
  <2>1. SUFFICES ASSUME NEW a \in DOMAIN g, NEW c \in DOMAIN g, a < c PROVE End(g, a) <= c
    BY DEF Apart
  <2>2. CASE a = b /\ c \in DOMAIN h
    BY <1>1, <1>2, <1>10, <2>1, <2>2
  <2>3. CASE a \in DOMAIN h /\ c = b
    <3>1. End(h, a) <= b \/ e <= a
      BY <1>2, <2>3
    <3>2. a \in Nat /\ a < b
      BY <2>1, <2>3, BlockFacts DEF HeapOK
    <3>3. End(g, a) = End(h, a)
      BY <1>10, <2>3
    <3> QED BY <1>1, <2>3, <3>1, <3>2, <3>3
  <2>4. CASE a \in DOMAIN h /\ c \in DOMAIN h
    BY <1>10, <2>1, <2>4 DEF HeapOK, Apart
  <2>5. CASE a = b /\ c = b
    BY <1>1, <2>1, <2>5
  <2> QED BY <1>5, <2>2, <2>3, <2>4, <2>5
<1>13. Linked(g, top)
  <2>1. /\ top \in DOMAIN g /\ \A a \in DOMAIN h : h[a].next # b
    BY <1>1, <1>4, <1>5, Sizes DEF HeapOK, Linked
  <2>2. \A a \in DOMAIN g : g[a].next # NULL => g[a].next \in DOMAIN g
    BY <1>5, <1>7, <1>8 DEF HeapOK, Linked
  <2>3. \A a, c \in DOMAIN g : a # c /\ g[a].next # NULL => g[a].next # g[c].next
    BY <1>1, <1>5, <1>7, <1>8, <2>1, Sizes DEF HeapOK, Linked
  <2>4. \A a \in DOMAIN g : g[a].next # top
    BY <1>1, <1>4, <1>5, <1>7, <1>8, <2>1, Sizes DEF HeapOK, Linked
  <2> QED BY <2>1, <2>2, <2>3, <2>4 DEF Linked
<1>14. InUse(g) = InUse(h) \cup {b}
  BY <1>4, <1>5, <1>7, <1>8 DEF InUse
<1>15. ASSUME NEW x \in Nat PROVE Covers(g, x) <=> InPages(P \cup Run(i, n), x)
  <2>1. Covers(g, x) <=> Covers(h, x) \/ (b <= x /\ x < e)
    BY <1>5, <1>10 DEF Covers
  <2>2. ASSUME b <= x, x < e PROVE InPages(Run(i, n), x)
    <3>1. x - b \in Nat /\ x - b < n * PAGE_SIZE
      <4>1. e = b + n * PAGE_SIZE /\ n * PAGE_SIZE \in Nat
        BY Cancel DEF b, e
      <4> QED BY <1>1, <2>2, <4>1
    <3>2. PICK k \in 0 .. n - 1 : k * PAGE_SIZE <= x - b /\ x - b < (k + 1) * PAGE_SIZE
      BY <3>1, PageOf
    <3>3. /\ k \in Nat /\ k * PAGE_SIZE \in Nat
          /\ (i + k) * PAGE_SIZE = b + k * PAGE_SIZE
          /\ (i + k + 1) * PAGE_SIZE = b + (k + 1) * PAGE_SIZE
          /\ (k + 1) * PAGE_SIZE \in Nat
      <4>1. k \in Nat /\ k + 1 \in Nat /\ i + k + 1 = i + (k + 1)
        OBVIOUS
      <4>2. (i + k) * PAGE_SIZE = i * PAGE_SIZE + k * PAGE_SIZE
        BY <4>1, Cancel
      <4>3. (i + (k + 1)) * PAGE_SIZE = i * PAGE_SIZE + (k + 1) * PAGE_SIZE
        BY <4>1, Cancel
      <4> QED BY <4>1, <4>2, <4>3, Cancel DEF b
    <3>4. (i + k) * PAGE_SIZE <= x /\ x < (i + k + 1) * PAGE_SIZE
      BY <1>1, <3>2, <3>3
    <3>5. i + k \in Run(i, n)
      BY DEF Run
    <3> QED BY <3>4, <3>5 DEF InPages
  <2>3. ASSUME InPages(Run(i, n), x) PROVE b <= x /\ x < e
    <3>1. PICK j \in Run(i, n) : j * PAGE_SIZE <= x /\ x < (j + 1) * PAGE_SIZE
      BY <2>3 DEF InPages
    <3>2. j \in Nat /\ i <= j /\ j + 1 <= i + n /\ j + 1 \in Nat /\ i + n \in Nat
      BY DEF Run
    <3>3. /\ i * PAGE_SIZE <= j * PAGE_SIZE /\ (j + 1) * PAGE_SIZE <= (i + n) * PAGE_SIZE
          /\ j * PAGE_SIZE \in Nat /\ (j + 1) * PAGE_SIZE \in Nat
      BY <3>2, Cancel
    <3>4. b <= j * PAGE_SIZE /\ (j + 1) * PAGE_SIZE <= e
      BY <3>3 DEF b, e
    <3> QED BY <1>1, <3>1, <3>3, <3>4
  <2>4. InPages(P \cup Run(i, n), x) <=> InPages(P, x) \/ InPages(Run(i, n), x)
    BY DEF InPages
  <2> QED BY <2>1, <2>2, <2>3, <2>4
<1>16. \A a \in InUse(h) : g[a].size = h[a].size
  BY <1>7 DEF InUse
<1>17. Whole(g, top)
  <2> SUFFICES ASSUME NEW S \in SUBSET DOMAIN g, Follows(g, top, S) PROVE S = DOMAIN g
    BY DEF Whole
  <2>1. Follows(h, head, S \ {b})
    <3>1. head # NULL => head \in S \ {b}
      BY <1>4 DEF Follows, HeapOK, Linked
    <3>2. ASSUME NEW a \in S \ {b}, h[a].next # NULL PROVE h[a].next \in S \ {b}
      <4>1. a \in DOMAIN h /\ h[a].next \in DOMAIN h /\ g[a].next = h[a].next
        BY <1>5, <1>7, <3>2 DEF HeapOK, Linked
      <4> QED BY <1>4, <3>2, <4>1 DEF Follows
    <3> QED BY <3>1, <3>2 DEF Follows
  <2>2. S \ {b} = DOMAIN h
    BY <1>5, <2>1 DEF HeapOK, Whole
  <2>3. b \in S
    <3>1. CASE head = NULL
      BY <1>1, <3>1, Sizes DEF Follows
    <3>2. CASE head # NULL
      <4>1. prev \in S /\ g[prev].next = b
        BY <1>7, <2>2, <3>2
      <4> QED BY <1>1, <4>1, Sizes DEF Follows
    <3> QED BY <3>1, <3>2
  <2> QED BY <1>5, <2>2, <2>3
<1> QED BY <1>4, <1>5, <1>8, <1>11, <1>12, <1>13, <1>14, <1>15, <1>16, <1>17 DEF HeapOK, b, z, g
----------------------------------------------------------------------------
(* The invariant. *)

\* The pointers that callers hold and the blocks in use.
LEMMA Pointers ==
    ASSUME IInv
    PROVE  /\ DOMAIN live = {a + HEADER_SIZE : a \in InUse(hdr)}
           /\ \A p \in DOMAIN live : /\ p \in Nat /\ p > HEADER_SIZE
                                    /\ p - HEADER_SIZE \in InUse(hdr)
                                    /\ live[p] \in Nat
                                    /\ Enough(live[p], hdr[p - HEADER_SIZE].size)
<1>1. DOMAIN live = {a + HEADER_SIZE : a \in InUse(hdr)}
  BY DEF IInv, Held
<1>2. \A a \in InUse(hdr) : a \in Nat \ {0}
  BY BlockFacts DEF IInv, HeapOK, InUse
<1>3. \A p \in DOMAIN live : p \in Nat /\ p > HEADER_SIZE /\ p - HEADER_SIZE \in InUse(hdr)
  <2> TAKE p \in DOMAIN live
  <2>1. PICK a \in InUse(hdr) : p = a + HEADER_SIZE
    BY <1>1
  <2>2. p - HEADER_SIZE = a
    BY <1>2, <2>1, Sizes
  <2> QED BY <1>2, <2>1, <2>2, Sizes
<1> QED BY <1>1, <1>3 DEF IInv, Held

\* The end of a malloc that found or made block b of heap g.
LEMMA ReturnOK ==
    ASSUME IInv, NEW g, NEW head \in Nat, HeapOK(g, head), NEW b \in DOMAIN g,
           b \notin InUse(hdr), InUse(g) = InUse(hdr) \cup {b}, Enough(call.want, g[b].size),
           \A a \in InUse(hdr) : g[a].size = hdr[a].size,
           Return(g, b)
    PROVE  /\ HeapOK(hdr', head)
           /\ \A x \in Nat : Covers(hdr', x) <=> Covers(g, x)
           /\ Held'
           /\ call' = Idle
<1> DEFINE p == b + HEADER_SIZE
           o == call.old - HEADER_SIZE
<1>1. /\ hdr' = IF call.old = NULL THEN g ELSE kfree(g, o)
      /\ live' = [q \in (DOMAIN live \ {call.old}) \cup {p} |-> IF q = p THEN call.want ELSE live[q]]
      /\ call' = Idle
  BY DEF Return
<1>2. b \in Nat \ {0} /\ \A a \in InUse(hdr) : a \in Nat \ {0}
  BY BlockFacts DEF IInv, HeapOK, InUse
<1>3. call.want \in Nat /\ call.old \in Nat
  BY DEF IInv, CallOK
<1>4. CASE call.old = NULL
  <2>1. NULL \notin DOMAIN live
    BY Pointers, Sizes
  <2>2. hdr' = g /\ DOMAIN live' = DOMAIN live \cup {p}
    BY <1>1, <1>4, <2>1
  <2>3. InUse(hdr') = InUse(hdr) \cup {b}
    BY <2>2
  <2>4. DOMAIN live' = {a + HEADER_SIZE : a \in InUse(hdr')}
    BY <2>2, <2>3, Pointers
  <2>5. ASSUME NEW q \in DOMAIN live'
        PROVE  live'[q] \in Nat /\ Enough(live'[q], hdr'[q - HEADER_SIZE].size)
    <3>1. CASE q = p
      <4>1. q - HEADER_SIZE = b
        BY <1>2, <3>1, Sizes
      <4> QED BY <1>1, <1>3, <2>2, <3>1, <4>1
    <3>2. CASE q # p
      <4>1. q \in DOMAIN live /\ live'[q] = live[q]
        BY <1>1, <2>2, <3>2
      <4>2. q - HEADER_SIZE \in InUse(hdr) /\ Enough(live[q], hdr[q - HEADER_SIZE].size)
        BY <4>1, Pointers
      <4> QED BY <2>2, <4>1, <4>2, Pointers
    <3> QED BY <3>1, <3>2
  <2> QED BY <1>1, <2>2, <2>4, <2>5 DEF Held
<1>5. CASE call.old # NULL
  <2>1. call.old \in DOMAIN live
    BY <1>5 DEF IInv, CallOK
  <2>2. o \in InUse(hdr) /\ call.old = o + HEADER_SIZE /\ o \in Nat
    BY <1>2, <1>3, <2>1, Pointers, Sizes
  <2>3. o \in InUse(g) /\ o # b /\ hdr' = kfree(g, o)
    BY <1>1, <1>5, <2>2
  <2> HIDE DEF o
  <2>4. /\ HeapOK(hdr', head) /\ InUse(hdr') = InUse(g) \ {o}
        /\ \A a \in InUse(g) \ {o} : hdr'[a].size = g[a].size
        /\ \A x \in Nat : Covers(hdr', x) <=> Covers(g, x)
    BY <2>3, FreeOK
  <2>5. DOMAIN live' = (DOMAIN live \ {call.old}) \cup {p}
    BY <1>1
  <2>6. DOMAIN live' = {a + HEADER_SIZE : a \in InUse(hdr')}
    <3>1. \A a \in InUse(hdr) : a + HEADER_SIZE = call.old <=> a = o
      BY <1>2, <2>2, Sizes
    <3> QED BY <2>3, <2>4, <2>5, <3>1, Pointers
  <2>7. ASSUME NEW q \in DOMAIN live'
        PROVE  live'[q] \in Nat /\ Enough(live'[q], hdr'[q - HEADER_SIZE].size)
    <3>1. CASE q = p
      <4>1. q - HEADER_SIZE = b /\ hdr'[b].size = g[b].size
        BY <1>2, <2>3, <2>4, <3>1, Sizes
      <4> QED BY <1>1, <1>3, <3>1, <4>1
    <3>2. CASE q # p
      <4>1. q \in DOMAIN live \ {call.old} /\ live'[q] = live[q]
        BY <1>1, <2>5, <3>2
      <4>2. /\ q \in Nat /\ q - HEADER_SIZE \in InUse(hdr)
            /\ Enough(live[q], hdr[q - HEADER_SIZE].size)
        BY <4>1, Pointers
      <4>3. q - HEADER_SIZE # o
        BY <2>2, <4>1, <4>2, Sizes
      <4>4. hdr'[q - HEADER_SIZE].size = hdr[q - HEADER_SIZE].size
        BY <2>4, <4>2, <4>3
      <4> QED BY <4>1, <4>2, <4>4, Pointers
    <3> QED BY <3>1, <3>2
  <2> QED BY <1>1, <2>4, <2>6, <2>7 DEF Held
<1> QED BY <1>4, <1>5

----------------------------------------------------------------------------
(* The heap implements the allocator its callers rely on. *)

\* A block of a sound heap next to the blocks in use is a region apart from
\* the regions that callers hold.
LEMMA Beside ==
    ASSUME IInv, NEW g, Shaped(g), Apart(g), NEW b \in DOMAIN g, b \notin InUse(hdr),
           InUse(hdr) \subseteq DOMAIN g, \A a \in InUse(hdr) : g[a].size = hdr[a].size,
           NEW n \in Nat, Enough(n, g[b].size)
    PROVE  Promised!Fits(live, b + HEADER_SIZE, n)
<1> DEFINE q == b + HEADER_SIZE
<1>1. /\ b \in Nat \ {0} /\ b % 4 = 0 /\ g[b].size \in Nat
      /\ End(g, b) = b + HEADER_SIZE + g[b].size
  BY BlockFacts
<1>2. q \in Nat /\ q > 0 /\ q % ALIGN = 0
  BY <1>1, Sizes
<1>3. q \notin DOMAIN live
  <2>1. q - HEADER_SIZE = b
    BY <1>1, Sizes
  <2> QED BY <2>1, Pointers
<1>4. ASSUME NEW p \in DOMAIN live
      PROVE  Promised!Extent(p, live[p]) \cap Promised!Extent(q, n) = {}
  <2> DEFINE a == p - HEADER_SIZE
  <2>0. SUFFICES ASSUME live[p] \notin Unkept, n \notin Unkept
                 PROVE  (p .. p + live[p] - 1) \cap (q .. q + n - 1) = {}
    BY DEF Promised!Extent
  <2>1. a \in InUse(hdr) /\ p \in Nat /\ live[p] \in Nat /\ live[p] <= hdr[a].size
    BY <2>0, Pointers DEF Enough
  <2>2. a \in DOMAIN g /\ a # b /\ live[p] <= g[a].size /\ n <= g[b].size
    BY <2>0, <2>1 DEF Enough
  <2>3. a \in Nat /\ g[a].size \in Nat /\ End(g, a) = a + HEADER_SIZE + g[a].size /\ p = a + HEADER_SIZE
    BY <2>1, <2>2, BlockFacts, Sizes
  <2>4. End(g, a) <= b \/ End(g, b) <= a
    <3>1. a < b \/ b < a
      BY <1>1, <2>2, <2>3
    <3> QED BY <2>2, <3>1 DEF Apart
  <2> HIDE DEF a
  <2>5. p + live[p] <= q \/ q + n <= p
    BY <1>1, <2>1, <2>2, <2>3, <2>4, Sizes
  <2>6. ASSUME NEW x \in p .. p + live[p] - 1, x \in q .. q + n - 1 PROVE FALSE
    BY <1>2, <2>1, <2>5, <2>6
  <2> QED BY <2>6
<1> HIDE DEF q
<1>5. Promised!Fits(live, q, n)
  BY <1>2, <1>3, <1>4 DEF Promised!Fits
<1> QED BY <1>5 DEF q

\* The end of a malloc hands out a region, that of a realloc moves one.
LEMMA ReturnRefines ==
    ASSUME IInv, NEW g, Shaped(g), Apart(g), NEW b \in DOMAIN g, b \notin InUse(hdr),
           InUse(hdr) \subseteq DOMAIN g, \A a \in InUse(hdr) : g[a].size = hdr[a].size,
           Enough(call.want, g[b].size), Return(g, b), Followed, UNCHANGED owner
    PROVE  Promised!Next
<1> DEFINE q == b + HEADER_SIZE
<1>0. Kept = live /\ Kept' = live' /\ Followed'
  BY DEF Kept, Followed
<1>1. live' = [p \in (DOMAIN live \ {call.old}) \cup {q} |-> IF p = q THEN call.want ELSE live[p]]
  BY DEF Return
<1>2. call.want \in Nat /\ Promised!Fits(live, q, call.want)
  BY Beside DEF IInv, CallOK
<1>3. q \in DOMAIN live' /\ live'[q] = call.want
  BY <1>1
<1>4. CASE call.old = NULL
  <2>1. call.old \notin DOMAIN live
    <3>1. \A p \in DOMAIN live : p \in Nat /\ p > HEADER_SIZE
      BY Pointers
    <3> QED BY <1>4, <3>1, Sizes
  <2>2. live' = Promised!With(live, q, call.want)
    BY <1>1, <2>1 DEF Promised!With
  <2> QED BY <1>0, <1>2, <1>3, <2>2 DEF Promised!Next, Promised!Change, Promised!Allocate
<1>5. CASE call.old # NULL
  <2>1. call.old \in DOMAIN live
    BY <1>5 DEF IInv, CallOK
  <2>2. live' = Promised!With(Promised!Without(live, call.old), q, call.want)
    BY <1>1 DEF Promised!With, Promised!Without
  <2> QED BY <1>0, <1>2, <1>3, <2>1, <2>2 DEF Promised!Next, Promised!Change, Promised!Move
<1> QED BY <1>4, <1>5

LEMMA IdleOK == ASSUME call' = Idle PROVE CallOK'
BY Sizes DEF Idle, CallOK

\* A call begins: what malloc, calloc and realloc have in common.
LEMMA EnterOK ==
    ASSUME IInv, NEW n \in Nat, NEW want \in Nat,
           \/ want \in Unkept
           \/ /\ n # 0 /\ n <= LargestRequest + 3 /\ want <= n
              /\ (n <= LargestRequest \/ n % 4 = 0),
           NEW old \in Nat, old # NULL => old \in DOMAIN live, Enter(n, want, old),
           UNCHANGED <<heap_head, hdr, pages, others, live>>
    PROVE  IInv'
<1>1. LargestRequest \in Int /\ LargestRequest + HEADER_SIZE + PAGE_SIZE + 4 = WORD
  BY Sizes DEF LargestRequest
<1>2. Round(n) \in Nat /\ Round(n) % 4 = 0 /\ Round(n) < WORD
  BY RoundType
<1>3. want \in Unkept \/ (want <= Round(n) /\ Round(n) + HEADER_SIZE + PAGE_SIZE <= WORD)
  <2>0. SUFFICES ASSUME want \notin Unkept
                 PROVE  want <= Round(n) /\ Round(n) + HEADER_SIZE + PAGE_SIZE <= WORD
    OBVIOUS
  <2>1. n # 0 /\ n <= LargestRequest + 3 /\ want <= n /\ (n <= LargestRequest \/ n % 4 = 0)
    BY <2>0
  <2>2. n + 3 < WORD
    BY <1>1, <2>1, Sizes
  <2>3. /\ n <= Round(n) /\ Round(n) <= n + 3
        /\ n % 4 = 0 => Round(n) = n
    BY <2>1, <2>2, RoundFacts
  <2>4. Round(n) <= LargestRequest + 4
    BY <1>1, <1>2, <2>1, <2>3
  <2>5. Round(n) + HEADER_SIZE + PAGE_SIZE <= WORD
    BY <1>1, <1>2, <2>4, Sizes
  <2> QED BY <1>2, <2>1, <2>3, <2>5
<1>4. call' = [op |-> "malloc", size |-> Round(n), want |-> want, cur |-> heap_head, prev |-> NULL, old |-> old]
  BY DEF Enter
<1>5. CallOK'
  <2>1. heap_head \in Nat /\ (heap_head # NULL => heap_head \in DOMAIN hdr)
    BY DEF IInv, HeapOK, Linked
  <2> QED BY <1>2, <1>3, <1>4, <2>1, Sizes DEF CallOK
<1> QED BY <1>5 DEF IInv, Held

LEMMA WalkOK == ASSUME IInv, Walk PROVE IInv'
<1>1. /\ call.op = "malloc" /\ call.cur # NULL /\ call.cur \in DOMAIN hdr
      /\ call' = [call EXCEPT !.prev = call.cur, !.cur = hdr[call.cur].next]
      /\ UNCHANGED <<heap_head, hdr, pages, others, live>>
  BY DEF Walk, IInv, CallOK
<1>2. hdr[call.cur].next \in Nat /\ (hdr[call.cur].next # NULL => hdr[call.cur].next \in DOMAIN hdr)
  BY <1>1, BlockFacts DEF IInv, HeapOK, Linked
<1>3. CallOK'
  BY <1>1, <1>2, Sizes DEF IInv, CallOK
<1> QED BY <1>1, <1>3 DEF IInv, Held

LEMMA TakeOK == ASSUME IInv, Take PROVE IInv' /\ (Followed => Promised!Next)
<1> DEFINE g == Carve(hdr, call.cur, call.size)
<1>1. /\ call.op = "malloc" /\ call.cur \in DOMAIN hdr /\ FitsIn(hdr, call.cur, call.size)
      /\ Return(g, call.cur) /\ UNCHANGED <<owner, heap_head, pages, others>>
  BY DEF Take, IInv, CallOK
<1>2. /\ call.size \in Nat /\ call.size % 4 = 0 /\ call.want \in Nat
      /\ call.want \in Unkept \/ call.want <= call.size
  BY <1>1, Sizes DEF IInv, CallOK
<1>3. heap_head \in Nat /\ HeapOK(hdr, heap_head)
  BY DEF IInv
<1>4. HeapOK(g, heap_head) /\ Took(hdr, g, call.cur, call.size)
  BY <1>1, <1>2, <1>3, CarveOK
<1>5. call.cur \notin InUse(hdr)
  BY <1>1 DEF FitsIn, InUse
<1> HIDE DEF g
<1>6. Enough(call.want, g[call.cur].size)
  <2>1. g[call.cur].size \in Nat /\ call.size <= g[call.cur].size
    BY <1>4, BlockFacts DEF HeapOK, Took
  <2> QED BY <1>2, <2>1 DEF Enough
<1>7. /\ HeapOK(hdr', heap_head)
      /\ \A x \in Nat : Covers(hdr', x) <=> Covers(g, x)
      /\ Held'
      /\ call' = Idle
  BY <1>1, <1>3, <1>4, <1>5, <1>6, ReturnOK DEF Took
<1>8. \A x \in Nat : Covers(hdr', x) <=> InPages(pages', x)
  BY <1>1, <1>4, <1>7 DEF Took, IInv
<1>9. Followed => Promised!Next
  <2>1. Shaped(g) /\ Apart(g) /\ call.cur \in DOMAIN g
    BY <1>4 DEF HeapOK, Took
  <2>2. InUse(hdr) \subseteq DOMAIN g /\ \A a \in InUse(hdr) : g[a].size = hdr[a].size
    BY <1>4 DEF Took, InUse
  <2> QED BY <1>1, <1>5, <1>6, <2>1, <2>2, ReturnRefines
<1>10. IInv'
  BY <1>1, <1>7, <1>8, IdleOK DEF IInv
<1> QED BY <1>9, <1>10

LEMMA GrowOK == ASSUME IInv, Grow PROVE IInv' /\ (Followed => Promised!Next)
<1> DEFINE n == PagesNeeded(call.size)
<1>1. /\ call.op = "malloc" /\ call.cur = NULL /\ others' = others /\ owner' = owner /\ n > 0
  BY DEF Grow, AtEnd
<1>2. PICK i \in Page : Contiguous(i, n) /\ pages' = pages \cup Run(i, n) /\ NewBlock(i, n)
  BY DEF Grow
<1>3. /\ call.size \in Nat /\ call.want \in Nat
      /\ call.want \in Unkept \/ (call.want <= call.size /\ call.size + HEADER_SIZE + PAGE_SIZE <= WORD)
      /\ call.prev \in Nat /\ (heap_head # NULL => call.prev \in DOMAIN hdr /\ hdr[call.prev].next = NULL)
  BY <1>1 DEF IInv, CallOK
<1>4. /\ n \in Nat \ {0}
      /\ call.want \in Unkept \/ (call.want <= call.size /\ call.size + HEADER_SIZE <= n * PAGE_SIZE)
  BY <1>1, <1>3, RunType, RunLength
<1> HIDE DEF n
<1>5. /\ i \in Nat \ {0} /\ i + n <= NPAGES
      /\ Run(i, n) \cap pages = {} /\ Run(i, n) \cap others = {} /\ Run(i, n) \subseteq Page
  <2>1. i \in Nat /\ i + n <= NPAGES /\ Run(i, n) \cap (pages \cup others) = {}
    BY <1>2 DEF Contiguous, Free, Page
  <2>2. i \in Run(i, n) /\ Run(i, n) \subseteq Page
    BY <1>4, <2>1, Sizes DEF Run, Page
  <2>3. i # 0
    BY <2>1, <2>2 DEF IInv
  <2> QED BY <2>1, <2>2, <2>3
<1> DEFINE b == i * PAGE_SIZE
           g == Appended(hdr, heap_head, call.prev, i, n)
           top == IF heap_head = NULL THEN b ELSE heap_head
<1>6. heap_head \in Nat /\ HeapOK(hdr, heap_head) /\ pages \in SUBSET Nat
      /\ \A x \in Nat : Covers(hdr, x) <=> InPages(pages, x)
  BY Sizes DEF IInv, Page
<1>7. /\ HeapOK(g, top)
      /\ b \in DOMAIN g /\ b \notin DOMAIN hdr /\ InUse(g) = InUse(hdr) \cup {b}
      /\ g[b].size = n * PAGE_SIZE - HEADER_SIZE
      /\ \A a \in InUse(hdr) : g[a].size = hdr[a].size
      /\ \A x \in Nat : Covers(g, x) <=> InPages(pages \cup Run(i, n), x)
  BY <1>3, <1>4, <1>5, <1>6, AppendOK
<1>8. n * PAGE_SIZE \in Nat /\ (n * PAGE_SIZE - HEADER_SIZE) % WORD = n * PAGE_SIZE - HEADER_SIZE
  <2>1. n * PAGE_SIZE \in Nat /\ n * PAGE_SIZE <= NPAGES * PAGE_SIZE
    <3>1. n <= NPAGES
      BY <1>4, <1>5, Sizes
    <3> QED BY <1>4, <3>1, Cancel, Sizes
  <2> DEFINE m == n * PAGE_SIZE
             w == NPAGES * PAGE_SIZE
  <2>2. m \in Nat /\ w \in Nat /\ m <= w /\ w < WORD /\ HEADER_SIZE <= m
    <3>1. 1 * PAGE_SIZE <= m
      BY <1>4, Cancel
    <3> QED BY <2>1, <3>1, Sizes
  <2> HIDE DEF m, w
  <2>3. (m - HEADER_SIZE) % WORD = m - HEADER_SIZE
    BY <2>2, Sizes
  <2> QED BY <2>1, <2>3 DEF m
<1>9. heap_head' = top /\ Return(g, b)
  BY <1>2, <1>8 DEF NewBlock, Appended
<1>10. b \notin InUse(hdr) /\ top \in Nat /\ Enough(call.want, g[b].size)
  <2>1. b \in Nat
    BY <1>5, Cancel
  <2> QED BY <1>3, <1>4, <1>6, <1>7, <1>8, <2>1, Sizes DEF InUse, Enough
<1> HIDE DEF g, b, top
<1>11. /\ HeapOK(hdr', top)
       /\ \A x \in Nat : Covers(hdr', x) <=> Covers(g, x)
       /\ Held'
       /\ call' = Idle
  BY <1>7, <1>9, <1>10, ReturnOK
<1>12. \A x \in Nat : Covers(hdr', x) <=> InPages(pages', x)
  BY <1>2, <1>7, <1>11
<1>13. /\ pages' \subseteq Page /\ others' \subseteq Page /\ 0 \in others' /\ pages' \cap others' = {}
  BY <1>1, <1>2, <1>5 DEF IInv
<1>14. IInv'
  BY <1>9, <1>10, <1>11, <1>12, <1>13, IdleOK DEF IInv
<1>15. Followed => Promised!Next
  <2>1. Shaped(g) /\ Apart(g) /\ InUse(hdr) \subseteq DOMAIN g
    BY <1>7 DEF HeapOK, InUse
  <2> QED BY <1>1, <1>7, <1>9, <1>10, <2>1, ReturnRefines
<1> QED BY <1>14, <1>15

LEMMA freeOK == ASSUME IInv, NEW p \in DOMAIN live, free(p) PROVE IInv'
<1> DEFINE b == p - HEADER_SIZE
<1>1. /\ call.op = "none" /\ hdr' = kfree(hdr, b) /\ live' = [q \in DOMAIN live \ {p} |-> live[q]]
      /\ UNCHANGED <<heap_head, pages, others, call>>
  BY DEF free
<1>2. b \in InUse(hdr) /\ p \in Nat
  BY Pointers
<1>3. heap_head \in Nat /\ HeapOK(hdr, heap_head)
  BY DEF IInv
<1> HIDE DEF b
<1>4. /\ HeapOK(hdr', heap_head) /\ InUse(hdr') = InUse(hdr) \ {b}
      /\ \A a \in InUse(hdr) \ {b} : hdr'[a].size = hdr[a].size
      /\ \A x \in Nat : Covers(hdr', x) <=> Covers(hdr, x)
  BY <1>1, <1>2, <1>3, FreeOK
<1>5. \A a \in InUse(hdr) : a \in Nat /\ (a + HEADER_SIZE = p <=> a = b)
  BY <1>2, BlockFacts, Sizes DEF IInv, HeapOK, InUse, b
<1>6. DOMAIN live' = {a + HEADER_SIZE : a \in InUse(hdr')}
  BY <1>1, <1>4, <1>5, Pointers
<1>7. ASSUME NEW q \in DOMAIN live'
      PROVE  live'[q] \in Nat /\ Enough(live'[q], hdr'[q - HEADER_SIZE].size)
  <2>1. q \in DOMAIN live /\ q # p /\ live'[q] = live[q]
    BY <1>1
  <2>2. q \in Nat /\ q - HEADER_SIZE \in InUse(hdr) /\ Enough(live[q], hdr[q - HEADER_SIZE].size)
    BY <2>1, Pointers
  <2>3. q - HEADER_SIZE # b
    BY <1>2, <2>1, <2>2, Sizes DEF b
  <2> QED BY <1>4, <2>1, <2>2, <2>3, Pointers
<1>8. Held'
  BY <1>6, <1>7 DEF Held
<1>9. CallOK'
  BY <1>1, IdleOK DEF IInv, CallOK
<1> QED BY <1>1, <1>3, <1>4, <1>7, <1>8, <1>9 DEF IInv

\* A size_t is a size that is kept or one that is not.
LEMMA RequestFacts ==
    ASSUME NEW n \in 0 .. WORD - 1, n # 0
    PROVE  /\ LargestRequest \in Int /\ (n \in Unkept \/ n <= LargestRequest)
           /\ n <= LargestRequest => n <= Round(n) /\ Round(n) <= n + 3
           /\ Round(n) \in Nat /\ Round(n) % 4 = 0
<1>1. LargestRequest \in Int /\ (n \in Unkept \/ n <= LargestRequest)
  BY Sizes DEF LargestRequest, Unkept
<1>2. n <= LargestRequest => n + 3 < WORD
  BY Sizes DEF LargestRequest
<1> QED BY <1>1, <1>2, RoundFacts, RoundType

\* A block of the rounded size serves the request.
LEMMA RoundServes ==
    ASSUME NEW n \in 0 .. WORD - 1, n # 0, NEW z \in Nat, z >= Round(n)
    PROVE  Enough(n, z)
BY RequestFacts DEF Enough

LEMMA reallocOK ==
    ASSUME IInv, NEW p \in DOMAIN live, NEW n \in 0 .. WORD - 1, realloc(p, n) PROVE IInv'
<1>1. n # 0 /\ n \in Nat /\ call.op = "none" /\ UNCHANGED <<heap_head, hdr, pages, others>>
  BY DEF realloc
<1>2. CASE hdr[p - HEADER_SIZE].size >= Round(n)
  <2>1. live' = [live EXCEPT ![p] = n] /\ call' = call
    BY <1>2 DEF realloc
  <2>2. Enough(n, hdr[p - HEADER_SIZE].size)
    <3>1. hdr[p - HEADER_SIZE].size \in Nat
      BY Pointers, BlockFacts DEF IInv, HeapOK, InUse
    <3> QED BY <1>1, <1>2, <3>1, RoundServes
  <2>3. Held'
    BY <1>1, <2>1, <2>2 DEF IInv, Held
  <2>4. CallOK'
    BY <1>1, <2>1, IdleOK DEF IInv, CallOK
  <2> QED BY <1>1, <2>3, <2>4 DEF IInv
<1>3. CASE ~(hdr[p - HEADER_SIZE].size >= Round(n))
  <2>1. Enter(Round(n), n, p) /\ live' = live
    BY <1>3 DEF realloc
  <2>2. p \in Nat
    BY Pointers
  <2>3. /\ Round(n) \in Nat
        /\ \/ n \in Unkept
           \/ /\ Round(n) # 0 /\ Round(n) <= LargestRequest + 3 /\ n <= Round(n)
              /\ (Round(n) <= LargestRequest \/ Round(n) % 4 = 0)
    BY <1>1, RequestFacts
  <2> QED BY <1>1, <2>1, <2>2, <2>3, EnterOK
<1> QED BY <1>2, <1>3

\* malloc and calloc enter with a size_t that they were asked for.
LEMMA FreshEnterOK ==
    ASSUME IInv, NEW n \in 0 .. WORD - 1, n # 0, Enter(n, n, NULL),
           UNCHANGED <<heap_head, hdr, pages, others, live>>
    PROVE  IInv'
<1>1. LargestRequest \in Int /\ (n \in Unkept \/ n <= LargestRequest) /\ n \in Nat
  BY RequestFacts
<1> QED BY <1>1, EnterOK, Sizes

LEMMA callocOK ==
    ASSUME IInv, NEW m \in Nat, NEW n \in Nat, calloc(m, n) PROVE IInv'
<1> DEFINE r == (m * n) % WORD
<1>1. /\ m # 0 /\ n # 0 /\ Survives(m, n) /\ Enter(r, m * n, NULL)
      /\ UNCHANGED <<heap_head, hdr, pages, others, live>>
  BY DEF calloc
<1>2. m * n \in Nat /\ m * n = r /\ m * n # 0
  BY <1>1, ProductFits
<1>3. r \in 0 .. WORD - 1
  <2> DEFINE k == m * n
  <2>1. k \in Nat
    BY <1>2
  <2> HIDE DEF k
  <2>2. k % WORD \in 0 .. WORD - 1
    BY <2>1, Sizes
  <2> QED BY <2>2 DEF k
<1> HIDE DEF r
<1> QED BY <1>1, <1>2, <1>3, FreshEnterOK

LEMMA mallocOK == ASSUME IInv, NEW n \in 0 .. WORD - 1, malloc(n) PROVE IInv'
BY FreshEnterOK DEF malloc

LEMMA OthersOK ==
    ASSUME IInv, NEW i \in Page, OthersTake(i) \/ OthersRelease(i) PROVE IInv'
<1>1. UNCHANGED <<heap_head, hdr, pages, call, live>>
  BY DEF OthersTake, OthersRelease
<1>2. others' \subseteq Page /\ 0 \in others' /\ pages \cap others' = {}
  <2>1. CASE OthersTake(i)
    <3>1. i \in Run(i, 1)
      BY Sizes DEF Run, Page
    <3> QED BY <2>1, <3>1 DEF OthersTake, Contiguous, Free, IInv
  <2>2. CASE OthersRelease(i)
    BY <2>2 DEF OthersRelease, IInv
  <2> QED BY <2>1, <2>2
<1>3. CallOK'
  BY <1>1 DEF IInv, CallOK
<1> QED BY <1>1, <1>2, <1>3 DEF IInv, Held

\* An empty heap is sound.
LEMMA EmptyOK ==
    ASSUME heap_head = NULL, hdr = << >>, pages = {}, others = {0}, call = Idle, live = << >>
    PROVE  IInv
<1>1. DOMAIN hdr = {} /\ DOMAIN live = {}
  OBVIOUS
<1>2. HeapOK(hdr, heap_head)
  BY <1>1, Sizes DEF HeapOK, Shaped, Apart, Linked, Whole
<1>3. Held
  BY <1>1 DEF Held, InUse
<1>4. \A x \in Nat : Covers(hdr, x) <=> InPages(pages, x)
  BY <1>1 DEF Covers, InPages
<1>5. CallOK
  BY Sizes DEF CallOK, Idle
<1>6. {0} \subseteq Page
  BY Sizes DEF Page
<1> QED BY <1>1, <1>2, <1>3, <1>4, <1>5, <1>6, Sizes DEF IInv

LEMMA FreshOK == ASSUME NEW o, Fresh(o) PROVE IInv'
<1>1. /\ heap_head' = NULL /\ hdr' = << >> /\ pages' = {}
      /\ others' = {0} /\ call' = Idle /\ live' = << >>
  BY DEF Fresh
<1>2. DOMAIN hdr' = {} /\ DOMAIN live' = {}
  BY <1>1
<1>3. HeapOK(hdr', heap_head')
  BY <1>1, <1>2, Sizes DEF HeapOK, Shaped, Apart, Linked, Whole
<1>4. Held'
  BY <1>2 DEF Held, InUse
<1>5. \A x \in Nat : Covers(hdr', x) <=> InPages(pages', x)
  BY <1>1, <1>2 DEF Covers, InPages
<1>6. CallOK'
  BY <1>1, IdleOK
<1>7. {0} \subseteq Page
  BY Sizes DEF Page
<1> QED BY <1>1, <1>2, <1>3, <1>4, <1>5, <1>6, <1>7, Sizes DEF IInv

\* The heap is sound in every reachable state, until a program's malloc of a
\* size that wraps puts a header where sbrk gave it no memory.
THEOREM Invariance == Spec => []HeapInv
<1>1. Init => HeapInv
  BY EmptyOK DEF Init, HeapInv
<1>2. HeapInv /\ [Next]_vars => HeapInv'
  <2> SUFFICES ASSUME HeapInv, [Next]_vars PROVE HeapInv'
    OBVIOUS
  <2> USE DEF HeapInv
  <2>1. CASE \E n \in REQUESTS : malloc(n)
    BY <2>1, mallocOK, SizesAssumption DEF malloc
  <2>2. CASE \E m \in COUNTS, n \in REQUESTS : calloc(m, n)
    <3>1. PICK m \in COUNTS, n \in REQUESTS : calloc(m, n)
      BY <2>2
    <3>2. m \in Nat /\ n \in Nat
      BY SizesAssumption
    <3> QED BY <3>1, <3>2, callocOK DEF calloc
  <2>3. CASE Walk
    BY <2>3, WalkOK DEF Walk
  <2>4. CASE Take
    BY <2>4, TakeOK DEF Take
  <2>5. CASE Grow
    BY <2>5, GrowOK DEF Grow
  <2>6. CASE OutOfMemory
    <3>1. CallOK'
      BY <2>6, IdleOK DEF OutOfMemory
    <3> QED BY <2>6, <3>1 DEF OutOfMemory, IInv, Held
  <2>7. CASE \E p \in DOMAIN live : free(p)
    BY <2>7, freeOK DEF free
  <2>8. CASE \E p \in DOMAIN live, n \in REQUESTS : realloc(p, n)
    BY <2>8, reallocOK, SizesAssumption DEF realloc
  <2>9. CASE \E i \in Page : OthersTake(i) \/ OthersRelease(i)
    BY <2>9, OthersOK DEF OthersTake, OthersRelease
  <2>10. CASE AtBreak
    <3>1. owner' = "astray" \/ Fresh("ended")
      BY <2>10 DEF AtBreak
    <3> QED BY <3>1, FreshOK DEF Fresh
  <2>11. CASE Exit \/ Start
    <3>1. Fresh("ended") \/ Fresh("program")
      BY <2>11 DEF Exit, Start
    <3> QED BY <3>1, FreshOK DEF Fresh
  <2>12. CASE UNCHANGED vars
    <3>1. IInv => CallOK'
      BY <2>12 DEF vars, IInv, CallOK
    <3> QED BY <2>12, <3>1 DEF vars, IInv, Held
  <2> QED BY <2>1, <2>2, <2>3, <2>4, <2>5, <2>6, <2>7, <2>8, <2>9, <2>10, <2>11, <2>12 DEF Next
<1> QED BY <1>1, <1>2, PTL DEF Spec

\* The header chain of kmalloc.c keeps its types: no block address, size or
\* pointer ever leaves the memory the heap manages.
THEOREM TypeCorrect == Spec => []TypeOK
<1>1. HeapInv => TypeOK
  <2> SUFFICES ASSUME HeapInv, Followed PROVE TypeOK
    BY DEF HeapInv, TypeOK
  <2>0. IInv /\ owner \in {"kernel", "program", "ended", "astray"}
    BY DEF HeapInv, Followed
  <2>1. \A b \in DOMAIN hdr : b \in Addr \ {NULL} /\ b + HEADER_SIZE \in 0 .. NPAGES * PAGE_SIZE
    BY <2>0, BlockFacts, Sizes DEF IInv, HeapOK, Addr
  <2>2. 0 \in Addr
    BY Sizes DEF Addr
  <2>3. heap_head \in Addr
    BY <2>0, <2>1, <2>2, Sizes DEF IInv, HeapOK, Linked
  <2>4. \A b \in DOMAIN hdr : hdr[b] \in Header
    <3> TAKE b \in DOMAIN hdr
    <3>1. hdr[b].next \in Addr
      BY <2>0, <2>1, <2>2, Sizes DEF IInv, HeapOK, Linked
    <3>2. hdr[b].size \in 0 .. WORD - 1
      BY <2>0, BlockFacts, Sizes DEF IInv, HeapOK
    <3>3. hdr[b] \in [size : Nat, free : BOOLEAN, next : Nat]
      BY <2>0 DEF IInv, HeapOK, Shaped
    <3> QED BY <3>1, <3>2, <3>3 DEF Header
  <2>5. DOMAIN live \subseteq 0 .. NPAGES * PAGE_SIZE
    BY <2>0, <2>1, Pointers DEF InUse
  <2>6. call.cur \in Addr /\ call.prev \in Addr /\ call.old \in 0 .. NPAGES * PAGE_SIZE
    BY <2>0, <2>1, <2>2, <2>5, Sizes DEF IInv, CallOK
  <2>7. call \in [op : {"none", "malloc"}, size : 0 .. WORD - 1, want : Nat,
                  cur : Addr, prev : Addr, old : 0 .. NPAGES * PAGE_SIZE]
    BY <2>0, <2>6, Sizes DEF IInv, CallOK
  <2> QED BY <2>0, <2>1, <2>3, <2>4, <2>5, <2>7, Pointers DEF IInv, TypeOK
<1> QED BY <1>1, Invariance, PTL

\* Headers and data of the blocks of kmalloc and malloc never overlap.
THEOREM NoOverlap == Spec => []BlocksDisjoint
<1>1. HeapInv => BlocksDisjoint
  BY DEF HeapInv, Followed, IInv, HeapOK, Apart, BlocksDisjoint
<1> QED BY <1>1, Invariance, PTL

\* A block is in use exactly while a caller of malloc holds it.
THEOREM InUseWhileHeld == Spec => []LiveBlocks
<1>1. HeapInv => LiveBlocks
  <2> SUFFICES ASSUME HeapInv, Followed PROVE LiveBlocks
    BY DEF LiveBlocks
  <2>1. Held
    BY DEF HeapInv, Followed, IInv
  <2> QED BY <2>1 DEF Held, Enough, InUse, LiveBlocks
<1> QED BY <1>1, Invariance, PTL

\* The blocks fill the pages that new_block obtained, and those only.
THEOREM Tiling == Spec => []BlocksTilePages
<1>1. HeapInv => BlocksTilePages
  <2> SUFFICES ASSUME HeapInv, Followed PROVE BlocksTilePages
    BY DEF BlocksTilePages
  <2>0. IInv
    BY DEF HeapInv, Followed
  <2>1. \A x : x \in UNION {b .. End(hdr, b) - 1 : b \in DOMAIN hdr} <=> x \in Nat /\ Covers(hdr, x)
    <3> TAKE x
    <3>1. \A b \in DOMAIN hdr : b \in Nat /\ End(hdr, b) \in Nat
      BY <2>0, BlockFacts DEF IInv, HeapOK
    <3>2. \A b \in DOMAIN hdr : x \in b .. End(hdr, b) - 1 <=> x \in Nat /\ b <= x /\ x < End(hdr, b)
      BY <3>1
    <3> QED BY <3>2 DEF Covers
  <2>2. \A x : x \in UNION {PageBytes(i) : i \in pages} <=> x \in Nat /\ InPages(pages, x)
    <3> TAKE x
    <3>1. \A i \in pages : i \in Nat /\ i * PAGE_SIZE \in Nat /\ (i + 1) * PAGE_SIZE \in Nat
      BY <2>0, Cancel, Sizes DEF IInv, Page
    <3>2. \A i \in pages : x \in PageBytes(i) <=>
                             x \in Nat /\ i * PAGE_SIZE <= x /\ x < (i + 1) * PAGE_SIZE
      BY <3>1 DEF PageBytes
    <3> QED BY <3>2 DEF InPages
  <2>3. UNION {b .. End(hdr, b) - 1 : b \in DOMAIN hdr} = UNION {PageBytes(i) : i \in pages}
    BY <2>0, <2>1, <2>2 DEF IInv
  <2> QED BY <2>0, <2>3 DEF IInv, BlocksTilePages
<1> QED BY <1>1, Invariance, PTL
----------------------------------------------------------------------------
(* The chain reaches every block. *)

\* A set of numbers has a least one.
LEMMA Least ==
    ASSUME NEW S \in SUBSET Nat, S # {}
    PROVE  \E x \in S : \A y \in S : x <= y
<1> DEFINE R == OpToRel(<, Nat)
<1>1. IsWellFoundedOn(R, Nat)
  BY NatLessThanWellFounded
<1>2. PICK x \in S : \A y \in S : <<y, x>> \notin R
  <2> HIDE DEF R
  <2> QED BY <1>1, WFMin
<1>3. \A y \in S : x <= y
  <2> SUFFICES ASSUME NEW y \in S, y < x PROVE FALSE
    OBVIOUS
  <2>1. <<y, x>> \in R
    BY DEF OpToRel
  <2> QED BY <1>2, <2>1
<1> QED BY <1>3

\* The blocks of S and those that follow them.
Onward(S) == S \cup {hdr[b].next : b \in S \ {NULL}}

Reaches(f, N) == f = [n \in 0 .. N |-> IF n = 0 THEN {heap_head} ELSE Onward(f[n - 1])]

\* The function that defines Reached exists.
LEMMA ReachesExists ==
    ASSUME NEW N \in Nat
    PROVE  \E f : Reaches(f, N)
<1> DEFINE Bad == {k \in Nat : ~\E f : Reaches(f, k)}
<1>1. SUFFICES ASSUME Bad # {} PROVE FALSE
  OBVIOUS
<1>2. PICK k \in Bad : \A y \in Bad : k <= y
  BY <1>1, Least
<1>3. CASE k = 0
  <2>1. Reaches([n \in 0 .. 0 |-> {heap_head}], 0)
    BY DEF Reaches
  <2> QED BY <1>2, <1>3, <2>1
<1>4. CASE k # 0
  <2>1. PICK i \in Nat : k = i + 1
    BY <1>2, <1>4
  <2>2. PICK g : Reaches(g, i)
    BY <1>2, <2>1
  <2> DEFINE f == [n \in 0 .. k |-> IF n = 0 THEN {heap_head} ELSE Onward(g[n - 1])]
  <2>3. ASSUME NEW n \in 0 .. i PROVE f[n] = g[n]
    <3>1. n \in 0 .. k
      BY <2>1
    <3>2. f[n] = IF n = 0 THEN {heap_head} ELSE Onward(g[n - 1])
      BY <3>1
    <3> HIDE DEF f
    <3> QED BY <2>2, <3>2 DEF Reaches
  <2>4. \A n \in 0 .. k : f[n] = IF n = 0 THEN {heap_head} ELSE Onward(f[n - 1])
    <3> SUFFICES ASSUME NEW n \in 0 .. k
                 PROVE  f[n] = IF n = 0 THEN {heap_head} ELSE Onward(f[n - 1])
      OBVIOUS
    <3>1. f[n] = IF n = 0 THEN {heap_head} ELSE Onward(g[n - 1])
      OBVIOUS
    <3>2. n # 0 => n - 1 \in 0 .. i
      BY <2>1
    <3> HIDE DEF f
    <3> QED BY <2>3, <3>1, <3>2
  <2>5. f = [n \in 0 .. k |-> f[n]]
    OBVIOUS
  <2> HIDE DEF f
  <2>6. Reaches(f, k)
    BY <2>4, <2>5 DEF Reaches
  <2> QED BY <1>2, <2>6
<1> QED BY <1>3, <1>4

LEMMA ReachedFacts ==
    ASSUME NEW N \in Nat, N = Cardinality(DOMAIN hdr)
    PROVE  \E f : /\ f[0] = {heap_head} /\ \A n \in 0 .. N - 1 : f[n + 1] = Onward(f[n])
                  /\ Reached = f[N] \ {NULL}
<1> DEFINE R == CHOOSE f : Reaches(f, N)
<1>1. Reaches(R, N)
  BY ReachesExists
<1>2. Reached = R[N] \ {NULL}
  BY DEF Reached, Reaches, Onward
<1> HIDE DEF R
<1>3. R[0] = {heap_head} /\ \A n \in 0 .. N - 1 : R[n + 1] = Onward(R[n])
  <2>1. R[0] = {heap_head}
    BY <1>1 DEF Reaches
  <2>2. ASSUME NEW n \in 0 .. N - 1 PROVE R[n + 1] = Onward(R[n])
    <3>1. n + 1 \in 0 .. N /\ n + 1 # 0 /\ (n + 1) - 1 = n
      OBVIOUS
    <3>2. R[n + 1] = Onward(R[(n + 1) - 1])
      BY <1>1, <3>1 DEF Reaches
    <3> QED BY <3>1, <3>2
  <2> QED BY <2>1, <2>2
<1> QED BY <1>2, <1>3

\* As long as the blocks reached do not follow themselves, a step reaches
\* another one, and after as many steps as there are blocks none is left.
LEMMA ReachesAll ==
    ASSUME IInv
    PROVE  Reached = DOMAIN hdr
<1> DEFINE D == DOMAIN hdr
           N == Cardinality(D)
<1>1. Linked(hdr, heap_head) /\ Whole(hdr, heap_head)
  BY DEF IInv, HeapOK
<1>2. \A a \in D : a \in Nat \ {0} /\ a <= NPAGES * PAGE_SIZE
  <2> TAKE a \in D
  <2>1. a \in Nat \ {0} /\ End(hdr, a) \in Nat /\ a < End(hdr, a) /\ End(hdr, a) <= NPAGES * PAGE_SIZE
    BY BlockFacts DEF IInv, HeapOK
  <2> QED BY <2>1, Sizes
<1>3. IsFiniteSet(D) /\ N \in Nat
  <2>1. IsFiniteSet(D)
    BY <1>2, FS_BoundedSetOfNaturals, Sizes
  <2> QED BY <2>1, FS_CardinalityType
<1>4. PICK f : /\ f[0] = {heap_head} /\ \A n \in 0 .. N - 1 : f[n + 1] = Onward(f[n])
               /\ Reached = f[N] \ {NULL}
  BY <1>3, ReachedFacts
<1>5. CASE heap_head = NULL
  <2>1. Follows(hdr, heap_head, {}) => {} = D
    BY <1>1 DEF Whole
  <2>2. {} = D
    BY <1>5, <2>1 DEF Follows
  <2>3. N = 0
    BY <2>2, FS_EmptySet
  <2> QED BY <1>4, <1>5, <2>2, <2>3
<1>6. CASE heap_head # NULL
  <2> DEFINE Q(n) == f[n] \ {NULL}
             Good(n) == /\ Q(n) \in SUBSET D /\ heap_head \in Q(n)
                        /\ Follows(hdr, heap_head, Q(n)) \/ Cardinality(Q(n)) >= n + 1
             Bad == {n \in 0 .. N : ~Good(n)}
  <2>1. Good(0)
    <3>1. Q(0) = {heap_head}
      BY <1>4, <1>6
    <3> HIDE DEF Q
    <3>2. heap_head \in D
      BY <1>1, <1>6 DEF Linked
    <3>3. Cardinality(Q(0)) = 1
      BY <3>1, FS_Singleton
    <3> QED BY <3>1, <3>2, <3>3
  <2>2. ASSUME NEW n \in 0 .. N - 1, Good(n) PROVE Good(n + 1)
    <3>1. Q(n + 1) = Q(n) \cup ({hdr[b].next : b \in Q(n)} \ {NULL})
      BY <1>4 DEF Onward
    <3>2. Q(n) \in SUBSET D /\ heap_head \in Q(n)
      BY <2>2
    <3>3. Follows(hdr, heap_head, Q(n)) \/ Cardinality(Q(n)) >= n + 1
      BY <2>2
    <3> HIDE DEF Q
    <3>4. Q(n + 1) \in SUBSET D /\ Q(n) \subseteq Q(n + 1)
      BY <1>1, <3>1, <3>2 DEF Linked
    <3>5. CASE Follows(hdr, heap_head, Q(n))
      <4>1. Q(n + 1) = Q(n)
        BY <3>1, <3>2, <3>5, Zenon DEF Follows
      <4> QED BY <3>2, <3>5, <4>1
    <3>6. CASE ~Follows(hdr, heap_head, Q(n))
      <4>1. PICK b \in Q(n) : hdr[b].next # NULL /\ hdr[b].next \notin Q(n)
        BY <3>2, <3>6 DEF Follows
      <4> DEFINE c == hdr[b].next
      <4>2. c \in Q(n + 1) /\ c \notin Q(n)
        BY <3>1, <4>1
      <4> HIDE DEF c
      <4>3. IsFiniteSet(Q(n)) /\ IsFiniteSet(Q(n + 1))
        BY <1>3, <3>2, <3>4, FS_Subset
      <4>4. Cardinality(Q(n) \cup {c}) = Cardinality(Q(n)) + 1 /\ IsFiniteSet(Q(n) \cup {c})
        BY <4>2, <4>3, FS_AddElement
      <4>5. Cardinality(Q(n) \cup {c}) <= Cardinality(Q(n + 1))
        <5>1. Q(n) \cup {c} \in SUBSET Q(n + 1)
          BY <3>4, <4>2
        <5> QED BY <4>3, <5>1, FS_Subset
      <4>6. Cardinality(Q(n)) \in Nat /\ Cardinality(Q(n + 1)) \in Nat
        BY <4>3, FS_CardinalityType
      <4>7. Cardinality(Q(n + 1)) >= (n + 1) + 1
        BY <3>3, <3>6, <4>4, <4>5, <4>6
      <4> QED BY <3>2, <3>4, <4>7
    <3> QED BY <3>5, <3>6
  <2> HIDE DEF Good
  <2>3. Good(N)
    <3>1. ASSUME Bad # {} PROVE FALSE
      <4>1. PICK k \in Bad : \A y \in Bad : k <= y
        <5>1. Bad \in SUBSET Nat
          BY <1>3
        <5> HIDE DEF Bad
        <5> QED BY <3>1, <5>1, Least
      <4>2. PICK i \in 0 .. N - 1 : k = i + 1
        <5>1. k \in 0 .. N /\ k # 0
          BY <2>1, <4>1
        <5>2. k - 1 \in 0 .. N - 1 /\ k = (k - 1) + 1
          BY <1>3, <5>1
        <5> QED BY <5>2
      <4>3. Good(i)
        BY <1>3, <4>1, <4>2
      <4> QED BY <2>2, <4>1, <4>2, <4>3
    <3> QED BY <1>3, <3>1
  <2>4. Q(N) \in SUBSET D /\ (Follows(hdr, heap_head, Q(N)) \/ Cardinality(Q(N)) >= N + 1)
    BY <2>3 DEF Good
  <2> HIDE DEF Q
  <2>5. Cardinality(Q(N)) \in Nat /\ Cardinality(Q(N)) <= N
    <3>1. IsFiniteSet(Q(N)) /\ Cardinality(Q(N)) <= N
      BY <1>3, <2>4, FS_Subset
    <3> QED BY <3>1, FS_CardinalityType
  <2>6. Follows(hdr, heap_head, Q(N))
    BY <1>3, <2>4, <2>5
  <2>7. Q(N) = D
    BY <1>1, <2>4, <2>6 DEF Whole
  <2> QED BY <1>4, <2>7 DEF Q
<1> QED BY <1>5, <1>6

\* Every block of the heap is on the chain that kmalloc walks, once: no split,
\* merge or append cuts a block off.
THEOREM ChainHolds == Spec => []ChainComplete
<1>1. HeapInv => ChainComplete
  BY ReachesAll DEF HeapInv, Followed, IInv, HeapOK, Linked, ChainComplete
<1> QED BY <1>1, Invariance, PTL
----------------------------------------------------------------------------
\* A region that realloc leaves where it is stays apart from the others.
LEMMA ResizeFits ==
    ASSUME IInv, NEW p \in DOMAIN live, NEW n \in 0 .. WORD - 1, n # 0,
           hdr[p - HEADER_SIZE].size >= Round(n)
    PROVE  Promised!Fits(Promised!Without(live, p), p, n)
<1> DEFINE rest == Promised!Without(live, p)
           b == p - HEADER_SIZE
<1>1. p \in Nat /\ p > HEADER_SIZE /\ b \in DOMAIN hdr /\ b \in InUse(hdr) /\ Shaped(hdr)
  BY Pointers DEF IInv, HeapOK, InUse
<1>2. /\ b % 4 = 0 /\ b \in Nat /\ p = b + HEADER_SIZE /\ hdr[b].size \in Nat
      /\ End(hdr, b) = b + HEADER_SIZE + hdr[b].size
  BY <1>1, BlockFacts, Sizes
<1>3. Enough(n, hdr[b].size)
  BY <1>2, RoundServes
<1> HIDE DEF b
<1>4. p \in Nat /\ p > 0 /\ p % ALIGN = 0
  <2>1. (b + HEADER_SIZE) % 4 = 0 /\ b + HEADER_SIZE > 0
    BY <1>2, Sizes
  <2> QED BY <1>1, <1>2, <2>1, Sizes
<1>5. p \notin DOMAIN rest /\ DOMAIN rest \subseteq DOMAIN live
  BY DEF Promised!Without
<1>6. ASSUME NEW q \in DOMAIN rest
      PROVE  Promised!Extent(q, rest[q]) \cap Promised!Extent(p, n) = {}
  <2> DEFINE a == q - HEADER_SIZE
  <2>1. q \in DOMAIN live /\ q # p /\ rest[q] = live[q]
    BY <1>5 DEF Promised!Without
  <2>2. SUFFICES ASSUME live[q] \notin Unkept, n \notin Unkept
                 PROVE  (q .. q + live[q] - 1) \cap (p .. p + n - 1) = {}
    BY <2>1 DEF Promised!Extent
  <2>3. /\ q \in Nat /\ a \in InUse(hdr) /\ live[q] \in Nat /\ live[q] <= hdr[a].size
        /\ n <= hdr[b].size /\ n \in Nat
    BY <1>3, <2>1, <2>2, Pointers DEF Enough
  <2>4. /\ a \in Nat /\ q = a + HEADER_SIZE /\ hdr[a].size \in Nat
        /\ End(hdr, a) = a + HEADER_SIZE + hdr[a].size /\ a \in DOMAIN hdr
    BY <2>3, BlockFacts, Sizes DEF IInv, HeapOK, InUse
  <2> HIDE DEF a
  <2>5. End(hdr, a) <= b \/ End(hdr, b) <= a
    <3>1. a < b \/ b < a
      BY <1>2, <2>1, <2>4, Sizes
    <3> QED BY <1>1, <2>4, <3>1 DEF IInv, HeapOK, Apart
  <2>6. q + live[q] <= p \/ p + n <= q
    BY <1>2, <2>3, <2>4, <2>5, Sizes
  <2>7. ASSUME NEW x \in q .. q + live[q] - 1, x \in p .. p + n - 1 PROVE FALSE
    BY <1>1, <2>3, <2>6, <2>7
  <2> QED BY <2>7
<1> HIDE DEF rest
<1>7. Promised!Fits(rest, p, n)
  BY <1>4, <1>5, <1>6 DEF Promised!Fits
<1> QED BY <1>7 DEF rest

\* kmalloc and malloc keep the promise of module Allocator: a region handed out
\* is aligned, apart from every region in use and, for the sizes that are kept,
\* long enough, and it stays as it is until free, realloc or the program's end.
THEOREM Refinement == Spec => RefinesAllocator
<1>1. Init => Promised!Init
  BY DEF Init, Promised!Init, Kept, Followed
<1>2. HeapInv /\ [Next]_vars => [Promised!Next]_<<Kept, Followed>>
  <2> SUFFICES ASSUME HeapInv, [Next]_vars PROVE Promised!Next \/ UNCHANGED <<Kept, Followed>>
    OBVIOUS
  <2>0. /\ owner \in {"kernel", "program", "ended", "astray"} /\ (Followed => IInv)
        /\ UNCHANGED <<owner, live>> => UNCHANGED <<Kept, Followed>>
    BY DEF HeapInv, Followed, Kept
  <2>1. CASE \E n \in REQUESTS : malloc(n)
    BY <2>0, <2>1 DEF malloc
  <2>2. CASE \E m \in COUNTS, n \in REQUESTS : calloc(m, n)
    BY <2>0, <2>2 DEF calloc
  <2>3. CASE Walk \/ OutOfMemory
    BY <2>0, <2>3 DEF Walk, OutOfMemory
  <2>4. CASE Take \/ Grow
    <3>1. CASE Followed
      BY <2>0, <2>4, <3>1, TakeOK, GrowOK
    <3>2. CASE ~Followed
      <4>1. owner' = owner
        BY <2>4 DEF Take, Grow
      <4> QED BY <3>2, <4>1 DEF Kept, Followed
    <3> QED BY <3>1, <3>2
  <2>5. CASE \E p \in DOMAIN live : free(p)
    <3>1. PICK p \in DOMAIN live : free(p)
      BY <2>5
    <3>2. Followed /\ Followed' /\ Kept = live /\ Kept' = live'
      BY <3>1 DEF free, Kept, Followed
    <3>3. Promised!Release(p)
      BY <3>1, <3>2 DEF free, Promised!Release, Promised!Without
    <3> QED BY <3>2, <3>3 DEF Promised!Next, Promised!Change
  <2>6. CASE \E p \in DOMAIN live, n \in REQUESTS : realloc(p, n)
    <3>1. PICK p \in DOMAIN live, n \in REQUESTS : realloc(p, n)
      BY <2>6
    <3>2. Followed /\ Followed' /\ Kept = live /\ Kept' = live'
      BY <3>1 DEF realloc, Kept, Followed
    <3>3. CASE live' # live
      <4>1. live' = [live EXCEPT ![p] = n] /\ hdr[p - HEADER_SIZE].size >= Round(n) /\ n # 0
        BY <3>1, <3>3 DEF realloc
      <4>2. live' = Promised!With(live, p, n) /\ p \in DOMAIN live' /\ live'[p] = n
        BY <4>1 DEF Promised!With
      <4>3. Promised!Fits(Promised!Without(live, p), p, n)
        BY <2>0, <3>2, <4>1, ResizeFits, SizesAssumption
      <4> QED BY <3>2, <4>2, <4>3 DEF Promised!Next, Promised!Change, Promised!Resize
    <3>4. CASE live' = live
      BY <2>0, <3>1, <3>4 DEF realloc
    <3> QED BY <3>3, <3>4
  <2>7. CASE \E i \in Page : OthersTake(i) \/ OthersRelease(i)
    BY <2>0, <2>7 DEF OthersTake, OthersRelease
  <2>8. CASE AtBreak \/ Exit
    <3>1. Followed /\ ~Followed' /\ Kept' = << >>
      BY <2>8 DEF AtBreak, Exit, Fresh, Followed, Kept
    <3>2. Promised!End
      BY <3>1, Zenon DEF Promised!End
    <3> QED BY <3>2, Zenon DEF Promised!Next
  <2>9. CASE Start
    <3>1. ~Followed /\ Followed' /\ Kept' = << >>
      BY <2>9 DEF Start, Fresh, Followed, Kept
    <3> QED BY <3>1 DEF Promised!Next, Promised!Begin
  <2>10. CASE UNCHANGED vars
    BY <2>0, <2>10 DEF vars
  <2> QED BY <2>1, <2>2, <2>3, <2>4, <2>5, <2>6, <2>7, <2>8, <2>9, <2>10 DEF Next
<1> QED BY <1>1, <1>2, Invariance, PTL DEF Spec, RefinesAllocator, Promised!Spec
=============================================================================
