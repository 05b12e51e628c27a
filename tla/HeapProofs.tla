----------------------------- MODULE HeapProofs -----------------------------
(* Theorems about Heap and about WindowManager on top of it, for every     *)
(* arena, header size and set of requests whose aligned size does not wrap.*)
EXTENDS WindowManager, TLAPS

NoWrap ==
  /\ \A n \in Requests : n + 3 < WRAP
  /\ \A a \in Arrays : a[1] * a[2] + 3 < WRAP

(* Rounding up to four keeps at least the bytes asked for.                 *)
LEMMA AlignRounds ==
  ASSUME NEW n \in Nat, n > 0, n + 3 < WRAP
  PROVE  Align(n) \in Nat /\ Align(n) >= n /\ Align(n) > 0 /\ Align(n) % 4 = 0
<1>1. (n + 3) % WRAP = n + 3
  BY HeapAssumption
<1>. QED BY <1>1 DEF Align

(* The strengthening.  Every block on the list has a size that is a        *)
(* positive multiple of four, so that addresses stay aligned and the first *)
(* block always covers heap_current; an owned block is not free, so that a *)
(* merge never absorbs it; the pointer of a loop is on the list.           *)
SizesOK == \A b \in blocks : size[b] > 0 /\ size[b] % 4 = 0

CallOK ==
  /\ pc = "find" => /\ want > 0 /\ want % 4 = 0
                    /\ req > 0 /\ req <= want
                    /\ cur \in blocks \cup {NULL}
  /\ pc = "merge" => cur \in blocks

HeapInv ==
  /\ TypeOK
  /\ pc # "clobbered" =>
       /\ Tiling /\ SizesOK /\ LiveFits /\ CallOK
       /\ heap_current = HEAP_START + HEADER

LEMMA AddrFacts ==
  ASSUME NEW a \in Addrs
  PROVE  /\ a \in Nat /\ HEAP_START <= a /\ a < HEAP_END /\ a % 4 = 0
         /\ a # NULL
BY HeapAssumption DEF Addrs

LEMMA BlockFacts ==
  ASSUME TypeOK, Tiling, SizesOK, NEW b \in blocks
  PROVE  /\ b \in Addrs /\ b \in Nat
         /\ size[b] \in Nat /\ size[b] > 0 /\ size[b] % 4 = 0
         /\ End(b) = b + HEADER + size[b] /\ End(b) \in Nat
         /\ b < End(b) /\ End(b) <= HEAP_END
<1>1. b \in Addrs /\ b \in Nat /\ size[b] \in Nat
  BY AddrFacts DEF TypeOK
<1>2. size[b] > 0 /\ size[b] % 4 = 0
  BY DEF SizesOK
<1>3. End(b) = b + HEADER + size[b] /\ End(b) \in Nat /\ b < End(b)
  BY <1>1, <1>2, HeapAssumption DEF End
<1>4. CASE next[b] = NULL
  <2>1. End(b) = HEAP_END
    BY <1>4 DEF Tiling
  <2>. QED BY <1>1, <1>2, <1>3, <2>1, HeapAssumption
<1>5. CASE next[b] # NULL
  <2>1. End(b) = next[b] /\ next[b] \in Addrs
    BY <1>5 DEF Tiling, TypeOK
  <2>2. End(b) < HEAP_END
    BY <2>1, AddrFacts
  <2>. QED BY <1>1, <1>2, <1>3, <2>2, HeapAssumption
<1>. QED BY <1>4, <1>5

LEMMA HeapInit == Init => HeapInv
<1> SUFFICES ASSUME Init PROVE HeapInv
  OBVIOUS
<1>1. HEAP_START \in Addrs
  BY HeapAssumption DEF Addrs
<1>2. TypeOK
  BY <1>1, HeapAssumption DEF Init, TypeOK
<1>3. Tiling /\ SizesOK /\ heap_current = HEAP_START + HEADER
  BY <1>1, HeapAssumption DEF Init, Tiling, SizesOK, End
<1>4. LiveFits /\ CallOK
  BY DEF Init, LiveFits, CallOK, Live
<1>. QED BY <1>2, <1>3, <1>4 DEF HeapInv

-----------------------------------------------------------------------------
(* One lemma per kind of step, each from a heap that is not clobbered.     *)
LEMMA KmallocStep ==
  ASSUME HeapInv, NEW n \in Nat, n + 3 < WRAP, Kmalloc(n, n)
  PROVE  HeapInv'
<1>1. /\ pc = "idle" /\ pc' = "find" /\ cur' = HEAP_START
      /\ want' = Align(n) /\ req' = n /\ n > 0
      /\ UNCHANGED <<blocks, size, free, next, heap_current, asked>>
  BY DEF Kmalloc, list
<1>2. Align(n) \in Nat /\ Align(n) >= n /\ Align(n) > 0 /\ Align(n) % 4 = 0
  BY <1>1, AlignRounds
<1>3. TypeOK'
  BY <1>1, <1>2 DEF HeapInv, TypeOK
<1>4. Tiling' /\ SizesOK' /\ LiveFits' /\ heap_current' = HEAP_START + HEADER
  BY <1>1 DEF HeapInv, Tiling, SizesOK, LiveFits, Live, End
<1>5. CallOK'
  BY <1>1, <1>2 DEF CallOK, HeapInv, TypeOK
<1>. QED BY <1>3, <1>4, <1>5 DEF HeapInv

LEMMA SplitStep ==
  ASSUME HeapInv, pc = "find", NEW k \in blocks, k = cur, NEW w, w = want,
         size[k] >= w + HEADER + 4, Split(k, w),
         asked' = [asked EXCEPT ![k] = req], Return, UNCHANGED heap_current
  PROVE  HeapInv'
<1> DEFINE new == k + HEADER + w
<1>1. /\ TypeOK /\ Tiling /\ SizesOK /\ LiveFits
      /\ w \in Nat /\ w > 0 /\ w % 4 = 0 /\ req \in Nat /\ req <= w
      /\ req > 0 /\ heap_current = HEAP_START + HEADER
  BY DEF HeapInv, CallOK, TypeOK
<1>2. /\ k \in Addrs /\ k \in Nat /\ size[k] \in Nat /\ size[k] % 4 = 0
      /\ End(k) = k + HEADER + size[k] /\ End(k) <= HEAP_END
  BY <1>1, BlockFacts
<1>3. /\ new \in Addrs /\ new \in Nat /\ new # NULL
      /\ new + HEADER + 4 <= End(k) /\ new > k
  <2>1. new \in Nat /\ new > k /\ new + HEADER + 4 <= End(k)
    BY <1>1, <1>2, HeapAssumption
  <2>2. k % 4 = 0 /\ HEAP_START <= k
    BY <1>2, AddrFacts
  <2>3. new % 4 = 0
    BY <1>1, <1>2, <2>2, HeapAssumption
  <2>4. new \in Addrs
    BY <1>2, <2>1, <2>2, <2>3, HeapAssumption DEF Addrs
  <2>. QED BY <2>1, <2>4, AddrFacts
<1>4. new \notin blocks
  <2> SUFFICES ASSUME new \in blocks PROVE FALSE
    OBVIOUS
  <2>1. End(k) <= new
    BY <1>1, <1>3 DEF Tiling
  <2>. QED BY <1>2, <1>3, <2>1, HeapAssumption
<1>5. /\ blocks' = blocks \cup {new}
      /\ size' = [size EXCEPT ![k] = w, ![new] = size[k] - w - HEADER]
      /\ free' = [free EXCEPT ![k] = FALSE, ![new] = TRUE]
      /\ next' = [next EXCEPT ![k] = new, ![new] = next[k]]
      /\ pc' = "idle" /\ cur' = NULL /\ want' = 0 /\ req' = 0
  BY DEF Split, Return
<1>6. /\ size[k] - w - HEADER \in Nat
      /\ size[k] - w - HEADER > 0
      /\ (size[k] - w - HEADER) % 4 = 0
  BY <1>1, <1>2, HeapAssumption
<1>7. TypeOK'
  BY <1>1, <1>2, <1>3, <1>5, <1>6 DEF TypeOK
<1>8. /\ size'[k] = w /\ size'[new] = size[k] - w - HEADER
      /\ next'[k] = new /\ next'[new] = next[k]
      /\ \A b \in Addrs \ {k, new} :
           size'[b] = size[b] /\ next'[b] = next[b] /\ free'[b] = free[b]
      /\ ~free'[k]
  <2>1. new # k
    BY <1>2, <1>3
  <2>. QED BY <1>1, <1>2, <1>3, <1>5, <2>1 DEF TypeOK
<1>9. SizesOK'
  BY <1>1, <1>5, <1>6, <1>8 DEF SizesOK, TypeOK
<1>10. /\ End(k)' = new /\ End(new)' = End(k)
       /\ \A b \in blocks \ {k} : End(b)' = End(b)
  <2>1. \A b \in blocks \ {k} : size'[b] = size[b]
    BY <1>1, <1>4, <1>8 DEF TypeOK
  <2>2. End(new)' = new + HEADER + (size[k] - w - HEADER)
    BY <1>8 DEF End
  <2>3. End(new)' = End(k)
    BY <1>1, <1>2, <1>3, <2>2, HeapAssumption
  <2>4. End(k)' = new
    BY <1>2, <1>5, <1>8, HeapAssumption DEF End
  <2>. QED BY <2>1, <2>3, <2>4 DEF End
<1>11. Tiling'
  <2> SUFFICES ASSUME NEW b \in blocks'
               PROVE  /\ End(b)' = IF next'[b] = NULL THEN HEAP_END ELSE next'[b]
                      /\ next'[b] # NULL => next'[b] \in blocks'
                      /\ \A c \in blocks' : b < c => End(b)' <= c
    BY DEF Tiling
  <2>1. CASE b = k
    <3>1. new # NULL
      BY <1>3, HeapAssumption DEF Addrs
    <3>2. \A c \in blocks : k < c => new <= c
      BY <1>1, <1>2, <1>3, HeapAssumption DEF Tiling, TypeOK, Addrs
    <3>3. End(b)' = new /\ next'[b] = new
      BY <2>1, <1>8, <1>10
    <3>4. \A c \in blocks' : b < c => End(b)' <= c
      BY <2>1, <3>2, <3>3, <1>3, <1>5
    <3>. QED BY <3>1, <3>3, <3>4, <1>5
  <2>2. CASE b = new
    <3>1. \A c \in blocks : new < c => End(k) <= c
      BY <1>1, <1>2, <1>3, HeapAssumption DEF Tiling, TypeOK, Addrs
    <3>2. \A c \in blocks' : new < c => End(k) <= c
      BY <3>1, <1>5, <1>3 DEF Addrs
    <3>3. /\ End(k) = IF next[k] = NULL THEN HEAP_END ELSE next[k]
          /\ next[k] # NULL => next[k] \in blocks
      BY <1>1 DEF Tiling
    <3>. QED BY <2>2, <3>2, <3>3, <1>5, <1>8, <1>10
  <2>3. CASE b \in blocks \ {k}
    <3>1. b \in Addrs \ {k, new}
      BY <2>3, <1>1, <1>4 DEF TypeOK
    <3>2. b < new => End(b) <= new
      <4>1. b < new => b < k
        BY <2>3, <3>1, <1>1, <1>2, <1>3, HeapAssumption DEF Tiling, Addrs
      <4>2. b < k => End(b) <= k
        BY <2>3, <1>1 DEF Tiling
      <4>. QED BY <4>1, <4>2, <3>1, <1>1, <1>2, <1>3, HeapAssumption
           DEF Addrs, End, TypeOK
    <3>3. /\ End(b) = IF next[b] = NULL THEN HEAP_END ELSE next[b]
          /\ next[b] # NULL => next[b] \in blocks
          /\ \A c \in blocks : b < c => End(b) <= c
      BY <2>3, <1>1 DEF Tiling
    <3>4. End(b)' = End(b) /\ next'[b] = next[b]
      BY <2>3, <3>1, <1>8, <1>10
    <3>5. \A c \in blocks' : b < c => End(b)' <= c
      BY <3>2, <3>3, <3>4, <1>5
    <3>. QED BY <3>3, <3>4, <3>5, <1>5
  <2>. QED BY <2>1, <2>2, <2>3, <1>5
<1>12. LiveFits'
  <2> SUFFICES ASSUME NEW b \in Addrs, asked'[b] > 0
               PROVE  b \in blocks' /\ ~free'[b] /\ asked'[b] <= size'[b]
    BY DEF LiveFits, Live
  <2>1. CASE b = k
    BY <2>1, <1>1, <1>5, <1>8 DEF TypeOK
  <2>2. CASE b # k
    <3>1. b \in blocks /\ ~free[b] /\ asked[b] <= size[b] /\ asked'[b] = asked[b]
      BY <2>2, <1>1 DEF LiveFits, Live, TypeOK
    <3>. QED BY <2>2, <3>1, <1>4, <1>5, <1>8
  <2>. QED BY <2>1, <2>2
<1>13. CallOK'
  BY <1>5 DEF CallOK
<1>. QED BY <1>1, <1>7, <1>9, <1>11, <1>12, <1>13 DEF HeapInv

LEMMA MergeStep ==
  ASSUME HeapInv, Merge
  PROVE  HeapInv'
<1>1. /\ TypeOK /\ Tiling /\ SizesOK /\ LiveFits /\ CallOK
      /\ heap_current = HEAP_START + HEADER /\ pc = "merge" /\ cur \in blocks
  BY DEF HeapInv, Merge, CallOK
<1>2. PICK k \in blocks, n \in blocks :
        /\ k = cur /\ n = next[k] /\ free[n]
        /\ blocks' = blocks \ {n}
        /\ size' = [size EXCEPT ![k] = @ + HEADER + size[n], ![n] = 0]
        /\ next' = [next EXCEPT ![k] = next[n], ![n] = NULL]
        /\ free' = [free EXCEPT ![n] = FALSE]
        /\ UNCHANGED <<heap_current, asked, call>>
  BY <1>1 DEF Merge, BothFree, Tiling
<1>3. /\ k \in Addrs /\ k \in Nat /\ size[k] \in Nat /\ size[k] % 4 = 0
      /\ size[k] > 0 /\ End(k) = k + HEADER + size[k] /\ k < End(k)
  BY <1>1, BlockFacts
<1>4. /\ n \in Addrs /\ n \in Nat /\ size[n] \in Nat /\ size[n] % 4 = 0
      /\ size[n] > 0 /\ End(n) = n + HEADER + size[n] /\ n < End(n)
      /\ n # NULL
  BY <1>1, BlockFacts, AddrFacts
<1>5. End(k) = n
  BY <1>1, <1>2, <1>4 DEF Tiling
<1>6. k < n
  BY <1>3, <1>5
<1>7. /\ size'[k] = size[k] + HEADER + size[n] /\ next'[k] = next[n]
      /\ \A b \in Addrs \ {k, n} :
           size'[b] = size[b] /\ next'[b] = next[b] /\ free'[b] = free[b]
  <2>1. k # n /\ k \in Addrs /\ n \in Addrs
    BY <1>3, <1>4, <1>6
  <2>2. size'[k] = size[k] + HEADER + size[n]
    BY <1>1, <1>2, <2>1 DEF TypeOK
  <2>3. next'[k] = next[n]
    BY <1>1, <1>2, <2>1 DEF TypeOK
  <2>4. \A b \in Addrs \ {k, n} :
          size'[b] = size[b] /\ next'[b] = next[b] /\ free'[b] = free[b]
    BY <1>1, <1>2, <2>1 DEF TypeOK
  <2>. QED BY <2>2, <2>3, <2>4
<1>8. /\ size'[k] \in Nat /\ size'[k] > 0 /\ size'[k] % 4 = 0
  BY <1>3, <1>4, <1>7, HeapAssumption
<1>9. n # HEAP_START
  BY <1>1, <1>3, <1>4, <1>6, AddrFacts, HeapAssumption
<1>10. TypeOK'
  <2>1. size' \in [Addrs -> Nat]
    BY <1>1, <1>2, <1>3, <1>4, HeapAssumption DEF TypeOK
  <2>2. next' \in [Addrs -> Addrs \cup {NULL}]
    BY <1>1, <1>2, <1>3, <1>4 DEF TypeOK
  <2>3. free' \in [Addrs -> BOOLEAN]
    BY <1>1, <1>2, <1>3, <1>4 DEF TypeOK
  <2>4. blocks' \subseteq Addrs /\ HEAP_START \in blocks'
    BY <1>1, <1>2, <1>9 DEF TypeOK
  <2>. QED BY <1>1, <1>2, <2>1, <2>2, <2>3, <2>4 DEF TypeOK, call
<1>11. SizesOK'
  BY <1>1, <1>2, <1>7, <1>8 DEF SizesOK, TypeOK
<1>12. /\ End(k)' = End(n)
       /\ \A b \in blocks \ {k, n} : End(b)' = End(b)
  <2>1. End(k)' = k + HEADER + (size[k] + HEADER + size[n])
    BY <1>7 DEF End
  <2>2. End(k)' = End(n)
    BY <1>3, <1>4, <1>5, <2>1, HeapAssumption
  <2>3. \A b \in blocks \ {k, n} : size'[b] = size[b]
    BY <1>1, <1>7 DEF TypeOK
  <2>. QED BY <2>2, <2>3 DEF End
<1>13. Tiling'
  <2> SUFFICES ASSUME NEW b \in blocks'
               PROVE  /\ End(b)' = IF next'[b] = NULL THEN HEAP_END ELSE next'[b]
                      /\ next'[b] # NULL => next'[b] \in blocks'
                      /\ \A c \in blocks' : b < c => End(b)' <= c
    BY DEF Tiling
  <2>1. CASE b = k
    <3>1. End(b)' = End(n) /\ next'[b] = next[n]
      BY <2>1, <1>7, <1>12
    <3>2. \A c \in blocks : k < c /\ c # n => End(n) <= c
      <4> SUFFICES ASSUME NEW c \in blocks, k < c, c # n PROVE End(n) <= c
        OBVIOUS
      <4>1. n <= c /\ c \in Nat
        BY <1>1, <1>5, BlockFacts DEF Tiling
      <4>2. n < c
        BY <4>1, <1>4
      <4>. QED BY <4>2, <1>1 DEF Tiling
    <3>3. /\ End(n) = IF next[n] = NULL THEN HEAP_END ELSE next[n]
          /\ next[n] # NULL => next[n] \in blocks
      BY <1>1 DEF Tiling
    <3>4. next[n] # n
      BY <3>3, <1>4
    <3>. QED BY <2>1, <3>1, <3>2, <3>3, <3>4, <1>2
  <2>2. CASE b \in blocks \ {k, n}
    <3>1. End(b)' = End(b) /\ next'[b] = next[b]
      BY <2>2, <1>1, <1>7, <1>12 DEF TypeOK
    <3>2. /\ End(b) = IF next[b] = NULL THEN HEAP_END ELSE next[b]
          /\ next[b] # NULL => next[b] \in blocks
          /\ \A c \in blocks : b < c => End(b) <= c
      BY <2>2, <1>1 DEF Tiling
    <3>3. next[b] # n
      <4> SUFFICES ASSUME next[b] = n PROVE FALSE
        OBVIOUS
      <4>1. End(b) = n
        BY <3>2, <1>4
      <4>4. b < n /\ b \in Nat
        BY <2>2, <4>1, <1>1, BlockFacts
      <4>2. b < k => n <= k
        BY <4>1, <3>2
      <4>3. k < b => n <= b
        BY <2>2, <1>1, <1>5 DEF Tiling
      <4>. QED BY <2>2, <4>2, <4>3, <4>4, <1>3, <1>4, <1>6
    <3>. QED BY <3>1, <3>2, <3>3, <1>2
  <2>. QED BY <2>1, <2>2, <1>2
<1>14. LiveFits'
  <2> SUFFICES ASSUME NEW b \in Addrs, asked'[b] > 0
               PROVE  b \in blocks' /\ ~free'[b] /\ asked'[b] <= size'[b]
    BY DEF LiveFits, Live
  <2>1. /\ b \in blocks /\ ~free[b] /\ asked[b] <= size[b] /\ asked'[b] = asked[b]
        /\ asked[b] \in Nat
    BY <1>1, <1>2 DEF LiveFits, Live, TypeOK
  <2>2. b # n
    BY <2>1, <1>2
  <2>3. asked[b] <= size'[b]
    <3>1. CASE b = k
      BY <3>1, <2>1, <1>3, <1>4, <1>7, HeapAssumption
    <3>2. CASE b # k
      BY <3>2, <2>1, <2>2, <1>7
    <3>. QED BY <3>1, <3>2
  <2>4. free'[b] = free[b]
    BY <2>2, <1>1, <1>2 DEF TypeOK
  <2>. QED BY <2>1, <2>2, <2>3, <2>4, <1>2
<1>15. CallOK'
  BY <1>1, <1>2, <1>6, <1>3 DEF CallOK, call
<1>. QED BY <1>1, <1>2, <1>10, <1>11, <1>13, <1>14, <1>15 DEF HeapInv, call

-----------------------------------------------------------------------------
LEMMA HeapInvStep ==
  ASSUME NoWrap
  PROVE  HeapInv /\ [Next]_vars => HeapInv'
<1> SUFFICES ASSUME HeapInv, [Next]_vars PROVE HeapInv'
  OBVIOUS
<1>1. ASSUME NEW n \in Requests, Kmalloc(n, n) PROVE HeapInv'
  BY <1>1, KmallocStep, HeapAssumption DEF NoWrap
<1>2. ASSUME NEW a \in Arrays, Kcalloc(a[1], a[2]) PROVE HeapInv'
  <2> DEFINE n == a[1] * a[2]
  <2>1. a[1] \in Nat /\ a[2] \in Nat /\ n + 3 < WRAP
    BY HeapAssumption DEF NoWrap
  <2>2. n \in Nat
    BY <2>1
  <2>3. n % WRAP = n
    <3> HIDE DEF n
    <3>. QED BY <2>1, <2>2, HeapAssumption
  <2>4. Kmalloc(n, n)
    BY <1>2, <2>3 DEF Kcalloc
  <2> HIDE DEF n
  <2>. QED BY <2>1, <2>2, <2>4, KmallocStep
<1>3. ASSUME NEW b \in Live, Kfree(b) PROVE HeapInv'
  <2>1. /\ TypeOK /\ Tiling /\ SizesOK /\ LiveFits
        /\ heap_current = HEAP_START + HEADER /\ b \in Addrs /\ HEAP_START \in blocks
    BY <1>3 DEF HeapInv, Kfree, Live, TypeOK
  <2>2. /\ free' = [free EXCEPT ![b] = TRUE] /\ asked' = [asked EXCEPT ![b] = 0]
        /\ pc' = "merge" /\ cur' = HEAP_START
        /\ UNCHANGED <<blocks, size, next, heap_current, want, req>>
    BY <1>3 DEF Kfree
  <2>3. TypeOK'
    BY <2>1, <2>2 DEF TypeOK
  <2>4. Tiling' /\ SizesOK'
    BY <2>1, <2>2 DEF Tiling, SizesOK, End
  <2>5. LiveFits'
    BY <2>1, <2>2 DEF LiveFits, Live, TypeOK
  <2>6. CallOK'
    BY <2>1, <2>2 DEF CallOK
  <2>. QED BY <2>1, <2>2, <2>3, <2>4, <2>5, <2>6 DEF HeapInv
<1>4. CASE FindNext
  <2>1. pc = "find" /\ cur # NULL /\ cur' = next[cur]
        /\ UNCHANGED <<blocks, size, free, next, heap_current, asked, pc, want, req>>
    BY <1>4 DEF FindNext, list
  <2>2. cur \in blocks /\ cur' \in blocks \cup {NULL}
    BY <2>1 DEF HeapInv, CallOK, Tiling
  <2>3. TypeOK'
    BY <2>1, <2>2 DEF HeapInv, TypeOK
  <2>4. Tiling' /\ SizesOK' /\ LiveFits' /\ heap_current' = HEAP_START + HEADER
    BY <2>1 DEF HeapInv, Tiling, SizesOK, LiveFits, Live, End
  <2>5. CallOK'
    BY <2>1, <2>2 DEF HeapInv, CallOK
  <2>. QED BY <2>3, <2>4, <2>5 DEF HeapInv
<1>5. CASE TakeBlock
  <2>1. pc = "find" /\ cur \in blocks /\ Fits(cur)
    BY <1>5 DEF TakeBlock, HeapInv, CallOK
  <2>2. CASE size[cur] >= want + HEADER + 4
    BY <1>5, <2>1, <2>2, SplitStep DEF TakeBlock
  <2>3. CASE ~(size[cur] >= want + HEADER + 4)
    <3>1. /\ free' = [free EXCEPT ![cur] = FALSE]
          /\ asked' = [asked EXCEPT ![cur] = req]
          /\ UNCHANGED <<blocks, size, next, heap_current>>
          /\ pc' = "idle" /\ cur' = NULL /\ want' = 0 /\ req' = 0
      BY <1>5, <2>3 DEF TakeBlock, Return
    <3>2. /\ TypeOK /\ Tiling /\ SizesOK /\ LiveFits /\ CallOK
          /\ heap_current = HEAP_START + HEADER
      BY <2>1 DEF HeapInv
    <3>3. TypeOK'
      BY <3>1, <3>2 DEF TypeOK
    <3>4. Tiling' /\ SizesOK'
      BY <3>1, <3>2 DEF Tiling, SizesOK, End
    <3>5. LiveFits'
      <4> SUFFICES ASSUME NEW b \in Addrs, asked'[b] > 0
                   PROVE  b \in blocks' /\ ~free'[b] /\ asked'[b] <= size'[b]
        BY DEF LiveFits, Live
      <4>1. CASE b = cur
        <5>1. req <= size[cur] /\ asked'[b] = req /\ ~free'[b]
          BY <4>1, <2>1, <3>1, <3>2 DEF Fits, CallOK, TypeOK
        <5>. QED BY <4>1, <5>1, <2>1, <3>1
      <4>2. CASE b # cur
        BY <4>2, <3>1, <3>2 DEF LiveFits, Live, TypeOK
      <4>. QED BY <4>1, <4>2
    <3>6. CallOK'
      BY <3>1 DEF CallOK
    <3>. QED BY <3>1, <3>2, <3>3, <3>4, <3>5, <3>6 DEF HeapInv
  <2>. QED BY <2>2, <2>3
<1>6. CASE ExtendHeap
  <2>1. /\ pc = "find" /\ blocks' = blocks \cup {heap_current}
        /\ size' = [size EXCEPT ![heap_current] = want]
        /\ free' = [free EXCEPT ![heap_current] = FALSE]
        /\ heap_current' = (heap_current + HEADER + want) % WRAP
        /\ asked' = [asked EXCEPT ![heap_current] = req]
        /\ pc' = IF Overlaps(heap_current, want) THEN "clobbered" ELSE "idle"
        /\ cur' = NULL /\ want' = 0 /\ req' = 0
    BY <1>6 DEF ExtendHeap
  <2>2. PICK last \in blocks :
          next' = [next EXCEPT ![last] = heap_current, ![heap_current] = NULL]
    BY <1>6 DEF ExtendHeap
  <2>3. /\ TypeOK /\ Tiling /\ SizesOK
        /\ heap_current = HEAP_START + HEADER
        /\ want \in Nat /\ want > 0
    BY <2>1 DEF HeapInv, CallOK, TypeOK
  <2>4. heap_current \in Addrs /\ heap_current \in Nat
    BY <2>3, HeapAssumption DEF Addrs
  <2>5. Overlaps(heap_current, want)
    <3>1. HEAP_START \in blocks /\ End(HEAP_START) > HEAP_START + HEADER
      BY <2>3, BlockFacts, HeapAssumption DEF TypeOK
    <3>2. HEAP_START < heap_current + HEADER + want
      BY <2>3, HeapAssumption
    <3>. QED BY <2>3, <3>1, <3>2 DEF Overlaps
  <2>6. TypeOK'
    <3>1. heap_current' \in Nat
      BY <2>1, <2>3, <2>4, HeapAssumption
    <3>2. size' \in [Addrs -> Nat] /\ asked' \in [Addrs -> Nat]
      BY <2>1, <2>3, <2>4 DEF TypeOK
    <3>3. next' \in [Addrs -> Addrs \cup {NULL}]
      BY <2>2, <2>3, <2>4 DEF TypeOK
    <3>4. free' \in [Addrs -> BOOLEAN]
      BY <2>1, <2>3, <2>4 DEF TypeOK
    <3>. QED BY <2>1, <2>3, <2>4, <2>5, <3>1, <3>2, <3>3, <3>4 DEF TypeOK
  <2>. QED BY <2>1, <2>5, <2>6 DEF HeapInv
<1>7. CASE NoMemory
  <2>1. /\ pc = "find" /\ pc' = "idle" /\ cur' = NULL /\ want' = 0 /\ req' = 0
        /\ UNCHANGED <<blocks, size, free, next, heap_current, asked>>
    BY <1>7 DEF NoMemory, Return, list
  <2>. QED BY <2>1
       DEF HeapInv, TypeOK, Tiling, SizesOK, LiveFits, Live, CallOK, End
<1>8. CASE Merge
  BY <1>8, MergeStep
<1>9. CASE MergeNext
  <2>1. /\ pc = "merge" /\ next[cur] # NULL /\ cur' = next[cur]
        /\ UNCHANGED <<blocks, size, free, next, heap_current, asked, pc, want, req>>
    BY <1>9 DEF MergeNext, list
  <2>2. cur' \in blocks
    BY <2>1 DEF HeapInv, CallOK, Tiling
  <2>3. TypeOK'
    BY <2>1, <2>2 DEF HeapInv, TypeOK
  <2>4. Tiling' /\ SizesOK' /\ LiveFits' /\ heap_current' = HEAP_START + HEADER
    BY <2>1 DEF HeapInv, Tiling, SizesOK, LiveFits, Live, End
  <2>5. CallOK'
    BY <2>1, <2>2 DEF CallOK
  <2>. QED BY <2>3, <2>4, <2>5 DEF HeapInv
<1>10. CASE MergeDone
  <2>1. /\ pc = "merge" /\ pc' = "idle" /\ cur' = NULL /\ want' = 0 /\ req' = 0
        /\ UNCHANGED <<blocks, size, free, next, heap_current, asked>>
    BY <1>10 DEF MergeDone, Return, list
  <2>. QED BY <2>1
       DEF HeapInv, TypeOK, Tiling, SizesOK, LiveFits, Live, CallOK, End
<1>11. CASE UNCHANGED vars
  BY <1>11
  DEF vars, HeapInv, TypeOK, Tiling, SizesOK, LiveFits, Live, CallOK, End
<1>. QED
  BY <1>1, <1>2, <1>3, <1>4, <1>5, <1>6, <1>7, <1>8, <1>9, <1>10, <1>11
  DEF Next

(* From the inductive invariant to the claim about owners: two owned       *)
(* blocks are both on the list, and each ends before the other begins.     *)
LEMMA OwnersDisjoint == HeapInv => SoundUntilExtended
<1> SUFFICES ASSUME HeapInv, pc # "clobbered" PROVE Tiling /\ LiveDisjoint
  BY DEF SoundUntilExtended
<1>1. TypeOK /\ Tiling /\ SizesOK /\ LiveFits
  BY DEF HeapInv
<1>2. ASSUME NEW b \in Live, NEW c \in blocks, b < c
      PROVE  b + HEADER + asked[b] <= c
  <2>1. b \in blocks /\ asked[b] <= size[b] /\ asked[b] \in Nat
    BY <1>1 DEF LiveFits, Live, TypeOK
  <2>2. End(b) <= c /\ c \in Nat
    BY <1>1, <1>2, <2>1, BlockFacts DEF Tiling
  <2>3. b \in Nat /\ size[b] \in Nat /\ End(b) = b + HEADER + size[b]
    BY <1>1, <2>1, BlockFacts
  <2>. QED BY <2>1, <2>2, <2>3, HeapAssumption
<1>3. ASSUME NEW b \in blocks, NEW c \in blocks, c < b
      PROVE  c + HEADER <= b
  <2>1. End(c) <= b
    BY <1>1, <1>3 DEF Tiling
  <2>. QED BY <1>1, <2>1, BlockFacts, HeapAssumption
<1>4. ASSUME NEW b \in Live
      PROVE  b \in blocks /\ b \in Nat /\ b + HEADER + asked[b] <= HEAP_END
  <2>1. b \in blocks /\ asked[b] <= size[b] /\ asked[b] \in Nat
    BY <1>1 DEF LiveFits, Live, TypeOK
  <2>. QED BY <1>1, <2>1, BlockFacts, HeapAssumption
<1>5. \A c \in blocks : c \in Nat
  BY <1>1, BlockFacts
<1>. QED BY <1>1, <1>2, <1>3, <1>4, <1>5 DEF LiveDisjoint

(* As long as no aligned size wraps and no extension is made, the blocks   *)
(* tile the arena and no byte has two owners: for every arena, every       *)
(* sequence of kmalloc, kcalloc and kfree and every state inside them.     *)
THEOREM HeapSound ==
  ASSUME NoWrap
  PROVE  Spec => []SoundUntilExtended
BY HeapInit, HeapInvStep, OwnersDisjoint, PTL DEF Spec

(* The types.                                                              *)
THEOREM HeapTypes ==
  ASSUME NoWrap
  PROVE  Spec => []TypeOK
<1>1. HeapInv => TypeOK
  BY DEF HeapInv
<1>. QED BY HeapInit, HeapInvStep, <1>1, PTL DEF Spec

-----------------------------------------------------------------------------
(* What the merge has behind it is merged: no two neighbours are free      *)
(* before its pointer, and none anywhere outside a merge.                  *)
BothFreeAt(b) == free[b] /\ next[b] # NULL /\ free[next[b]]

Merged ==
  /\ pc \in {"idle", "find"} => \A b \in blocks : ~BothFreeAt(b)
  /\ pc = "merge" => \A b \in blocks : b < cur => ~BothFreeAt(b)

CoalescedInv == HeapInv /\ Merged

LEMMA MergedInit == Init => Merged
<1> SUFFICES ASSUME Init PROVE Merged
  OBVIOUS
<1>1. HEAP_START \in Addrs
  BY HeapAssumption DEF Addrs
<1>2. next[HEAP_START] = NULL /\ blocks = {HEAP_START} /\ pc = "idle"
  BY <1>1 DEF Init
<1>. QED BY <1>2 DEF Merged, BothFreeAt

(* Neighbours in the list are neighbours in the arena.                     *)
LEMMA NoneBetween ==
  ASSUME HeapInv, pc # "clobbered", NEW k \in blocks, NEW b \in blocks,
         next[k] # NULL, b < next[k]
  PROVE  b <= k
<1>1. TypeOK /\ Tiling /\ SizesOK
  BY DEF HeapInv
<1>2. k < b => End(k) <= b /\ End(k) = next[k]
  BY <1>1 DEF Tiling
<1>3. b \in Nat /\ k \in Nat /\ next[k] \in Nat
  BY <1>1, BlockFacts DEF Tiling
<1>. QED BY <1>2, <1>3

LEMMA NoneBehindLast ==
  ASSUME HeapInv, pc # "clobbered", NEW k \in blocks, NEW b \in blocks,
         next[k] = NULL
  PROVE  b <= k
<1>1. TypeOK /\ Tiling /\ SizesOK
  BY DEF HeapInv
<1>2. k < b => HEAP_END <= b
  BY <1>1 DEF Tiling
<1>3. b \in Nat /\ k \in Nat
  BY <1>1, BlockFacts
<1>4. ~(HEAP_END <= b)
  <2>1. b \in HEAP_START .. HEAP_END - 1
    BY <1>1 DEF TypeOK, Addrs
  <2>. QED BY <2>1, HeapAssumption
<1>. QED BY <1>2, <1>3, <1>4

LEMMA MergedTake ==
  ASSUME CoalescedInv, TakeBlock, HeapInv'
  PROVE  Merged'
<1>1. /\ TypeOK /\ pc = "find" /\ pc' = "idle" /\ cur \in blocks /\ free[cur]
      /\ \A b \in blocks : ~BothFreeAt(b)
      /\ Tiling /\ SizesOK /\ want \in Nat
  BY DEF CoalescedInv, HeapInv, CallOK, TakeBlock, Return, Fits, Merged, TypeOK
<1>2. CASE size[cur] >= want + HEADER + 4
  <2> DEFINE new == cur + HEADER + want
  <2>1. /\ blocks' = blocks \cup {new}
        /\ free' = [free EXCEPT ![cur] = FALSE, ![new] = TRUE]
        /\ next' = [next EXCEPT ![cur] = new, ![new] = next[cur]]
    BY <1>2 DEF TakeBlock, Split
  <2>2. new \in Nat /\ cur < new /\ new < End(cur) /\ cur \in Nat
    BY <1>1, <1>2, BlockFacts, HeapAssumption
  <2>3. new \notin blocks
    BY <1>1, <2>2, BlockFacts DEF Tiling
  <2>4. next[cur] # NULL => next[cur] \in blocks /\ ~free[next[cur]]
    BY <1>1 DEF BothFreeAt, Tiling
  <2> HIDE DEF new
  <2>5. ASSUME NEW b \in blocks', BothFreeAt(b)' PROVE FALSE
    <3>1. /\ blocks \subseteq Addrs /\ DOMAIN free = Addrs /\ DOMAIN next = Addrs
      BY <1>1 DEF TypeOK
    <3>2. b # cur
      BY <2>1, <2>2, <2>5, <1>1, <3>1 DEF BothFreeAt
    <3>3. next'[new] = next[cur]
      <4>1. new \in Addrs
        BY <1>1, <2>1 DEF HeapInv, TypeOK
      <4>. QED BY <4>1, <2>1, <3>1
    <3>4. CASE b = new
      <4>1. next[cur] \in Addrs /\ next[cur] # new /\ ~free[next[cur]]
        BY <3>3, <3>4, <2>3, <2>4, <2>5, <3>1 DEF BothFreeAt
      <4>2. ~free'[next[cur]]
        BY <4>1, <2>1, <3>1
      <4>. QED BY <4>2, <3>3, <3>4, <2>5 DEF BothFreeAt
    <3>5. CASE b # new
      <4>1. b \in blocks /\ free[b] /\ next'[b] = next[b] /\ next[b] # NULL
        BY <3>5, <3>2, <2>1, <2>5, <3>1 DEF BothFreeAt
      <4>2. next[b] \in blocks /\ ~free[next[b]]
        BY <4>1, <1>1 DEF Tiling, BothFreeAt
      <4>3. next[b] \in Addrs /\ next[b] # new
        BY <4>2, <2>3, <3>1
      <4>4. free'[next[b]] => free[next[b]]
        BY <4>3, <2>1, <3>1
      <4>. QED BY <4>1, <4>2, <4>4, <2>5 DEF BothFreeAt
    <3>. QED BY <3>4, <3>5
  <2>. QED BY <2>5, <1>1 DEF Merged
<1>3. CASE ~(size[cur] >= want + HEADER + 4)
  <2>1. free' = [free EXCEPT ![cur] = FALSE] /\ UNCHANGED <<blocks, next>>
    BY <1>3 DEF TakeBlock
  <2>2. ASSUME NEW b \in blocks, BothFreeAt(b)' PROVE FALSE
    <3>1. free[b] /\ next[b] # NULL /\ next[b] \in blocks
      BY <2>1, <2>2, <1>1 DEF BothFreeAt, Tiling, TypeOK
    <3>. QED BY <3>1, <2>1, <2>2, <1>1 DEF BothFreeAt, TypeOK
  <2>. QED BY <2>1, <2>2, <1>1 DEF Merged
<1>. QED BY <1>2, <1>3

LEMMA MergedMerge ==
  ASSUME CoalescedInv, Merge
  PROVE  Merged'
<1>1. /\ TypeOK /\ Tiling /\ SizesOK /\ pc = "merge" /\ cur \in blocks
      /\ next[cur] # NULL /\ free[cur] /\ next[cur] \in blocks
      /\ \A b \in blocks : b < cur => ~BothFreeAt(b)
  BY DEF CoalescedInv, HeapInv, CallOK, Merge, BothFree, Merged, Tiling
<1>2. /\ blocks' = blocks \ {next[cur]} /\ cur' = cur /\ pc' = "merge"
      /\ next' = [next EXCEPT ![cur] = next[next[cur]], ![next[cur]] = NULL]
      /\ free' = [free EXCEPT ![next[cur]] = FALSE]
  BY <1>1 DEF Merge, call
<1>3. ASSUME NEW b \in blocks', b < cur, BothFreeAt(b)' PROVE FALSE
  <2>1. b \in blocks /\ b # next[cur] /\ b # cur /\ b \in Addrs
    BY <1>1, <1>2, <1>3, BlockFacts
  <2>2. next'[b] = next[b] /\ free[b] /\ next[b] # NULL
    BY <2>1, <1>1, <1>2, <1>3 DEF BothFreeAt, TypeOK
  <2>3. next[b] \in blocks /\ ~free[next[b]]
    BY <2>1, <2>2, <1>1, <1>3 DEF BothFreeAt, Tiling
  <2>. QED BY <2>2, <2>3, <1>1, <1>2, <1>3 DEF BothFreeAt, TypeOK
<1>. QED BY <1>2, <1>3 DEF Merged

LEMMA MergedKmalloc ==
  ASSUME CoalescedInv, NEW m, NEW n, Kmalloc(m, n)
  PROVE  Merged'
BY DEF Kmalloc, list, CoalescedInv, Merged, BothFreeAt

(* A free block has its neighbours merged only when kfree comes past: no   *)
(* other step makes two free blocks neighbours.                            *)
LEMMA MergedStep == CoalescedInv /\ [Next]_vars /\ HeapInv' => Merged'
<1> SUFFICES ASSUME CoalescedInv, [Next]_vars, HeapInv' PROVE Merged'
  OBVIOUS
<1>1. ASSUME NEW m, NEW n, Kmalloc(m, n) PROVE Merged'
  BY <1>1, MergedKmalloc
<1>2. ASSUME NEW b \in Live, Kfree(b) PROVE Merged'
  <2>1. pc' = "merge" /\ cur' = HEAP_START /\ blocks' = blocks
    BY <1>2 DEF Kfree
  <2>2. \A c \in blocks : ~(c < HEAP_START)
    BY AddrFacts, HeapAssumption DEF CoalescedInv, HeapInv, TypeOK
  <2>. QED BY <2>1, <2>2 DEF Merged
<1>3. CASE FindNext \/ NoMemory
  BY <1>3 DEF FindNext, NoMemory, Return, list, CoalescedInv, Merged, BothFreeAt
<1>4. CASE TakeBlock
  BY <1>4, MergedTake
<1>5. CASE ExtendHeap
  <2>1. /\ pc = "find" /\ heap_current = HEAP_START + HEADER
        /\ TypeOK /\ Tiling /\ SizesOK /\ want \in Nat /\ want > 0
    BY <1>5 DEF ExtendHeap, CoalescedInv, HeapInv, CallOK, TypeOK
  <2>2. HEAP_START \in blocks /\ End(HEAP_START) > HEAP_START + HEADER
    BY <2>1, BlockFacts, HeapAssumption DEF TypeOK
  <2>3. Overlaps(heap_current, want)
    BY <2>1, <2>2, HeapAssumption DEF Overlaps
  <2>. QED BY <1>5, <2>3 DEF ExtendHeap, Merged
<1>6. CASE Merge
  BY <1>6, MergedMerge
<1>7. CASE MergeNext
  <2>1. /\ pc = "merge" /\ ~BothFree /\ next[cur] # NULL /\ cur' = next[cur]
        /\ UNCHANGED <<blocks, free, next, pc>> /\ cur \in blocks
        /\ \A b \in blocks : b < cur => ~BothFreeAt(b)
        /\ TypeOK /\ Tiling /\ SizesOK
    BY <1>7 DEF MergeNext, list, CoalescedInv, HeapInv, CallOK, Merged
  <2>2. ASSUME NEW b \in blocks, b < next[cur] PROVE ~BothFreeAt(b)
    <3>1. b <= cur
      BY <2>1, <2>2, NoneBetween DEF CoalescedInv
    <3>2. b < cur \/ b = cur
      BY <3>1, <2>1, BlockFacts
    <3>. QED BY <3>2, <2>1 DEF BothFree, BothFreeAt
  <2>. QED BY <2>1, <2>2 DEF Merged, BothFreeAt
<1>8. CASE MergeDone
  <2>1. /\ pc = "merge" /\ next[cur] = NULL /\ pc' = "idle"
        /\ UNCHANGED <<blocks, free, next>> /\ cur \in blocks
        /\ \A b \in blocks : b < cur => ~BothFreeAt(b)
        /\ TypeOK /\ Tiling /\ SizesOK
    BY <1>8 DEF MergeDone, Return, list, CoalescedInv, HeapInv, CallOK, Merged
  <2>2. ASSUME NEW b \in blocks PROVE ~BothFreeAt(b)
    <3>1. b <= cur
      BY <2>1, NoneBehindLast DEF CoalescedInv
    <3>2. b < cur \/ b = cur
      BY <3>1, <2>1, BlockFacts
    <3>. QED BY <3>2, <2>1 DEF BothFreeAt
  <2>. QED BY <2>1, <2>2 DEF Merged, BothFreeAt
<1>9. CASE UNCHANGED vars
  BY <1>9 DEF vars, CoalescedInv, Merged, BothFreeAt
<1>. QED
  BY <1>1, <1>2, <1>3, <1>4, <1>5, <1>6, <1>7, <1>8, <1>9 DEF Next, Kcalloc

LEMMA MergedIsCoalesced == CoalescedInv => Coalesced
BY DEF CoalescedInv, Merged, BothFreeAt, Coalesced

(* Between calls no two neighbours are free, for every arena and every     *)
(* history of calls: one pass of kfree over the list finds every pair, and *)
(* no split of kmalloc leaves one.                                         *)
THEOREM FreeBlocksMerged ==
  ASSUME NoWrap
  PROVE  Spec => []Coalesced
<1>1. Init => CoalescedInv
  BY HeapInit, MergedInit DEF CoalescedInv
<1>2. CoalescedInv /\ [Next]_vars => CoalescedInv'
  BY HeapInvStep, MergedStep DEF CoalescedInv
<1>. QED BY <1>1, <1>2, MergedIsCoalesced, PTL DEF Spec

AreasFit == \A area \in Areas : area + 3 < WRAP

(* While wm_create_window waits for kmalloc it is the only caller; the     *)
(* request under way is its own.                                           *)
WindowsOK ==
  /\ windows \in [Indices -> [visible : BOOLEAN, content_buffer : Addrs \cup {NULL},
                              bytes : Nat]]
  /\ window_count \in 0 .. MAX_WINDOWS
  /\ creating \in Nat
  /\ creating # 0 => pc = "find" /\ window_count < MAX_WINDOWS /\ req = creating
  /\ BuffersOwned

WmInv == HeapInv /\ WindowsOK

LEMMA WindowInit == WmInit => WmInv
<1> SUFFICES ASSUME WmInit PROVE WmInv
  OBVIOUS
<1>1. HeapInv
  BY HeapInit DEF WmInit
<1>2. WindowsOK
  BY WindowAssumption DEF WmInit, WindowsOK, BuffersOwned, Opened, Indices
<1>. QED BY <1>1, <1>2 DEF WmInv

(* Every step of WindowManager is one of the heap, or none of it, or a     *)
(* request of the window manager's own, which fits 32 bits: the heap's     *)
(* invariants need no new proof.                                           *)
LEMMA HeapSteps ==
  ASSUME AreasFit, ~MayCloseTwice, WmInv, [WmNext]_wm_vars
  PROVE  [Next]_vars \/ \E area \in Areas : area \in Nat /\ area + 3 < WRAP
                                            /\ Kmalloc(area, area)
<1>1. ASSUME NEW area \in Areas, CreateWindow(area)
      PROVE  area \in Nat /\ area + 3 < WRAP /\ Kmalloc(area, area)
  <2>1. area \in Nat /\ area + 3 < WRAP
    BY WindowAssumption DEF AreasFit
  <2>2. area % WRAP = area
    BY <2>1, HeapAssumption
  <2>. QED BY <1>1, <2>1, <2>2 DEF CreateWindow
<1>2. ASSUME NEW area \in Areas, CreateEmpty(area) PROVE [Next]_vars
  BY <1>2 DEF CreateEmpty
<1>3. CASE HeapStep
  BY <1>3 DEF HeapStep, Step, Next
<1>4. ASSUME NEW i \in Indices, CloseWindow(i) PROVE [Next]_vars
  <2> DEFINE b == windows[i].content_buffer
  <2>1. UNCHANGED vars \/ (b # NULL /\ Kfree(b))
    BY <1>4 DEF CloseWindow
  <2>2. CASE b # NULL /\ Kfree(b)
    <3>1. b \in Live
      BY <1>4, <2>2 DEF CloseWindow, WmInv, WindowsOK, BuffersOwned, Opened
    <3>. QED BY <2>2, <3>1 DEF Next
  <2>. QED BY <2>1, <2>2
<1>5. ASSUME NEW n \in Requests, OthersMalloc(n) PROVE [Next]_vars
  BY <1>5 DEF OthersMalloc, Next
<1>6. ASSUME NEW a \in Arrays, OthersCalloc(a[1], a[2]) PROVE [Next]_vars
  BY <1>6 DEF OthersCalloc, Next
<1>7. ASSUME NEW b \in Live, OthersFree(b) PROVE [Next]_vars
  BY <1>7 DEF OthersFree, Next
<1>8. CASE UNCHANGED wm_vars
  BY <1>8 DEF wm_vars
<1>. QED BY <1>1, <1>2, <1>3, <1>4, <1>5, <1>6, <1>7, <1>8 DEF WmNext

LEMMA HeapKept ==
  ASSUME NoWrap, AreasFit, ~MayCloseTwice, WmInv, [WmNext]_wm_vars
  PROVE  HeapInv'
<1>1. CASE [Next]_vars
  BY <1>1, HeapInvStep DEF WmInv
<1>2. ASSUME NEW area \in Areas, area \in Nat, area + 3 < WRAP, Kmalloc(area, area)
      PROVE  HeapInv'
  BY <1>2, KmallocStep DEF WmInv
<1>. QED BY <1>1, <1>2, HeapSteps

-----------------------------------------------------------------------------
(* What a step of the heap does to ownership: a block that is handed out   *)
(* was nobody's, and nobody else's bytes change hands.                     *)
LEMMA StepGrants ==
  ASSUME HeapInv, Step
  PROVE  \/ asked' = asked
         \/ /\ pc = "find" /\ pc' # "find"
            /\ \E b \in Addrs : b \notin Live /\ asked' = [asked EXCEPT ![b] = req]
<1>1. CASE FindNext \/ NoMemory \/ Merge \/ MergeNext \/ MergeDone
  BY <1>1 DEF FindNext, NoMemory, Merge, MergeNext, MergeDone
<1>2. CASE TakeBlock
  <2>1. /\ pc = "find" /\ pc' = "idle" /\ cur \in Addrs /\ free[cur]
        /\ asked' = [asked EXCEPT ![cur] = req]
    BY <1>2, HeapAssumption DEF TakeBlock, Return, Fits, HeapInv, TypeOK
  <2>2. cur \notin Live
    BY <2>1 DEF HeapInv, LiveFits
  <2>. QED BY <2>1, <2>2
<1>3. CASE ExtendHeap
  <2>1. /\ pc = "find" /\ pc' # "find" /\ heap_current = HEAP_START + HEADER
        /\ asked' = [asked EXCEPT ![heap_current] = req]
    BY <1>3 DEF ExtendHeap, HeapInv
  <2>2. heap_current \in Addrs
    BY <2>1, HeapAssumption DEF Addrs
  <2>3. heap_current \notin Live
    <3> SUFFICES ASSUME heap_current \in Live PROVE FALSE
      OBVIOUS
    <3>1. /\ heap_current \in blocks /\ HEAP_START \in blocks
          /\ TypeOK /\ Tiling /\ SizesOK
      BY <2>1 DEF HeapInv, LiveFits, TypeOK
    <3>2. HEAP_START < heap_current
      BY <2>1, HeapAssumption
    <3>3. End(HEAP_START) <= heap_current
      BY <3>1, <3>2 DEF Tiling
    <3>4. size[HEAP_START] > 0 /\ size[HEAP_START] \in Nat
          /\ End(HEAP_START) = HEAP_START + HEADER + size[HEAP_START]
      BY <3>1, BlockFacts
    <3>. QED BY <2>1, <3>3, <3>4, HeapAssumption
  <2>. QED BY <2>1, <2>2, <2>3
<1>. QED BY <1>1, <1>2, <1>3 DEF Step

(* Ownership in the terms the steps change it: what an open window holds   *)
(* changes hands neither by what other callers do nor when another window  *)
(* is opened or closed.                                                    *)
LEMMA OthersKeep ==
  ASSUME WmInv, UNCHANGED table, creating' = creating,
         creating' # 0 => pc' = "find" /\ req' = req,
         \A i \in Opened :
           LET b == windows[i].content_buffer IN b # NULL => asked'[b] = asked[b]
  PROVE  WindowsOK'
<1>1. Opened' = Opened /\ windows' = windows /\ window_count' = window_count
  BY DEF Opened, table
<1>2. BuffersOwned'
  BY <1>1 DEF BuffersOwned, WmInv, WindowsOK, Live
<1>. QED BY <1>1, <1>2 DEF WmInv, WindowsOK

(* The entry that wm_create_window fills: a buffer that was nobody's is no *)
(* other window's.                                                         *)
LEMMA EntryKeeps ==
  ASSUME WmInv, window_count < MAX_WINDOWS,
         NEW b \in Addrs \cup {NULL}, NEW n \in Nat,
         windows' = [windows EXCEPT ![window_count] = Entry(b, n)],
         window_count' = window_count + 1, creating' = 0,
         IF b = NULL THEN asked' = asked
                     ELSE b \notin Live /\ n > 0 /\ asked' = [asked EXCEPT ![b] = n]
  PROVE  WindowsOK'
<1> DEFINE k == window_count
<1>1. k \in Indices /\ k \in Nat /\ asked \in [Addrs -> Nat]
  BY WindowAssumption DEF WmInv, WindowsOK, HeapInv, TypeOK, Indices
<1>2. /\ windows' \in [Indices -> [visible : BOOLEAN, content_buffer : Addrs \cup {NULL},
                                   bytes : Nat]]
      /\ windows'[k] = Entry(b, n)
      /\ \A i \in Indices \ {k} : windows'[i] = windows[i]
  BY <1>1 DEF WmInv, WindowsOK, Entry
<1>3. Opened' = Opened \cup {k} /\ k \notin Opened
  BY <1>1, <1>2 DEF Opened, Indices, Entry
<1>4. ASSUME NEW i \in Opened, windows[i].content_buffer # NULL
      PROVE  /\ windows[i].content_buffer \in Live \ {b}
             /\ asked'[windows[i].content_buffer] = asked[windows[i].content_buffer]
  <2>1. windows[i].content_buffer \in Live /\ windows[i].content_buffer \in Addrs
    BY <1>4 DEF WmInv, WindowsOK, BuffersOwned, Live
  <2>2. windows[i].content_buffer # b
    BY <2>1, <1>4
  <2>. QED BY <2>1, <2>2, <1>1
<1>5. ASSUME NEW i \in Opened', windows'[i].content_buffer # NULL
      PROVE  /\ windows'[i].content_buffer \in Live'
             /\ asked'[windows'[i].content_buffer] = windows'[i].bytes
             /\ \A j \in Opened' \ {i} :
                  windows'[j].content_buffer # windows'[i].content_buffer
  <2>1. CASE i = k
    <3>1. /\ windows'[i].content_buffer = b /\ windows'[i].bytes = n
          /\ b \in Addrs /\ asked'[b] = n /\ n > 0
      BY <2>1, <1>1, <1>2, <1>5 DEF Entry
    <3>2. ASSUME NEW j \in Opened' \ {i} PROVE windows'[j].content_buffer # b
      <4>1. j \in Opened /\ windows'[j] = windows[j]
        BY <3>2, <2>1, <1>2, <1>3 DEF Opened
      <4>. QED BY <4>1, <1>4, <3>1, <1>5, <2>1
    <3>. QED BY <3>1, <3>2 DEF Live
  <2>2. CASE i # k
    <3>1. i \in Opened /\ windows'[i] = windows[i]
      BY <2>2, <1>2, <1>3 DEF Opened
    <3>2. /\ windows[i].content_buffer \in Live \ {b}
          /\ asked'[windows[i].content_buffer] = asked[windows[i].content_buffer]
          /\ asked[windows[i].content_buffer] = windows[i].bytes
          /\ \A j \in Opened \ {i} :
               windows[j].content_buffer # windows[i].content_buffer
      BY <3>1, <1>4, <1>5 DEF WmInv, WindowsOK, BuffersOwned
    <3>3. ASSUME NEW j \in Opened' \ {i}
          PROVE  windows'[j].content_buffer # windows'[i].content_buffer
      <4>1. CASE j = k
        BY <4>1, <1>2, <3>1, <3>2 DEF Entry
      <4>2. CASE j # k
        BY <4>2, <3>3, <3>1, <3>2, <1>2, <1>3 DEF Opened
      <4>. QED BY <4>1, <4>2
    <3>. QED BY <3>1, <3>2, <3>3 DEF Live
  <2>. QED BY <2>1, <2>2
<1>6. BuffersOwned'
  BY <1>5 DEF BuffersOwned
<1>7. window_count' \in 0 .. MAX_WINDOWS /\ creating' \in Nat
  BY WindowAssumption DEF WmInv, WindowsOK
<1>. QED BY <1>2, <1>6, <1>7 DEF WindowsOK

LEMMA WindowsKept ==
  ASSUME NoWrap, AreasFit, ~MayCloseTwice, WmInv, [WmNext]_wm_vars
  PROVE  WindowsOK'
<1>1. ASSUME NEW i \in Opened
      PROVE  LET b == windows[i].content_buffer IN
               b # NULL => b \in Live /\ b \in Addrs
  BY DEF WmInv, WindowsOK, BuffersOwned, Live
<1>2. ASSUME pc = "idle" PROVE creating = 0
  BY <1>2 DEF WmInv, WindowsOK
<1>3. ASSUME NEW area \in Areas, CreateWindow(area) PROVE WindowsOK'
  <2>1. area \in Nat /\ area % WRAP = area
    BY WindowAssumption, HeapAssumption DEF AreasFit
  <2>2. /\ window_count < MAX_WINDOWS /\ creating' = area /\ UNCHANGED table
        /\ pc' = "find" /\ req' = area /\ asked' = asked
    BY <1>3, <2>1 DEF CreateWindow, Kmalloc
  <2>3. BuffersOwned'
    BY <2>2 DEF BuffersOwned, Opened, Live, WmInv, WindowsOK, table
  <2>. QED BY <2>1, <2>2, <2>3 DEF WmInv, WindowsOK, table
<1>4. ASSUME NEW area \in Areas, CreateEmpty(area) PROVE WindowsOK'
  <2>1. /\ window_count < MAX_WINDOWS /\ creating' = 0 /\ asked' = asked
        /\ windows' = [windows EXCEPT ![window_count] = Entry(NULL, area)]
        /\ window_count' = window_count + 1 /\ area \in Nat
    BY <1>4, WindowAssumption DEF CreateEmpty, vars
  <2>. QED BY <2>1, EntryKeeps
<1>5. CASE HeapStep
  <2>1. Step /\ HeapInv
    BY <1>5 DEF HeapStep, WmInv
  <2>2. CASE creating # 0 /\ pc' # "find"
    <3>1. /\ windows' = [windows EXCEPT ![window_count] = Entry(Granted, creating)]
          /\ window_count' = window_count + 1 /\ creating' = 0
      BY <1>5, <2>2 DEF HeapStep
    <3>2. /\ window_count < MAX_WINDOWS /\ req = creating /\ creating \in Nat
          /\ creating > 0 /\ asked \in [Addrs -> Nat]
      BY <2>2 DEF WmInv, WindowsOK, HeapInv, TypeOK
    <3>3. CASE asked' = asked
      <4>1. Granted = NULL
        BY <3>3 DEF Granted, Live
      <4>. QED BY <3>1, <3>2, <3>3, <4>1, EntryKeeps
    <3>4. ASSUME NEW b \in Addrs, b \notin Live, asked' = [asked EXCEPT ![b] = req]
          PROVE  WindowsOK'
      <4>1. Live' = Live \cup {b} /\ Live' # Live
        BY <3>2, <3>4 DEF Live
      <4>2. Granted = b
        BY <3>4, <4>1 DEF Granted
      <4>3. b # NULL
        BY AddrFacts
      <4>. QED BY <3>1, <3>2, <3>4, <4>2, <4>3, EntryKeeps
    <3>. QED BY <2>1, <3>3, <3>4, StepGrants
  <2>3. CASE ~(creating # 0 /\ pc' # "find")
    <3>1. UNCHANGED table /\ creating' = creating
      BY <1>5, <2>3 DEF HeapStep
    <3>2. ASSUME creating' # 0 PROVE pc' = "find" /\ req' = req
      <4>1. pc = "find" /\ pc' = "find"
        BY <2>3, <3>1, <3>2 DEF WmInv, WindowsOK
      <4>. QED BY <4>1, <2>1 DEF Step, FindNext, TakeBlock, ExtendHeap, NoMemory,
                  Merge, MergeNext, MergeDone, Return
    <3>3. \A i \in Opened :
            LET b == windows[i].content_buffer IN b # NULL => asked'[b] = asked[b]
      BY <1>1, <2>1, StepGrants DEF HeapInv, TypeOK
    <3>. QED BY <3>1, <3>2, <3>3, OthersKeep
  <2>. QED BY <2>2, <2>3
<1>6. ASSUME NEW k \in Indices, CloseWindow(k) PROVE WindowsOK'
  <2> DEFINE c == windows[k].content_buffer
  <2>1. /\ k \in Opened /\ creating = 0 /\ creating' = 0 /\ window_count' = window_count
        /\ windows' = [windows EXCEPT ![k].visible = FALSE]
        /\ asked' = asked \/ (c # NULL /\ asked' = [asked EXCEPT ![c] = 0])
    BY <1>6 DEF CloseWindow, Kfree, Opened, vars
  <2>2. /\ windows' \in [Indices -> [visible : BOOLEAN,
                                     content_buffer : Addrs \cup {NULL}, bytes : Nat]]
        /\ ~windows'[k].visible /\ \A i \in Indices \ {k} : windows'[i] = windows[i]
    BY <2>1 DEF WmInv, WindowsOK
  <2>3. Opened' = Opened \ {k}
    BY <2>1, <2>2 DEF Opened
  <2>4. ASSUME NEW i \in Opened', windows'[i].content_buffer # NULL
        PROVE  /\ windows'[i].content_buffer \in Live'
               /\ asked'[windows'[i].content_buffer] = windows'[i].bytes
               /\ \A j \in Opened' \ {i} :
                    windows'[j].content_buffer # windows'[i].content_buffer
    <3>1. i \in Opened \ {k} /\ windows'[i] = windows[i]
      BY <2>2, <2>3 DEF Opened
    <3>2. /\ windows[i].content_buffer \in Live /\ windows[i].content_buffer # c
          /\ asked[windows[i].content_buffer] = windows[i].bytes
          /\ \A j \in Opened \ {i} :
               windows[j].content_buffer # windows[i].content_buffer
      BY <3>1, <2>1, <2>4 DEF WmInv, WindowsOK, BuffersOwned
    <3>3. asked'[windows[i].content_buffer] = asked[windows[i].content_buffer]
      <4>1. /\ asked \in [Addrs -> Nat] /\ windows[i].content_buffer \in Addrs
            /\ windows[i].content_buffer # c
        BY <3>2 DEF WmInv, HeapInv, TypeOK, Live
      <4> HIDE DEF c
      <4>. QED BY <4>1, <2>1
    <3>4. \A j \in Opened' : windows'[j] = windows[j]
      BY <2>2, <2>3 DEF Opened
    <3>. QED BY <3>1, <3>2, <3>3, <3>4, <2>3 DEF Live
  <2>5. BuffersOwned'
    BY <2>4 DEF BuffersOwned
  <2>. QED BY <2>1, <2>2, <2>5 DEF WmInv, WindowsOK
<1>7. ASSUME NEW n \in Requests, OthersMalloc(n) PROVE WindowsOK'
  BY <1>7, OthersKeep DEF OthersMalloc, Kmalloc
<1>8. ASSUME NEW a \in Arrays, OthersCalloc(a[1], a[2]) PROVE WindowsOK'
  BY <1>8, OthersKeep DEF OthersCalloc, Kcalloc, Kmalloc
<1>9. ASSUME NEW b \in Live, OthersFree(b) PROVE WindowsOK'
  <2>1. /\ UNCHANGED table /\ creating' = creating /\ creating = 0
        /\ asked' = [asked EXCEPT ![b] = 0]
        /\ \A i \in Opened : windows[i].content_buffer # b
    BY <1>9, <1>2 DEF OthersFree, Kfree
  <2>2. \A i \in Opened :
          LET d == windows[i].content_buffer IN d # NULL => asked'[d] = asked[d]
    BY <2>1, <1>1 DEF WmInv, HeapInv, TypeOK
  <2>. QED BY <2>1, <2>2, OthersKeep
<1>10. CASE UNCHANGED wm_vars
  BY <1>10, OthersKeep DEF wm_vars, vars, table, WmInv, WindowsOK
<1>. QED BY <1>3, <1>4, <1>5, <1>6, <1>7, <1>8, <1>9, <1>10 DEF WmNext

LEMMA WmInvStep ==
  ASSUME NoWrap, AreasFit, ~MayCloseTwice
  PROVE  WmInv /\ [WmNext]_wm_vars => WmInv'
BY HeapKept, WindowsKept DEF WmInv

(* The heap keeps its promise with the window manager among its callers:   *)
(* until the first extension the blocks tile the arena and no byte has two *)
(* owners, for every table size and every set of window sizes.             *)
THEOREM HeapSoundUnderWindows ==
  ASSUME NoWrap, AreasFit, ~MayCloseTwice
  PROVE  WmSpec => []SoundUntilExtended
<1>1. WmInv => SoundUntilExtended
  BY OwnersDisjoint DEF WmInv
<1>. QED BY WindowInit, WmInvStep, <1>1, PTL DEF WmSpec

(* An open window owns its content buffer, whatever was closed before and  *)
(* whoever else uses the heap, as long as no window is closed twice.       *)
THEOREM WindowsOwnBuffers ==
  ASSUME NoWrap, AreasFit, ~MayCloseTwice
  PROVE  WmSpec => []BuffersOwned
<1>1. WmInv => BuffersOwned
  BY DEF WmInv, WindowsOK
<1>. QED BY WindowInit, WmInvStep, <1>1, PTL DEF WmSpec

(* What the window manager allocates and frees is merged like the rest:    *)
(* between calls no two neighbouring blocks are free.                      *)
THEOREM MergedUnderWindows ==
  ASSUME NoWrap, AreasFit, ~MayCloseTwice
  PROVE  WmSpec => []Coalesced
<1>1. WmInit => WmInv /\ Merged
  BY WindowInit, MergedInit DEF WmInit
<1>2. WmInv /\ Merged /\ [WmNext]_wm_vars => (WmInv /\ Merged)'
  <2> SUFFICES ASSUME WmInv, Merged, [WmNext]_wm_vars PROVE WmInv' /\ Merged'
    OBVIOUS
  <2>1. WmInv' /\ HeapInv' /\ CoalescedInv
    BY WmInvStep DEF WmInv, CoalescedInv
  <2>2. Merged'
    BY <2>1, HeapSteps, MergedStep, MergedKmalloc
  <2>. QED BY <2>1, <2>2
<1>3. WmInv /\ Merged => Coalesced
  BY MergedIsCoalesced DEF WmInv, CoalescedInv
<1>. QED BY <1>1, <1>2, <1>3, PTL DEF WmSpec

-----------------------------------------------------------------------------
(* The allocator that callers see.  A live block's piece begins right      *)
(* behind its header, so different blocks have different pieces.           *)
LEMMA PiecesGrow ==
  ASSUME TypeOK, NEW b \in Addrs, b \notin Live, NEW n \in Nat, n > 0,
         asked' = [asked EXCEPT ![b] = n]
  PROVE  /\ OwnedPieces' = OwnedPieces \cup {[at |-> b + HEADER, bytes |-> n]}
         /\ [at |-> b + HEADER, bytes |-> n] \notin OwnedPieces
<1>1. Live' = Live \cup {b} /\ asked'[b] = n /\ \A c \in Live : asked'[c] = asked[c]
  BY DEF Live, TypeOK
<1>2. \A c \in Live : c + HEADER # b + HEADER
  BY AddrFacts, HeapAssumption DEF Live
<1>. QED BY <1>1, <1>2 DEF OwnedPieces

LEMMA PiecesShrink ==
  ASSUME TypeOK, NEW b \in Live, asked' = [asked EXCEPT ![b] = 0]
  PROVE  /\ OwnedPieces' = OwnedPieces \ {[at |-> b + HEADER, bytes |-> asked[b]]}
         /\ [at |-> b + HEADER, bytes |-> asked[b]] \in OwnedPieces
<1>1. Live' = Live \ {b} /\ \A c \in Live \ {b} : asked'[c] = asked[c]
  BY DEF Live, TypeOK
<1>2. \A c \in Live \ {b} : c + HEADER # b + HEADER
  BY AddrFacts, HeapAssumption DEF Live
<1>. QED BY <1>1, <1>2 DEF OwnedPieces

PiecesSound ==
  pc # "clobbered" => \A p \in OwnedPieces :
    /\ Arena!Bytes(p) # {} /\ Arena!Bytes(p) \subseteq HEAP_START .. HEAP_END - 1
    /\ \A q \in OwnedPieces \ {p} : Arena!Apart(q, p)

LEMMA PiecesAreSound == HeapInv => PiecesSound
<1> SUFFICES ASSUME HeapInv, pc # "clobbered", NEW p \in OwnedPieces
             PROVE  /\ Arena!Bytes(p) # {}
                    /\ Arena!Bytes(p) \subseteq HEAP_START .. HEAP_END - 1
                    /\ \A q \in OwnedPieces \ {p} : Arena!Apart(q, p)
  BY DEF PiecesSound
<1>1. PICK b \in Live : p = [at |-> b + HEADER, bytes |-> asked[b]]
  BY DEF OwnedPieces
<1>2. b \in Nat /\ HEAP_START <= b /\ asked[b] \in Nat /\ asked[b] > 0
  BY AddrFacts DEF Live, HeapInv, TypeOK
<1>3. LiveDisjoint
  BY OwnersDisjoint DEF SoundUntilExtended
<1>4. b + HEADER \in Arena!Bytes(p)
  BY <1>1, <1>2, HeapAssumption DEF Arena!Bytes
<1>5. Arena!Bytes(p) \subseteq HEAP_START .. HEAP_END - 1
  BY <1>1, <1>2, <1>3, HeapAssumption DEF Arena!Bytes, LiveDisjoint
<1>6. ASSUME NEW q \in OwnedPieces \ {p} PROVE Arena!Apart(q, p)
  <2>1. PICK c \in Live : q = [at |-> c + HEADER, bytes |-> asked[c]]
    BY DEF OwnedPieces
  <2>2. c \in Nat /\ asked[c] \in Nat
    BY AddrFacts DEF Live, HeapInv, TypeOK
  <2>3. c + HEADER + asked[c] <= b \/ b + HEADER + asked[b] <= c
    BY <1>1, <1>3, <1>6, <2>1 DEF LiveDisjoint
  <2>. QED BY <1>1, <1>2, <2>1, <2>2, <2>3, HeapAssumption DEF Arena!Bytes, Arena!Apart
<1>. QED BY <1>4, <1>5, <1>6

(* The extension's block always overlaps the first one.                    *)
LEMMA ExtensionClobbers ==
  ASSUME HeapInv, ExtendHeap
  PROVE  pc' = "clobbered"
<1>1. /\ pc = "find"
      /\ pc' = IF Overlaps(heap_current, want) THEN "clobbered" ELSE "idle"
  BY DEF ExtendHeap
<1>2. /\ TypeOK /\ Tiling /\ SizesOK /\ heap_current = HEAP_START + HEADER
      /\ want \in Nat /\ want > 0 /\ HEAP_START \in blocks
  BY <1>1 DEF HeapInv, CallOK, TypeOK
<1>3. End(HEAP_START) > HEAP_START + HEADER
  BY <1>2, BlockFacts, HeapAssumption
<1>4. HEAP_START < heap_current + HEADER + want
  BY <1>2, HeapAssumption
<1>. QED BY <1>1, <1>2, <1>3, <1>4 DEF Overlaps

LEMMA ArenaStart == Init => Arena!AllocInit
BY DEF Init, Arena!AllocInit, OwnedPieces, Live

(* A step that changes no owner is a stutter of the allocator.             *)
LEMMA ArenaRests ==
  ASSUME asked' = asked, pc # "clobbered", pc' # "clobbered"
  PROVE  UNCHANGED Arena!alloc_vars
BY DEF Arena!alloc_vars, OwnedPieces, Live

LEMMA ArenaTake ==
  ASSUME HeapInv, PiecesSound', TakeBlock
  PROVE  Arena!AllocNext
<1> DEFINE piece == [at |-> cur + HEADER, bytes |-> req]
<1>1. /\ pc = "find" /\ pc' = "idle" /\ cur \in Addrs /\ free[cur]
      /\ asked' = [asked EXCEPT ![cur] = req] /\ req \in Nat /\ req > 0
      /\ TypeOK /\ LiveFits
  BY HeapAssumption DEF TakeBlock, Return, Fits, HeapInv, TypeOK, CallOK
<1>2. cur \notin Live
  BY <1>1 DEF LiveFits
<1>3. OwnedPieces' = OwnedPieces \cup {piece} /\ piece \notin OwnedPieces
  BY <1>1, <1>2, PiecesGrow
<1>4. /\ Arena!Bytes(piece) # {} /\ Arena!Bytes(piece) \subseteq HEAP_START .. HEAP_END - 1
      /\ \A p \in OwnedPieces : Arena!Apart(p, piece)
  BY <1>1, <1>3 DEF PiecesSound, Arena!Bytes, Arena!Apart
<1>. QED BY <1>1, <1>3, <1>4 DEF Arena!AllocNext, Arena!Grant

LEMMA ArenaGiveBack ==
  ASSUME HeapInv, NEW b \in Live, Kfree(b)
  PROVE  Arena!AllocNext
<1>1. pc = "idle" /\ pc' = "merge" /\ asked' = [asked EXCEPT ![b] = 0] /\ TypeOK
  BY DEF Kfree, HeapInv
<1>. QED BY <1>1, PiecesShrink DEF Arena!AllocNext, Arena!GiveBack

LEMMA ArenaWithdraws ==
  ASSUME HeapInv, ExtendHeap
  PROVE  Arena!AllocNext
<1>1. pc = "find" /\ pc' = "clobbered"
  BY ExtensionClobbers DEF ExtendHeap
<1>. QED BY <1>1 DEF Arena!AllocNext, Arena!Withdraw

LEMMA KmallocRests ==
  ASSUME NEW m, NEW n, Kmalloc(m, n)
  PROVE  UNCHANGED Arena!alloc_vars
<1>1. asked' = asked /\ pc # "clobbered" /\ pc' # "clobbered"
  BY DEF Kmalloc
<1>. QED BY <1>1, ArenaRests

(* Each step of a call is a grant, a gift back, the end of the promise or  *)
(* nothing to the callers.                                                 *)
LEMMA ArenaStep ==
  HeapInv /\ PiecesSound' /\ [Next]_vars => [Arena!AllocNext]_(Arena!alloc_vars)
<1> SUFFICES ASSUME HeapInv, PiecesSound', [Next]_vars
             PROVE  Arena!AllocNext \/ UNCHANGED Arena!alloc_vars
  OBVIOUS
<1>1. ASSUME NEW n \in Requests, Kmalloc(n, n) PROVE UNCHANGED Arena!alloc_vars
  BY <1>1, KmallocRests
<1>2. ASSUME NEW a \in Arrays, Kcalloc(a[1], a[2]) PROVE UNCHANGED Arena!alloc_vars
  BY <1>2, KmallocRests DEF Kcalloc
<1>3. ASSUME NEW b \in Live, Kfree(b) PROVE Arena!AllocNext
  BY <1>3, ArenaGiveBack
<1>4. CASE FindNext \/ NoMemory \/ Merge \/ MergeNext \/ MergeDone
  <2>1. asked' = asked /\ pc # "clobbered" /\ pc' # "clobbered"
    BY <1>4 DEF FindNext, NoMemory, Merge, MergeNext, MergeDone, Return, call
  <2>. QED BY <2>1, ArenaRests
<1>5. CASE TakeBlock
  BY <1>5, ArenaTake
<1>6. CASE ExtendHeap
  BY <1>6, ArenaWithdraws
<1>7. CASE UNCHANGED vars
  BY <1>7 DEF vars, Arena!alloc_vars, OwnedPieces, Live
<1>. QED BY <1>1, <1>2, <1>3, <1>4, <1>5, <1>6, <1>7 DEF Next

(* The heap implements the allocator, for every arena and every history of *)
(* calls: the blocks, the list and the loops over it are of no concern to  *)
(* a caller until an extension is made.                                    *)
THEOREM HeapImplementsAllocator ==
  ASSUME NoWrap
  PROVE  Spec => RefinesAllocator
BY HeapInit, HeapInvStep, PiecesAreSound, ArenaStart, ArenaStep, PTL
   DEF Spec, RefinesAllocator, Arena!AllocSpec

(* The same with the window manager among the callers.                     *)
THEOREM WindowsUseAllocator ==
  ASSUME NoWrap, AreasFit, ~MayCloseTwice
  PROVE  WmSpec => RefinesAllocator
<1>1. WmInit => WmInv /\ Arena!AllocInit
  BY WindowInit, ArenaStart DEF WmInit
<1>2. WmInv /\ PiecesSound' /\ [WmNext]_wm_vars => [Arena!AllocNext]_(Arena!alloc_vars)
  <2> SUFFICES ASSUME WmInv, PiecesSound', [WmNext]_wm_vars
               PROVE  [Arena!AllocNext]_(Arena!alloc_vars)
    OBVIOUS
  <2>1. CASE [Next]_vars
    BY <2>1, ArenaStep DEF WmInv
  <2>2. ASSUME NEW area \in Areas, Kmalloc(area, area)
        PROVE  [Arena!AllocNext]_(Arena!alloc_vars)
    BY <2>2, KmallocRests
  <2>. QED BY <2>1, <2>2, HeapSteps
<1>3. WmInv => PiecesSound
  BY PiecesAreSound DEF WmInv
<1>. QED
  BY <1>1, <1>2, <1>3, WmInvStep, PTL DEF WmSpec, RefinesAllocator, Arena!AllocSpec

-----------------------------------------------------------------------------
(* Calls that ask for no more than a free block holds, or for more than    *)
(* the heap will ever have, never reach the extension: the search has not  *)
(* passed the block that fits.                                             *)
InReach ==
  pc = "find" => \/ NoRoom(want)
                 \/ cur # NULL /\ \E b \in blocks : cur <= b /\ Fits(b)

LEMMA SearchAhead ==
  ASSUME HeapInv, InReach, FindNext
  PROVE  InReach'
<1>1. /\ pc = "find" /\ cur # NULL /\ ~Fits(cur) /\ cur' = next[cur]
      /\ UNCHANGED <<blocks, size, free, next, heap_current, asked, pc, want, req>>
  BY DEF FindNext, list
<1>2. NoRoom(want) <=> NoRoom(want)'
  BY <1>1 DEF NoRoom
<1>3. CASE \E b \in blocks : cur <= b /\ Fits(b)
  <2>1. PICK b \in blocks : cur <= b /\ Fits(b)
    BY <1>3
  <2>2. /\ cur \in blocks /\ TypeOK /\ Tiling /\ SizesOK
    BY <1>1 DEF HeapInv, CallOK
  <2>3. cur \in Nat /\ b \in Nat /\ cur < b
    BY <1>1, <2>1, <2>2, BlockFacts
  <2>4. End(cur) <= b /\ b < End(b) /\ End(b) <= HEAP_END
    BY <2>2, <2>3, BlockFacts DEF Tiling
  <2>5. next[cur] # NULL /\ next[cur] <= b
    BY <2>2, <2>3, <2>4, BlockFacts, HeapAssumption DEF Tiling
  <2>6. b \in blocks' /\ Fits(b)'
    BY <1>1, <2>1 DEF Fits
  <2>. QED BY <1>1, <2>5, <2>6 DEF InReach
<1>. QED BY <1>1, <1>2, <1>3 DEF InReach

LEMMA KmallocInReach ==
  ASSUME HeapInv, ~MayExtend, NEW m, NEW n, Kmalloc(m, n)
  PROVE  InReach'
<1>1. /\ cur' = HEAP_START /\ want' = Align(n) /\ pc' = "find"
      /\ UNCHANGED <<blocks, size, free, next, heap_current>>
  BY DEF Kmalloc, list
<1>2. CASE NoRoom(Align(n))
  BY <1>1, <1>2 DEF InReach, NoRoom
<1>3. CASE \E b \in blocks : free[b] /\ size[b] >= Align(n)
  <2>1. PICK b \in blocks : free[b] /\ size[b] >= Align(n)
    BY <1>3
  <2>2. HEAP_START <= b /\ HEAP_START # NULL
    BY AddrFacts, HeapAssumption DEF HeapInv, TypeOK
  <2>. QED BY <1>1, <2>1, <2>2 DEF InReach, Fits
<1>. QED BY <1>2, <1>3 DEF Kmalloc

NeverClobbered == pc # "clobbered"

LEMMA InReachStep ==
  ASSUME ~MayExtend, HeapInv, InReach, NeverClobbered, [Next]_vars
  PROVE  InReach' /\ NeverClobbered'
<1>1. ASSUME NEW n \in Requests, Kmalloc(n, n) PROVE InReach' /\ NeverClobbered'
  BY <1>1, KmallocInReach DEF Kmalloc, NeverClobbered
<1>2. ASSUME NEW a \in Arrays, Kcalloc(a[1], a[2]) PROVE InReach' /\ NeverClobbered'
  BY <1>2, KmallocInReach DEF Kcalloc, Kmalloc, NeverClobbered
<1>3. ASSUME NEW b \in Live, Kfree(b) PROVE InReach' /\ NeverClobbered'
  BY <1>3 DEF Kfree, InReach, NeverClobbered
<1>4. CASE FindNext
  BY <1>4, SearchAhead DEF FindNext, NeverClobbered
<1>5. CASE TakeBlock \/ NoMemory \/ MergeDone
  BY <1>5 DEF TakeBlock, NoMemory, MergeDone, Return, InReach, NeverClobbered
<1>6. CASE ExtendHeap
  BY <1>6 DEF ExtendHeap, InReach
<1>7. CASE Merge \/ MergeNext
  BY <1>7 DEF Merge, MergeNext, call, InReach, NeverClobbered
<1>8. CASE UNCHANGED vars
  BY <1>8 DEF vars, InReach, NoRoom, Fits, NeverClobbered
<1>. QED BY <1>1, <1>2, <1>3, <1>4, <1>5, <1>6, <1>7, <1>8 DEF Next

(* Callers that never ask for more than a free block holds, unless it is   *)
(* more than kmalloc would place at heap_current either, keep the heap     *)
(* sound for ever: blocks tile the arena and no byte has two owners.       *)
THEOREM SoundWithinArena ==
  ASSUME NoWrap, ~MayExtend
  PROVE  Spec => [](NeverClobbered /\ Tiling /\ LiveDisjoint)
<1>1. Init => InReach /\ NeverClobbered
  BY DEF Init, InReach, NeverClobbered
<1>2. HeapInv /\ InReach /\ NeverClobbered /\ [Next]_vars => InReach' /\ NeverClobbered'
  BY InReachStep
<1>3. HeapInv /\ NeverClobbered => NeverClobbered /\ Tiling /\ LiveDisjoint
  BY OwnersDisjoint DEF NeverClobbered, SoundUntilExtended
<1>. QED BY <1>1, <1>2, <1>3, HeapInit, HeapInvStep, PTL DEF Spec

-----------------------------------------------------------------------------
(* Why a call of kmalloc or kfree ends: each turn of its loop takes it     *)
(* nearer to the end of the arena, and the search finds an end of the list *)
(* where the extension can link its block.  (That the steps are taken is   *)
(* fairness, and stays with TLC as CallsReturn.)                           *)
Nearer ==
  /\ pc = "find" /\ pc' = "find" => cur \in blocks /\ (cur' = NULL \/ cur < cur')
  /\ pc = "merge" /\ pc' = "merge" => End(cur) < End(cur)' /\ End(cur)' <= HEAP_END

LoopsAdvance == [][Nearer]_vars

HasLast == pc # "clobbered" => \E b \in blocks : next[b] = NULL

LEMMA HasLastTake ==
  ASSUME HeapInv, HasLast, TakeBlock
  PROVE  HasLast'
<1>1. /\ pc = "find" /\ cur \in blocks /\ TypeOK /\ Tiling /\ SizesOK
      /\ want \in Nat /\ want > 0 /\ want % 4 = 0
  BY DEF TakeBlock, HeapInv, CallOK, TypeOK
<1>2. PICK last \in blocks : next[last] = NULL
  BY <1>1 DEF HasLast
<1>3. CASE size[cur] >= want + HEADER + 4
  <2> DEFINE new == cur + HEADER + want
  <2>1. /\ blocks' = blocks \cup {new}
        /\ next' = [next EXCEPT ![cur] = new, ![new] = next[cur]]
    BY <1>3 DEF TakeBlock, Split
  <2>2. /\ cur \in Addrs /\ cur \in Nat /\ size[cur] \in Nat /\ size[cur] % 4 = 0
        /\ End(cur) = cur + HEADER + size[cur] /\ End(cur) <= HEAP_END
    BY <1>1, BlockFacts
  <2>3. new \in Nat /\ cur < new /\ new < End(cur)
    BY <1>1, <1>3, <2>2, HeapAssumption
  <2>4. new \notin blocks
    <3> SUFFICES ASSUME new \in blocks PROVE FALSE
      OBVIOUS
    <3>1. End(cur) <= new
      BY <1>1, <2>3 DEF Tiling
    <3>. QED BY <2>2, <2>3, <3>1, HeapAssumption
  <2>5. new \in Addrs
    <3>1. cur % 4 = 0 /\ HEAP_START <= cur
      BY <2>2, AddrFacts
    <3>2. new % 4 = 0
      BY <1>1, <2>2, <3>1, HeapAssumption
    <3>. QED BY <2>2, <2>3, <3>1, <3>2, HeapAssumption DEF Addrs
  <2> HIDE DEF new
  <2>6. last # new /\ cur # new /\ last \in Addrs
    BY <1>1, <1>2, <2>4 DEF TypeOK
  <2>7. next'[new] = next[cur] /\ (last # cur => next'[last] = NULL)
    BY <1>1, <1>2, <2>1, <2>2, <2>5, <2>6 DEF TypeOK
  <2>. QED BY <1>2, <2>1, <2>7 DEF HasLast
<1>4. CASE ~(size[cur] >= want + HEADER + 4)
  BY <1>2, <1>4 DEF TakeBlock, HasLast
<1>. QED BY <1>3, <1>4

LEMMA HasLastMerge ==
  ASSUME HeapInv, HasLast, Merge
  PROVE  HasLast'
<1>1. /\ pc = "merge" /\ cur \in blocks /\ TypeOK /\ Tiling /\ SizesOK
  BY DEF Merge, HeapInv, CallOK
<1>2. PICK last \in blocks : next[last] = NULL
  BY <1>1 DEF HasLast
<1>3. PICK n \in blocks : /\ n = next[cur]
                         /\ blocks' = blocks \ {n}
                         /\ next' = [next EXCEPT ![cur] = next[n], ![n] = NULL]
  BY <1>1 DEF Merge, BothFree, Tiling
<1>4. cur < n /\ n \in Nat /\ cur \in Nat /\ n \in Addrs /\ cur \in Addrs /\ last \in Addrs
  <2>1. End(cur) = n
    BY <1>1, <1>3, AddrFacts DEF Tiling, TypeOK
  <2>. QED BY <1>1, <1>2, <1>3, <2>1, BlockFacts
<1>5. CASE last = n
  <2>1. cur \in blocks' /\ next'[cur] = NULL
    BY <1>1, <1>2, <1>3, <1>4, <1>5 DEF TypeOK
  <2>. QED BY <2>1 DEF HasLast
<1>6. CASE last # n
  <2>1. last # cur
    BY <1>2, <1>3, <1>4, AddrFacts
  <2>2. last \in blocks' /\ next'[last] = NULL
    BY <1>1, <1>2, <1>3, <1>4, <1>6, <2>1 DEF TypeOK
  <2>. QED BY <2>2 DEF HasLast
<1>. QED BY <1>5, <1>6

LEMMA HasLastStep == HeapInv /\ HasLast /\ [Next]_vars => HasLast'
<1> SUFFICES ASSUME HeapInv, HasLast, [Next]_vars PROVE HasLast'
  OBVIOUS
<1>1. ASSUME NEW m, NEW n, Kmalloc(m, n) PROVE HasLast'
  BY <1>1 DEF Kmalloc, list, HasLast
<1>2. ASSUME NEW b \in Live, Kfree(b) PROVE HasLast'
  BY <1>2 DEF Kfree, HasLast
<1>3. CASE FindNext \/ NoMemory \/ MergeNext \/ MergeDone
  BY <1>3 DEF FindNext, NoMemory, MergeNext, MergeDone, list, HasLast
<1>4. CASE ExtendHeap
  BY <1>4, ExtensionClobbers DEF HasLast
<1>5. CASE UNCHANGED vars
  BY <1>5 DEF vars, HasLast
<1>. QED BY <1>1, <1>2, <1>3, <1>4, <1>5, HasLastTake, HasLastMerge DEF Next, Kcalloc

LEMMA StepIsNearer == HeapInv /\ HeapInv' /\ [Next]_vars => [Nearer]_vars
<1> SUFFICES ASSUME HeapInv, HeapInv', Next PROVE Nearer
  OBVIOUS
<1>1. CASE FindNext
  <2>1. /\ pc = "find" /\ pc' = "find" /\ cur # NULL /\ cur' = next[cur]
        /\ cur \in blocks /\ TypeOK /\ Tiling /\ SizesOK
    BY <1>1 DEF FindNext, HeapInv, CallOK
  <2>2. cur' # NULL => cur < cur'
    BY <2>1, BlockFacts DEF Tiling
  <2>. QED BY <2>1, <2>2 DEF Nearer
<1>2. CASE Merge
  <2>1. /\ pc = "merge" /\ pc' = "merge" /\ cur \in blocks /\ TypeOK /\ Tiling /\ SizesOK
    BY <1>2 DEF Merge, HeapInv, CallOK, call
  <2>2. PICK n \in blocks : /\ n = next[cur] /\ cur' = cur /\ blocks' = blocks \ {n}
                           /\ size' = [size EXCEPT ![cur] = @ + HEADER + size[n], ![n] = 0]
    BY <1>2, <2>1 DEF Merge, BothFree, Tiling, call
  <2>3. /\ n \in Addrs /\ n \in Nat /\ n # NULL /\ size[n] \in Nat /\ n < End(n)
        /\ End(n) = n + HEADER + size[n] /\ End(n) <= HEAP_END
        /\ cur \in Addrs /\ cur \in Nat /\ size[cur] \in Nat /\ cur < End(cur)
        /\ End(cur) = cur + HEADER + size[cur]
    BY <2>1, BlockFacts, AddrFacts
  <2>4. End(cur) = n
    BY <2>1, <2>2, <2>3 DEF Tiling
  <2>5. size'[cur] = size[cur] + HEADER + size[n]
    <3>1. cur # n
      BY <2>3, <2>4
    <3>. QED BY <2>1, <2>2, <2>3, <3>1 DEF TypeOK
  <2>6. End(cur)' = n + HEADER + size[n]
    BY <2>2, <2>3, <2>4, <2>5, HeapAssumption DEF End
  <2>. QED BY <2>1, <2>3, <2>4, <2>6 DEF Nearer
<1>3. CASE MergeNext
  <2>1. /\ pc = "merge" /\ pc' = "merge" /\ cur \in blocks /\ TypeOK /\ Tiling /\ SizesOK
        /\ next[cur] # NULL /\ cur' = next[cur] /\ size' = size
    BY <1>3 DEF MergeNext, HeapInv, CallOK, list
  <2>2. next[cur] \in blocks /\ End(cur) = next[cur]
    BY <2>1 DEF Tiling
  <2>3. End(cur) < End(next[cur]) /\ End(next[cur]) <= HEAP_END
    BY <2>1, <2>2, BlockFacts
  <2>4. End(cur)' = End(next[cur])
    BY <2>1 DEF End
  <2>. QED BY <2>1, <2>3, <2>4 DEF Nearer
<1>4. CASE TakeBlock \/ NoMemory \/ MergeDone \/ ExtendHeap
  BY <1>4 DEF TakeBlock, NoMemory, MergeDone, ExtendHeap, Return, Nearer
<1>5. ASSUME NEW m, NEW n, Kmalloc(m, n) PROVE Nearer
  BY <1>5 DEF Kmalloc, Nearer
<1>6. ASSUME NEW b \in Live, Kfree(b) PROVE Nearer
  BY <1>6 DEF Kfree, Nearer
<1>. QED BY <1>1, <1>2, <1>3, <1>4, <1>5, <1>6 DEF Next, Kcalloc

(* No chain of splits and merges makes the list run in a circle: the       *)
(* search goes to ever higher addresses, the merge has ever more of the    *)
(* arena behind it, and the list has an end.                               *)
THEOREM CallsAdvance ==
  ASSUME NoWrap
  PROVE  Spec => []HasLast /\ LoopsAdvance
<1>1. Init => HasLast
  BY HeapAssumption DEF Init, HasLast, Addrs
<1>. QED
  BY <1>1, HeapInit, HeapInvStep, HasLastStep, StepIsNearer, PTL DEF Spec, LoopsAdvance
=============================================================================
