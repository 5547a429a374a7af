-------------------------- MODULE LanceChunks_proofs --------------------------
(***************************************************************************)
(* Theorems about LlmGateway, for any limit, period and number of calls,   *)
(* and about LanceChunks, for any number of runs, sources, texts and       *)
(* tokens and any budget of a window.  The lemmas take a step of the       *)
(* gateway (GatewayInv) or of the table (TableStep) and not of a module's  *)
(* next-state relation, so that they hold where other callers take part.   *)
(***************************************************************************)
EXTENDS LanceChunks, FiniteSetTheorems, SequenceTheorems, TLAPS

(* The gateway.                                                            *)

\* The loop of the limiter pops the first c entries, and counts them as it does.
LEMMA ExpiredIsPrefix ==
    ASSUME NEW w \in Seq(Nat), NEW t \in Nat
    PROVE  \E c \in 0..Len(w) : Expired(w, t) = 1..c /\ Cardinality(Expired(w, t)) = c
<1>. DEFINE E == Expired(w, t)
            c == Cardinality(E)
<1>1. E \subseteq 1..Len(w) /\ \A i \in E : 1..i \subseteq E
  <2>1. Len(w) \in Nat /\ DOMAIN w = 1..Len(w)
    OBVIOUS
  <2>2. \A i \in E : i \in 1..Len(w) /\ \A j \in 1..i : t - w[j] >= Period
    BY <2>1 DEF Expired
  <2>3. ASSUME NEW i \in E, NEW h \in 1..i PROVE h \in E
    <3>1. h \in 1..Len(w) /\ \A j \in 1..h : j \in 1..i
      BY <2>1, <2>2
    <3>. QED  BY <2>1, <2>2, <3>1 DEF Expired
  <2>. QED  BY <2>2, <2>3
<1>2. Len(w) \in Nat /\ IsFiniteSet(1..Len(w)) /\ Cardinality(1..Len(w)) = Len(w)
  <2>1. Len(w) \in Nat
    OBVIOUS
  <2>2. \A n \in Nat : IsFiniteSet(1..n) /\ Cardinality(1..n) = n
    BY FS_Interval
  <2>. QED  BY <2>1, <2>2
<1>3. IsFiniteSet(E) /\ c \in Nat /\ c <= Len(w)
  BY <1>1, <1>2, FS_Subset, FS_CardinalityType
<1>4. \A i \in E : i <= c
  <2>1. TAKE i \in E
  <2>2. i \in Nat \ {0}
    BY <1>1, <1>2
  <2>3. Cardinality(1..i) = i
    BY <2>2, FS_Interval
  <2>. QED  BY <1>1, <1>3, <2>3, FS_Subset
<1>5. E \subseteq 1..c
  BY <1>1, <1>3, <1>4
<1>6. IsFiniteSet(1..c) /\ Cardinality(1..c) = c
  BY <1>3, FS_Interval
<1>7. E = 1..c
  BY <1>5, <1>6, FS_Subset
<1>. QED  BY <1>3, <1>7
-----------------------------------------------------------------------------
GatewayTyped ==
    mock \in BOOLEAN /\ now \in Nat /\ window \in Seq(Nat) /\ admitted \in Seq(Nat)

\* w is what is left of the history without its first k calls, which are too old
\* to count.
Counts(w, k) ==
    /\ k \in 0..Len(admitted)
    /\ Len(w) = Len(admitted) - k
    /\ \A i \in 1..Len(w) : w[i] = admitted[k + i]
    /\ \A i \in 1..k : now - admitted[i] >= Period

\* The window leaves out no admitted call that still counts.
WindowCounts == \E k \in Nat : Counts(window, k)

GatewayInv == GatewayTyped /\ WindowCounts /\ RateLimit

LEMMA PrunedCounts ==
    ASSUME GatewayTyped, WindowCounts, NEW w, w = Prune(window, now)
    PROVE  w \in Seq(Nat) /\ \E k \in Nat : Counts(w, k)
<1>1. PICK k \in Nat : Counts(window, k)
  BY DEF WindowCounts
<1>2. PICK c \in 0..Len(window) : /\ Expired(window, now) = 1..c
                                  /\ Cardinality(Expired(window, now)) = c
  BY ExpiredIsPrefix DEF GatewayTyped
<1>3. w = SubSeq(window, c + 1, Len(window))
  BY <1>2 DEF Prune
<1>4. /\ Len(window) \in Nat /\ Len(admitted) \in Nat /\ c \in Nat /\ c <= Len(window)
      /\ \A i \in 1..Len(window) : window[i] \in Nat
      /\ \A i \in 1..Len(admitted) : admitted[i] \in Nat
      /\ now \in Nat /\ Period \in Nat /\ k <= Len(admitted)
  BY <1>1, <1>2, LimiterSizes DEF GatewayTyped, Counts
<1>5. /\ w \in Seq(Nat) /\ Len(w) = Len(window) - c
      /\ \A i \in 1..Len(w) : w[i] = window[c + i]
  <2>1. \A i \in c + 1..Len(window) : window[i] \in Nat
    BY <1>4
  <2>2. /\ w \in Seq(Nat)
        /\ Len(w) = IF c + 1 <= Len(window) THEN Len(window) - (c + 1) + 1 ELSE 0
        /\ \A i \in 1..Len(window) - (c + 1) + 1 : w[i] = window[c + 1 + i - 1]
    BY <1>3, <1>4, <2>1, SubSeqProperties
  <2>. QED  BY <1>4, <2>2
<1>6. \A i \in 1..c : now - window[i] >= Period
  <2>1. TAKE i \in 1..c
  <2>2. i \in Expired(window, now)
    BY <1>2
  <2>. QED  BY <1>4, <2>2 DEF Expired
<1>7. Counts(w, k + c)
  <2>1. k + c \in 0..Len(admitted) /\ Len(w) = Len(admitted) - (k + c)
    BY <1>1, <1>4, <1>5 DEF Counts
  <2>2. \A i \in 1..Len(w) : w[i] = admitted[k + c + i]
    BY <1>1, <1>4, <1>5 DEF Counts
  <2>3. ASSUME NEW i \in 1..k + c PROVE now - admitted[i] >= Period
    <3>1. CASE i \in 1..k
      BY <1>1, <3>1 DEF Counts
    <3>2. CASE i \notin 1..k
      <4>1. i - k \in 1..c /\ i - k \in 1..Len(window)
        BY <1>4, <3>2
      <4>2. now - window[i - k] >= Period
        BY <1>6, <4>1
      <4>3. window[i - k] = admitted[k + (i - k)] /\ k + (i - k) = i
        BY <1>1, <1>4, <4>1 DEF Counts
      <4>. QED  BY <4>2, <4>3
    <3>. QED  BY <3>1, <3>2
  <2>. QED  BY <2>1, <2>2, <2>3 DEF Counts
<1>. QED  BY <1>4, <1>5, <1>7
-----------------------------------------------------------------------------
LEMMA QuietGateway ==
    ASSUME GatewayInv, UNCHANGED gatewayVars
    PROVE  GatewayInv'
<1>1. mock' = mock /\ now' = now /\ window' = window /\ admitted' = admitted
  BY DEF gatewayVars
<1>2. GatewayTyped' /\ RateLimit'
  BY <1>1 DEF GatewayInv, GatewayTyped, RateLimit
<1>3. WindowCounts'
  BY <1>1 DEF GatewayInv, WindowCounts, Counts
<1>. QED  BY <1>2, <1>3 DEF GatewayInv

\* A call that is admitted finds fewer than Limit calls that count, and so the
\* one that is Limit places ahead of it is too old to count.
LEMMA AdmittedKeeps ==
    ASSUME GatewayInv, HasRoom(window, now),
           window' = Append(Prune(window, now), now), admitted' = Append(admitted, now),
           UNCHANGED <<mock, now>>
    PROVE  GatewayInv'
<1>. DEFINE w == Prune(window, now)
            n == Len(admitted)
<1>1. GatewayTyped /\ WindowCounts /\ RateLimit
  BY DEF GatewayInv
<1>2. w \in Seq(Nat) /\ \E k \in Nat : Counts(w, k)
  BY <1>1, PrunedCounts
<1>3. PICK k \in Nat : Counts(w, k)
  BY <1>2
<1>4. Len(w) < Limit
  BY DEF HasRoom
<1>5. window' = Append(w, now) /\ mock' = mock /\ now' = now
  OBVIOUS
<1>. HIDE DEF w
<1>6. /\ now \in Nat /\ admitted \in Seq(Nat) /\ mock \in BOOLEAN
      /\ n \in Nat /\ Len(w) \in Nat
      /\ Period \in Nat /\ Limit \in Nat /\ Limit > 0
  BY <1>1, <1>2, LimiterSizes DEF GatewayTyped
<1>7. /\ Len(admitted') = n + 1 /\ admitted'[n + 1] = now
      /\ \A i \in 1..n : admitted'[i] = admitted[i] /\ admitted[i] \in Nat
  BY <1>6
<1>8. /\ Len(window') = Len(w) + 1 /\ window'[Len(w) + 1] = now
      /\ \A i \in 1..Len(w) : window'[i] = w[i]
  BY <1>2, <1>5, <1>6
<1>9. k <= n /\ Len(w) = n - k
  BY <1>3, <1>6 DEF Counts
<1>10. GatewayTyped'
  BY <1>2, <1>5, <1>6 DEF GatewayTyped
<1>11. WindowCounts'
  <2>1. \A i \in 1..Len(window') : window'[i] = admitted'[k + i]
    <3>1. TAKE i \in 1..Len(window')
    <3>2. CASE i = Len(w) + 1
      BY <1>6, <1>7, <1>8, <1>9, <3>2
    <3>3. CASE i # Len(w) + 1
      <4>1. i \in 1..Len(w)
        BY <1>6, <1>8, <3>3
      <4>2. k + i \in 1..n
        BY <1>6, <1>9, <4>1
      <4>3. w[i] = admitted[k + i]
        BY <1>3, <4>1 DEF Counts
      <4>. QED  BY <1>7, <1>8, <4>1, <4>2, <4>3
    <3>. QED  BY <3>2, <3>3
  <2>2. \A i \in 1..k : now' - admitted'[i] >= Period
    <3>1. TAKE i \in 1..k
    <3>2. i \in 1..n /\ now - admitted[i] >= Period
      BY <1>3, <1>6, <1>9 DEF Counts
    <3>. QED  BY <1>5, <1>7, <3>2
  <2>3. k \in 0..Len(admitted') /\ Len(window') = Len(admitted') - k
    BY <1>6, <1>7, <1>8, <1>9
  <2>4. Counts(window, k)'
    BY <2>1, <2>2, <2>3 DEF Counts
  <2>. QED  BY <2>4 DEF WindowCounts
<1>12. RateLimit'
  <2>1. DOMAIN admitted' = 1..(n + 1) /\ DOMAIN admitted = 1..n
    BY <1>6
  <2>2. ASSUME NEW i \in 1..(n + 1), NEW j \in 1..(n + 1), j - i >= Limit
        PROVE  admitted'[j] - admitted'[i] >= Period
    <3>1. i \in 1..n
      BY <1>6, <2>2
    <3>2. CASE j = n + 1
      <4>1. i \in 1..k
        BY <1>4, <1>6, <1>9, <2>2, <3>2
      <4>2. now - admitted[i] >= Period
        BY <1>3, <4>1 DEF Counts
      <4>. QED  BY <1>7, <3>1, <3>2, <4>2
    <3>3. CASE j # n + 1
      <4>1. j \in 1..n
        BY <1>6, <3>3
      <4>2. admitted[j] - admitted[i] >= Period
        BY <1>1, <2>1, <2>2, <3>1, <4>1 DEF RateLimit
      <4>. QED  BY <1>7, <3>1, <4>1, <4>2
    <3>. QED  BY <3>2, <3>3
  <2>. QED  BY <2>1, <2>2 DEF RateLimit
<1>. QED  BY <1>10, <1>11, <1>12 DEF GatewayInv

\* A call that is refused only drops entries that no longer count.
LEMMA RefusedKeeps ==
    ASSUME GatewayInv, window' = Prune(window, now), UNCHANGED <<mock, now, admitted>>
    PROVE  GatewayInv'
<1>1. GatewayTyped /\ WindowCounts /\ RateLimit
  BY DEF GatewayInv
<1>2. window' \in Seq(Nat) /\ \E k \in Nat : Counts(window', k)
  BY <1>1, PrunedCounts
<1>3. mock' = mock /\ now' = now /\ admitted' = admitted
  OBVIOUS
<1>4. GatewayTyped' /\ RateLimit'
  BY <1>1, <1>2, <1>3 DEF GatewayTyped, RateLimit
<1>5. WindowCounts'
  BY <1>2, <1>3 DEF WindowCounts, Counts
<1>. QED  BY <1>4, <1>5 DEF GatewayInv

LEMMA CompleteKeeps ==
    ASSUME GatewayInv, NEW answer, Complete(answer)
    PROVE  GatewayInv'
<1>1. CASE UNCHANGED gatewayVars
  BY <1>1, QuietGateway
<1>2. CASE /\ HasRoom(window, now)
           /\ window' = Append(Prune(window, now), now)
           /\ admitted' = Append(admitted, now)
           /\ UNCHANGED <<mock, now>>
  BY <1>2, AdmittedKeeps
<1>3. CASE window' = Prune(window, now) /\ UNCHANGED <<mock, now, admitted>>
  BY <1>3, RefusedKeeps
<1>. QED  BY <1>1, <1>2, <1>3 DEF Complete

LEMMA PostKeeps ==
    ASSUME GatewayInv, NEW answer, Post(answer)
    PROVE  GatewayInv'
BY CompleteKeeps, QuietGateway DEF Post

\* As time passes, a call that is too old to count stays so.
LEMMA TickKeeps ==
    ASSUME GatewayInv, Tick
    PROVE  GatewayInv'
<1>1. GatewayTyped /\ WindowCounts /\ RateLimit
  BY DEF GatewayInv
<1>2. now' = now + 1 /\ mock' = mock /\ window' = window /\ admitted' = admitted
  BY DEF Tick
<1>3. GatewayTyped' /\ RateLimit'
  BY <1>1, <1>2 DEF GatewayTyped, RateLimit
<1>4. PICK k \in Nat : Counts(window, k)
  BY <1>1 DEF WindowCounts
<1>5. \A i \in 1..k : now' - admitted[i] >= Period
  <2>1. TAKE i \in 1..k
  <2>2. admitted[i] \in Nat /\ now \in Nat /\ now - admitted[i] >= Period
    BY <1>1, <1>4 DEF Counts, GatewayTyped
  <2>. QED  BY <1>2, <2>2, LimiterSizes
<1>6. Counts(window, k)'
  BY <1>2, <1>4, <1>5 DEF Counts
<1>7. WindowCounts'
  BY <1>6 DEF WindowCounts
<1>. QED  BY <1>3, <1>7 DEF GatewayInv

\* Without admitted calls there is nothing to count.
LEMMA FreshGateway ==
    ASSUME mock \in BOOLEAN, now \in Nat, window = << >>, admitted = << >>
    PROVE  GatewayInv
<1>1. GatewayTyped /\ RateLimit
  BY DEF GatewayTyped, RateLimit
<1>2. Counts(window, 0)
  BY DEF Counts
<1>. QED  BY <1>1, <1>2 DEF GatewayInv, WindowCounts

LEMMA GatewayRestartKeeps ==
    ASSUME GatewayInv, GatewayRestart
    PROVE  GatewayInv'
<1>1. mock' = mock /\ now' = now /\ window' = << >> /\ admitted' = << >>
  BY DEF GatewayRestart
<1>2. GatewayTyped' /\ RateLimit'
  BY <1>1 DEF GatewayInv, GatewayTyped, RateLimit
<1>3. Counts(window, 0)'
  BY <1>1 DEF Counts
<1>. QED  BY <1>2, <1>3 DEF GatewayInv, WindowCounts
-----------------------------------------------------------------------------
\* In every period of 60 seconds at most Limit calls are admitted, for any
\* limit and period and whatever callers there are: _check_rate_limit.
THEOREM Limited == GatewaySpec => []RateLimit
<1>1. GatewayInit => GatewayInv
  BY FreshGateway DEF GatewayInit
<1>2. GatewayInv /\ [GatewayNext]_gatewayVars => GatewayInv'
  BY PostKeeps, TickKeeps, GatewayRestartKeeps, QuietGateway DEF GatewayNext
<1>3. GatewayInv => RateLimit
  BY DEF GatewayInv
<1>. QED  BY <1>1, <1>2, <1>3, PTL DEF GatewaySpec
-----------------------------------------------------------------------------
(* The loop of the chunker.                                                *)

LEMMA Products ==
    ASSUME NEW b \in Nat, NEW k \in Nat
    PROVE  k * b \in Nat /\ (k + 1) * b = k * b + b
OBVIOUS

LEMMA ProductsGrow ==
    ASSUME NEW b \in Nat, NEW k \in Nat, NEW m \in Nat, k <= m
    PROVE  k * b <= m * b
<1>1. m - k \in Nat /\ m = k + (m - k)
  OBVIOUS
<1>2. m * b = k * b + (m - k) * b
  BY <1>1
<1>3. (m - k) * b \in Nat /\ k * b \in Nat
  BY <1>1
<1>. QED  BY <1>2, <1>3

LEMMA Division ==
    ASSUME NEW b \in Nat \ {0}, NEW i \in Nat
    PROVE  \E k \in 0..i : k * b <= i /\ i < (k + 1) * b
<1>. DEFINE k == i \div b
<1>1. k \in Nat /\ b * k <= i /\ i < b * k + b
  OBVIOUS
<1>. HIDE DEF k
<1>2. b * k = k * b /\ (k + 1) * b = k * b + b /\ k <= k * b
  <2>1. b * k = k * b /\ (k + 1) * b = k * b + b /\ k * b \in Nat
    BY <1>1
  <2>2. k * 1 = k /\ k * b = k * 1 + k * (b - 1) /\ k * (b - 1) \in Nat
    BY <1>1
  <2>. QED  BY <1>1, <2>1, <2>2
<1>3. k \in 0..i /\ k * b <= i /\ i < (k + 1) * b
  <2>1. k * b \in Nat /\ (k + 1) * b \in Nat
    BY <1>1
  <2>. QED  BY <1>1, <1>2, <2>1
<1>. QED  BY <1>3

\* The limits of a window: its first token, its last one, and where the next
\* window begins.
LEMMA WindowLimits ==
    ASSUME NEW n \in Nat, NEW k \in Seqs(n), NEW w, w = Window(k, n)
    PROVE  /\ k \in Nat /\ k * Budget \in Nat /\ k * Budget < n
           /\ w.seq = k /\ w.from = k * Budget + 1 /\ w.to \in w.from..n
           /\ w.to <= k * Budget + Budget
           /\ w.to = k * Budget + Budget \/ w.to = n
<1>1. k \in 0..(n - 1) /\ k * Budget < n
  BY DEF Seqs
<1>2. k \in Nat /\ Budget \in Nat /\ Budget > 0
  BY <1>1, BudgetIsPositive
<1>3. k * Budget \in Nat /\ (k + 1) * Budget = k * Budget + Budget
  BY <1>2, Products
<1>. DEFINE f == k * Budget
            g == (k + 1) * Budget
<1>4. w.seq = k /\ w.from = f + 1 /\ w.to = IF g < n THEN g ELSE n
  BY DEF Window
<1>5. f \in Nat /\ g = f + Budget /\ f < n
  BY <1>1, <1>3
<1>. HIDE DEF f, g
<1>6. /\ w.seq = k /\ w.from = f + 1 /\ w.to \in w.from..n
      /\ w.to <= f + Budget /\ (w.to = f + Budget \/ w.to = n)
  BY <1>2, <1>4, <1>5
<1>. QED  BY <1>2, <1>5, <1>6 DEF f

\* A window ends before a later one begins.
LEMMA WindowsInOrder ==
    ASSUME NEW n \in Nat, NEW j \in Seqs(n), NEW k \in Seqs(n), j < k
    PROVE  Window(j, n).to < Window(k, n).from
<1>1. /\ j \in Nat /\ k \in Nat /\ j + 1 \in Nat /\ j + 1 <= k
      /\ Budget \in Nat
  BY WindowLimits, BudgetIsPositive
<1>2. (j + 1) * Budget <= k * Budget /\ (j + 1) * Budget = j * Budget + Budget
  BY <1>1, ProductsGrow, Products
<1>3. j * Budget \in Nat /\ k * Budget \in Nat
  BY <1>1, Products
<1>. DEFINE a == j * Budget
            b == k * Budget
<1>4. Window(j, n).to \in Nat /\ Window(j, n).to <= a + Budget /\ Window(k, n).from = b + 1
  <2>1. Window(j, n).to \in Window(j, n).from..n /\ Window(j, n).from = a + 1
    BY WindowLimits
  <2>2. a + 1 \in Nat
    BY <1>3
  <2>. QED  BY <2>1, <2>2, WindowLimits
<1>5. a \in Nat /\ b \in Nat /\ a + Budget <= b
  BY <1>2, <1>3
<1>. HIDE DEF a, b
<1>. QED  BY <1>1, <1>4, <1>5

LEMMA LengthIsPositive ==
    ASSUME NEW n \in Nat
    PROVE  Length(n) \in Nat /\ Length(n) > 0
BY BudgetIsPositive DEF Length

\* fixed_size_chunk cuts every text into windows that hold each token once; a
\* text without tokens has one window, too.
LEMMA WindowsTile ==
    ASSUME NEW m \in Nat
    PROVE  Tiles(Windows(m), Length(m)) /\ Windows(m) # {}
<1>. DEFINE n == Length(m)
<1>1. n \in Nat /\ n > 0 /\ Budget \in Nat /\ Budget > 0
  BY LengthIsPositive, BudgetIsPositive
<1>2. Windows(m) = {Window(k, n) : k \in Seqs(n)}
  BY DEF Windows
<1>. HIDE DEF n
<1>3. ASSUME NEW w \in Windows(m)
      PROVE  w.from \in 1..w.to /\ w.to \in 1..n /\ w.to - w.from < Budget
  <2>1. PICK k \in Seqs(n) : w = Window(k, n)
    BY <1>2
  <2>. DEFINE f == k * Budget
  <2>2. /\ f \in Nat /\ f < n /\ w.from = f + 1 /\ w.to \in w.from..n
        /\ w.to <= f + Budget
    BY <1>1, <2>1, WindowLimits
  <2>. HIDE DEF f
  <2>. QED  BY <1>1, <2>2
<1>4. ASSUME NEW i \in 1..n
      PROVE  \E k \in Seqs(n) : i \in Window(k, n).from..Window(k, n).to
  <2>1. i - 1 \in Nat
    BY <1>1
  <2>2. PICK k \in 0..i - 1 : k * Budget <= i - 1 /\ i - 1 < (k + 1) * Budget
    BY <2>1, Division, BudgetIsPositive
  <2>3. k \in Nat /\ k * Budget \in Nat /\ (k + 1) * Budget = k * Budget + Budget
    BY <1>1, <2>2, Products
  <2>. DEFINE f == k * Budget
  <2>4. f \in Nat /\ f <= i - 1 /\ i - 1 < f + Budget
    BY <2>2, <2>3
  <2>5. k \in Seqs(n)
    <3>1. f < n /\ k \in 0..(n - 1)
      <4>. HIDE DEF f
      <4>. QED  BY <1>1, <2>1, <2>2, <2>4
    <3>. QED  BY <3>1 DEF Seqs
  <2>6. /\ Window(k, n).from = f + 1
        /\ Window(k, n).to = f + Budget \/ Window(k, n).to = n
    BY <1>1, <2>5, WindowLimits
  <2>. HIDE DEF f
  <2>7. i \in Window(k, n).from..Window(k, n).to
    BY <1>1, <2>4, <2>6
  <2>. QED  BY <2>5, <2>7
<1>5. ASSUME NEW v \in Windows(m), NEW w \in Windows(m),
             NEW i \in 1..n, i \in v.from..v.to, i \in w.from..w.to
      PROVE  v = w
  <2>1. PICK j \in Seqs(n) : v = Window(j, n)
    BY <1>2
  <2>2. PICK k \in Seqs(n) : w = Window(k, n)
    BY <1>2
  <2>3. j \in Nat /\ k \in Nat
    BY <1>1, <2>1, <2>2, WindowLimits
  <2>4. v.from \in Int /\ v.to \in Int /\ w.from \in Int /\ w.to \in Int
    BY <1>1, <1>3
  <2>5. ~(v.to < w.from) /\ ~(w.to < v.from)
    BY <1>1, <1>5, <2>4
  <2>6. ~(j < k) /\ ~(k < j)
    BY <1>1, <2>1, <2>2, <2>5, WindowsInOrder
  <2>. QED  BY <2>1, <2>2, <2>3, <2>6
<1>6. \A i \in 1..n : \E w \in Windows(m) : i \in w.from..w.to
  BY <1>2, <1>4
<1>7. Windows(m) # {}
  BY <1>1, <1>6
<1>8. Tiles(Windows(m), n)
  BY <1>3, <1>5, <1>6 DEF Tiles
<1>. QED  BY <1>7, <1>8 DEF n

\* The fields of a window.
LEMMA WindowFields ==
    ASSUME NEW m \in Nat, NEW w \in Windows(m)
    PROVE  /\ w = [seq |-> w.seq, from |-> w.from, to |-> w.to]
           /\ w.seq \in Nat /\ w.from \in Nat /\ w.to \in Nat
<1>. DEFINE n == Length(m)
<1>1. n \in Nat
  BY LengthIsPositive
<1>2. PICK k \in Seqs(n) : w = Window(k, n)
  BY DEF Windows
<1>3. w = [seq |-> w.seq, from |-> w.from, to |-> w.to]
  BY <1>2 DEF Window
<1>4. k \in Nat /\ k * Budget \in Nat /\ w.seq = k /\ w.from = k * Budget + 1 /\ w.to \in w.from..n
  BY <1>1, <1>2, WindowLimits
<1>. DEFINE f == k * Budget
<1>5. f \in Nat /\ w.from = f + 1 /\ w.to \in w.from..n
  BY <1>4
<1>. HIDE DEF f, n
<1>6. w.from \in Nat /\ w.to \in Nat
  BY <1>1, <1>5
<1>. QED  BY <1>3, <1>4, <1>6
-----------------------------------------------------------------------------
ChunkState == [pc : ChunkPcs, source : LanceSources \cup {Null}, doc : Docs \cup {Null},
               met : SUBSET Chunkers]

TagState == [pc : TagPcs, source : LanceSources \cup {Null}, read : SUBSET Reading,
             todo : SUBSET Reading, result : SUBSET (Nat \X TagValue)]

TablesTyped ==
    /\ team \in LanceCasts
    /\ rows \subseteq Row
    /\ chunk \in [Chunkers -> ChunkState]
    /\ tag \in [Taggers -> TagState]

\* A run that has read its document has a source and a text.
ChunksKnown ==
    \A k \in Chunkers : chunk[k].pc \in {"delete", "add", "done", "emptied"} =>
        chunk[k].source \in LanceSources /\ chunk[k].doc \in Docs

WindowOf(r) == [seq |-> r.seq, from |-> r.from, to |-> r.to]

\* A row is one of those that its run has made.
RowsKnown ==
    \A r \in rows : /\ chunk[r.run].pc = "done"
                    /\ r.source = chunk[r.run].source /\ r.doc = chunk[r.run].doc
                    /\ WindowOf(r) \in Windows(Tokens[r.doc])

\* The other rows of the run are in the table, too.
RowsWhole ==
    \A r \in rows : \A w \in Windows(Tokens[r.doc]) :
        \E x \in rows : x.run = r.run /\ WindowOf(x) = w

\* Two runs that are under way have met, and each of them knows.
RunsMeet ==
    /\ \A k \in Chunkers : chunk[k].pc = "new" => chunk[k].met = {}
    /\ \A j, k \in Chunkers : j \in chunk[k].met => k \in chunk[j].met
    /\ \A j, k \in Chunkers : j # k /\ Running(j) /\ Running(k) => j \in chunk[k].met

\* What was added since a run has deleted the rows of its source came from runs
\* that it has met.
AddsMeet ==
    \A k \in Chunkers : chunk[k].pc = "add" =>
        \A r \in RowsOf(chunk[k].source) : r.run \in chunk[k].met

\* A result pairs the position of a text that was read with a value for it.
ResultsKnown ==
    \A t \in Taggers :
        /\ tag[t].pc = "score" => tag[t].source \in LanceSources
        /\ tag[t].todo \subseteq tag[t].read
        /\ \A p \in tag[t].result :
              /\ p[2].by = t /\ p[2].seq = p[1]
              /\ \E a \in tag[t].read : a.seq = p[1] /\ a.doc = p[2].doc

\* A tagger has read whole generations of finished runs.
ReadsWhole ==
    \A t \in Taggers : \A a \in tag[t].read :
        /\ chunk[a.run].pc = "done" /\ a.doc = chunk[a.run].doc
        /\ \A w \in Windows(Tokens[a.doc]) : \E b \in tag[t].read : b.run = a.run /\ b.seq = w.seq

\* Only a tagger that is done has values in the table.
ValuesMerged ==
    \A r \in rows, q \in Kinds : r.tags[q] # Null => tag[r.tags[q].by].pc = "done"

\* The rows of a source are one generation each, but for runs that have met.
Generations == RowsKnown /\ RowsWhole /\ RunsMeet /\ AddsMeet /\ OneGeneration

TagsKnown == ResultsKnown /\ ReadsWhole /\ ValuesMerged /\ TagsFollowTheRead

TablesInv == TablesTyped /\ ChunksKnown /\ Generations /\ TagsKnown

\* A step of a run of chunks or of a tagger, or of others that leave them alone.
TableStep ==
    \/ \E k \in Chunkers : ChunkNext(k)
    \/ \E t \in Taggers : TagNext(t)
    \/ UNCHANGED <<team, rows, chunk, tag>>
-----------------------------------------------------------------------------
(* Types.                                                                  *)

LEMMA NewRowTyped ==
    ASSUME TablesTyped, ChunksKnown, NEW k \in Chunkers, chunk[k].pc = "add",
           NEW w \in Windows(Tokens[chunk[k].doc])
    PROVE  NewRow(k, w) \in Row
<1>1. chunk[k].source \in LanceSources /\ chunk[k].doc \in Docs
  BY DEF ChunksKnown
<1>2. Tokens[chunk[k].doc] \in Nat
  BY <1>1, LanceConstants
<1>3. w.seq \in Nat /\ w.from \in Nat /\ w.to \in Nat
  BY <1>2, WindowFields
<1>4. [q \in Kinds |-> Null] \in [Kinds -> TagValue \cup {Null}]
  OBVIOUS
<1>. QED  BY <1>1, <1>3, <1>4 DEF NewRow, Row

LEMMA RetagTyped ==
    ASSUME NEW r \in Row, NEW q \in Kinds, NEW v \in TagValue
    PROVE  /\ Retag(r, q, v) \in Row
           /\ Retag(r, q, v) = [r EXCEPT !.tags = [r.tags EXCEPT ![q] = v]]
<1>1. Retag(r, q, v) = [r EXCEPT !.tags = [r.tags EXCEPT ![q] = v]]
  BY DEF Retag
<1>2. r.tags \in [Kinds -> TagValue \cup {Null}]
  BY DEF Row
<1>3. [r.tags EXCEPT ![q] = v] \in [Kinds -> TagValue \cup {Null}]
  BY <1>2
<1>. QED  BY <1>1, <1>3 DEF Row

\* The stored score of an answer lies between 0.0 and 1.0.
LEMMA ScoredTyped ==
    ASSUME NEW answer \in Answers
    PROVE  Scored(answer).score \in 0..2 /\ Scored(answer).error \in BOOLEAN
<1>1. CASE answer \in {"half", "above", "nan"}
  <2>1. Float[answer] \in Int /\ DOMAIN Float = {"half", "above", "nan"}
    BY <1>1 DEF Float
  <2>2. Clamp(Float[answer]) \in 0..2
    BY <2>1 DEF Clamp
  <2>. QED  BY <1>1, <2>1, <2>2 DEF Scored
<1>2. CASE answer \notin {"half", "above", "nan"}
  BY <1>2 DEF Scored, Float
<1>. QED  BY <1>1, <1>2

LEMMA ValueTyped ==
    ASSUME NEW t \in Taggers, NEW a \in Reading, NEW x, x.score \in 0..2, x.error \in BOOLEAN
    PROVE  /\ Value(t, a, x) \in TagValue
           /\ Value(t, a, x).by = t /\ Value(t, a, x).seq = a.seq /\ Value(t, a, x).doc = a.doc
BY DEF Value, TagValue, Reading

LEMMA ReadTyped ==
    ASSUME TablesTyped, NEW r \in rows
    PROVE  ReadOf(r) \in Reading
BY DEF TablesTyped, Row, ReadOf, Reading
LEMMA ChunkStepsTyped ==
    ASSUME TablesTyped, ChunksKnown, NEW k \in Chunkers, ChunkNext(k)
    PROVE  TablesTyped' /\ ChunksKnown'
<1>1. /\ chunk \in [Chunkers -> ChunkState] /\ chunk[k] \in ChunkState
      /\ rows \subseteq Row
  BY DEF TablesTyped
<1>2. ASSUME NEW pc \in ChunkPcs, chunk' = [chunk EXCEPT ![k].pc = pc],
             pc \in {"new", "failed"} \/ chunk[k].pc \in {"delete", "add"}
      PROVE  chunk' \in [Chunkers -> ChunkState] /\ ChunksKnown'
  <2>1. \A j \in Chunkers : /\ chunk'[j].source = chunk[j].source /\ chunk'[j].doc = chunk[j].doc
                            /\ chunk'[j].pc = IF j = k THEN pc ELSE chunk[j].pc
    BY <1>1, <1>2 DEF ChunkState
  <2>2. chunk' \in [Chunkers -> ChunkState]
    BY <1>1, <1>2 DEF ChunkState
  <2>. QED  BY <1>2, <2>1, <2>2 DEF ChunksKnown
<1>3. ASSUME NEW s \in LanceSources, ChunkRead(k, s)
      PROVE  TablesTyped' /\ ChunksKnown'
  <2>1. UNCHANGED <<team, rows, tag>>
    BY <1>3 DEF ChunkRead
  <2>2. CASE chunk' = [chunk EXCEPT ![k].pc = "failed"]
    <3>1. chunk' \in [Chunkers -> ChunkState] /\ ChunksKnown'
      BY <1>2, <2>2 DEF ChunkPcs
    <3>. QED  BY <2>1, <3>1 DEF TablesTyped
  <2>3. ASSUME NEW d \in Docs,
               chunk' = [j \in Chunkers |->
                   IF j = k
                   THEN [pc |-> "delete", source |-> s, doc |-> d,
                         met |-> {i \in Chunkers \ {k} : Running(i)}]
                   ELSE [chunk[j] EXCEPT !.met = IF Running(j) THEN @ \cup {k} ELSE @]]
        PROVE  TablesTyped' /\ ChunksKnown'
    <3>1. chunk' \in [Chunkers -> ChunkState]
      BY <1>1, <2>3 DEF ChunkState, ChunkPcs
    <3>2. \A j \in Chunkers : IF j = k THEN chunk'[j].source = s /\ chunk'[j].doc = d
                              ELSE /\ chunk'[j].source = chunk[j].source
                                   /\ chunk'[j].doc = chunk[j].doc
                                   /\ chunk'[j].pc = chunk[j].pc
      BY <1>1, <2>3 DEF ChunkState
    <3>3. ChunksKnown'
      BY <2>3, <3>2 DEF ChunksKnown
    <3>. QED  BY <2>1, <3>1, <3>3 DEF TablesTyped
  <2>. QED  BY <1>3, <2>2, <2>3 DEF ChunkRead
<1>4. CASE ChunkDelete(k)
  <2>1. /\ UNCHANGED <<team, tag>> /\ rows' \subseteq rows
        /\ chunk[k].pc = "delete" /\ chunk' = [chunk EXCEPT ![k].pc = "add"]
    BY <1>4 DEF ChunkDelete
  <2>2. chunk' \in [Chunkers -> ChunkState] /\ ChunksKnown'
    BY <1>2, <2>1 DEF ChunkPcs
  <2>. QED  BY <2>1, <2>2 DEF TablesTyped
<1>5. CASE ChunkAdd(k)
  <2>1. /\ UNCHANGED <<team, tag>> /\ rows' = rows \cup NewRows(k)
        /\ chunk[k].pc = "add" /\ chunk' = [chunk EXCEPT ![k].pc = "done"]
    BY <1>5 DEF ChunkAdd
  <2>2. chunk' \in [Chunkers -> ChunkState] /\ ChunksKnown'
    BY <1>2, <2>1 DEF ChunkPcs
  <2>3. NewRows(k) \subseteq Row
    BY <2>1, NewRowTyped DEF NewRows
  <2>. QED  BY <1>1, <2>1, <2>2, <2>3 DEF TablesTyped
<1>6. CASE ChunkFail(k)
  <2>. DEFINE pc == IF chunk[k].pc = "add" THEN "emptied" ELSE "failed"
  <2>1. /\ UNCHANGED <<team, rows, tag>> /\ Running(k)
        /\ chunk' = [chunk EXCEPT ![k].pc = pc] /\ pc \in ChunkPcs
    BY <1>6 DEF ChunkFail, ChunkPcs
  <2>. HIDE DEF pc
  <2>2. chunk' \in [Chunkers -> ChunkState] /\ ChunksKnown'
    BY <1>2, <2>1 DEF Running
  <2>. QED  BY <2>1, <2>2 DEF TablesTyped
<1>. QED  BY <1>3, <1>4, <1>5, <1>6 DEF ChunkNext

LEMMA TagStepsTyped ==
    ASSUME TablesTyped, NEW t \in Taggers, TagNext(t)
    PROVE  TablesTyped'
<1>1. /\ tag \in [Taggers -> TagState] /\ tag[t] \in TagState
      /\ rows \subseteq Row
  BY DEF TablesTyped
<1>2. ASSUME NEW new \in TagState, tag' = [tag EXCEPT ![t] = new],
             UNCHANGED <<team, chunk>>, rows' \subseteq Row
      PROVE  TablesTyped'
  BY <1>1, <1>2 DEF TablesTyped
<1>3. ASSUME NEW s \in LanceSources, TagRead(t, s)
      PROVE  TablesTyped'
  <2>. DEFINE read == {ReadOf(r) : r \in RowsOf(s)}
  <2>1. read \subseteq Reading
    BY ReadTyped DEF RowsOf
  <2>2. UNCHANGED <<team, rows, chunk>>
    BY <1>3 DEF TagRead
  <2>3. \/ tag' = [tag EXCEPT ![t].pc = "done"]
        \/ tag' = [tag EXCEPT ![t].pc = "failed"]
        \/ tag' = [tag EXCEPT ![t] = [pc |-> "score", source |-> s, read |-> read,
                                      todo |-> read, result |-> {}]]
    BY <1>3 DEF TagRead
  <2>. HIDE DEF read
  <2>4. CASE tag' = [tag EXCEPT ![t].pc = "done"]
    BY <1>1, <2>2, <2>4 DEF TagState, TagPcs, TablesTyped
  <2>5. CASE tag' = [tag EXCEPT ![t].pc = "failed"]
    BY <1>1, <2>2, <2>5 DEF TagState, TagPcs, TablesTyped
  <2>6. CASE tag' = [tag EXCEPT ![t] = [pc |-> "score", source |-> s, read |-> read,
                                        todo |-> read, result |-> {}]]
    BY <1>1, <2>1, <2>2, <2>6 DEF TagState, TagPcs, TablesTyped
  <2>. QED  BY <2>3, <2>4, <2>5, <2>6
<1>4. ASSUME NEW a \in tag[t].todo, QualityCall(t, a)
      PROVE  TablesTyped'
  <2>1. PICK answer \in Answers :
            tag' = [tag EXCEPT ![t].todo = @ \ {a},
                               ![t].result = @ \cup {<<a.seq, Value(t, a, Scored(answer))>>}]
    BY <1>4 DEF QualityCall
  <2>2. UNCHANGED <<team, rows, chunk>>
    BY <1>4 DEF QualityCall
  <2>. DEFINE p == <<a.seq, Value(t, a, Scored(answer))>>
  <2>3. a \in Reading
    BY <1>1 DEF TagState
  <2>4. p \in Nat \X TagValue
    BY <2>3, ScoredTyped, ValueTyped DEF Reading
  <2>5. tag' = [tag EXCEPT ![t].todo = @ \ {a}, ![t].result = @ \cup {p}]
    BY <2>1
  <2>. HIDE DEF p
  <2>. QED  BY <1>1, <2>2, <2>4, <2>5 DEF TagState, TablesTyped
<1>5. CASE TagCompute(t)
  <2>. DEFINE new == {<<a.seq, Value(t, a, [score |-> 0, error |-> FALSE])>> :
                        a \in tag[t].read}
  <2>1. /\ UNCHANGED <<team, rows, chunk>>
        /\ tag' = [tag EXCEPT ![t].todo = {}, ![t].result = new]
    BY <1>5 DEF TagCompute
  <2>2. new \subseteq Nat \X TagValue
    <3>1. ASSUME NEW a \in tag[t].read
          PROVE  <<a.seq, Value(t, a, [score |-> 0, error |-> FALSE])>> \in Nat \X TagValue
      <4>. DEFINE z == [score |-> 0, error |-> FALSE]
      <4>1. a \in Reading /\ z.score \in 0..2 /\ z.error \in BOOLEAN
        BY <1>1 DEF TagState
      <4>. HIDE DEF z
      <4>2. Value(t, a, z) \in TagValue
        BY <4>1, ValueTyped
      <4>. QED  BY <4>1, <4>2 DEF Reading, z
    <3>. QED  BY <3>1
  <2>. HIDE DEF new
  <2>. QED  BY <1>1, <2>1, <2>2 DEF TagState, TablesTyped
<1>6. CASE TagMerge(t)
  <2>1. /\ UNCHANGED <<team, chunk>> /\ tag' = [tag EXCEPT ![t].pc = "done"]
        /\ rows' = {IF ValuesFor(t, r) = {} THEN r
                    ELSE Retag(r, KindOf[t], CHOOSE v \in ValuesFor(t, r) : TRUE) : r \in rows}
    BY <1>6 DEF TagMerge
  <2>2. \A r \in rows : ValuesFor(t, r) \subseteq TagValue
    BY <1>1 DEF ValuesFor, TagState
  <2>3. ASSUME NEW r \in rows, ValuesFor(t, r) # {}
        PROVE  Retag(r, KindOf[t], CHOOSE v \in ValuesFor(t, r) : TRUE) \in Row
    <3>1. (CHOOSE v \in ValuesFor(t, r) : TRUE) \in TagValue
      BY <2>2, <2>3
    <3>. QED  BY <1>1, <3>1, RetagTyped, LanceConstants
  <2>4. rows' \subseteq Row
    BY <1>1, <2>1, <2>3
  <2>. QED  BY <1>1, <2>1, <2>4 DEF TagState, TagPcs, TablesTyped
<1>7. CASE TagFail(t)
  <2>1. UNCHANGED <<team, rows, chunk>> /\ tag' = [tag EXCEPT ![t].pc = "failed"]
    BY <1>7 DEF TagFail
  <2>. QED  BY <1>1, <2>1 DEF TagState, TagPcs, TablesTyped
<1>. QED  BY <1>3, <1>4, <1>5, <1>6, <1>7 DEF TagNext
-----------------------------------------------------------------------------
(* Generations.                                                            *)

SameText(x, r) ==
    x.source = r.source /\ x.doc = r.doc /\ x.run = r.run /\ WindowOf(x) = WindowOf(r)

\* A run keeps what it has read, whom it has met, and that it is done.
RunsGoOn ==
    \A j \in Chunkers :
        /\ chunk[j].pc # "new" => chunk'[j].source = chunk[j].source /\ chunk'[j].doc = chunk[j].doc
        /\ chunk[j].pc = "done" => chunk'[j].pc = "done"
        /\ chunk[j].met \subseteq chunk'[j].met

\* A step after which the table has the same texts, no run is between its commits
\* or done that was not so before, and none that has emptied its source is gone.
SameTexts ==
    /\ \A x \in rows' : \E r \in rows : SameText(x, r)
    /\ \A r \in rows : \E x \in rows' : SameText(x, r)
    /\ \A j \in Chunkers :
          /\ chunk'[j].pc = "add" => chunk[j].pc = "add"
          /\ chunk'[j].pc = "done" => chunk[j].pc = "done"
          /\ chunk[j].pc \in {"add", "emptied"} => chunk'[j].pc \in {"add", "emptied"}

LEMMA RowHasRun ==
    ASSUME TablesTyped, NEW r \in rows
    PROVE  /\ r \in Row /\ r.run \in Chunkers /\ r.source \in LanceSources /\ r.doc \in Docs
           /\ Tokens[r.doc] \in Nat
BY LanceConstants DEF TablesTyped, Row

LEMMA SameTextsKeep ==
    ASSUME TablesTyped, TablesTyped', Generations, RunsGoOn, SameTexts, RunsMeet'
    PROVE  Generations'
<1>1. ASSUME NEW x \in rows'
      PROVE  \E r \in rows : SameText(x, r) /\ r.run \in Chunkers /\ r.doc \in Docs
  BY RowHasRun DEF SameTexts
<1>2. RowsKnown'
  <2>1. ASSUME NEW x \in rows'
        PROVE  /\ chunk'[x.run].pc = "done"
               /\ x.source = chunk'[x.run].source /\ x.doc = chunk'[x.run].doc
               /\ WindowOf(x) \in Windows(Tokens[x.doc])
    <3>1. PICK r \in rows : SameText(x, r) /\ r.run \in Chunkers
      BY <1>1
    <3>2. /\ chunk[r.run].pc = "done"
          /\ r.source = chunk[r.run].source /\ r.doc = chunk[r.run].doc
          /\ WindowOf(r) \in Windows(Tokens[r.doc])
      BY DEF Generations, RowsKnown
    <3>. QED  BY <3>1, <3>2 DEF SameText, RunsGoOn
  <2>. QED  BY <2>1 DEF RowsKnown, WindowOf
<1>3. RowsWhole'
  <2>1. ASSUME NEW x \in rows', NEW w \in Windows(Tokens[x.doc])
        PROVE  \E y \in rows' : y.run = x.run /\ WindowOf(y) = w
    <3>1. PICK r \in rows : SameText(x, r)
      BY <1>1
    <3>2. PICK z \in rows : z.run = r.run /\ WindowOf(z) = w
      BY <2>1, <3>1 DEF Generations, RowsWhole, SameText
    <3>3. PICK y \in rows' : SameText(y, z)
      BY DEF SameTexts
    <3>. QED  BY <3>1, <3>2, <3>3 DEF SameText
  <2>. QED  BY <2>1 DEF RowsWhole, WindowOf
<1>4. AddsMeet'
  <2>1. ASSUME NEW k \in Chunkers, chunk'[k].pc = "add",
               NEW x \in rows', x.source = chunk'[k].source
        PROVE  x.run \in chunk'[k].met
    <3>1. chunk[k].pc = "add" /\ chunk'[k].source = chunk[k].source
          /\ chunk[k].met \subseteq chunk'[k].met
      BY <2>1 DEF SameTexts, RunsGoOn
    <3>2. PICK r \in rows : SameText(x, r)
      BY <1>1
    <3>3. r.run \in chunk[k].met
      BY <2>1, <3>1, <3>2 DEF Generations, AddsMeet, RowsOf, SameText
    <3>. QED  BY <3>1, <3>2, <3>3 DEF SameText
  <2>. QED  BY <2>1 DEF AddsMeet, RowsOf
<1>5. OneGeneration'
  <2>1. ASSUME NEW x1 \in rows', NEW x2 \in rows', x1.source = x2.source, x1.run # x2.run
        PROVE  x1.run \in chunk'[x2.run].met
    <3>1. PICK r1 \in rows : SameText(x1, r1)
      BY <1>1
    <3>2. PICK r2 \in rows : SameText(x2, r2) /\ r2.run \in Chunkers
      BY <1>1
    <3>3. r1.run \in chunk[r2.run].met
      BY <2>1, <3>1, <3>2 DEF Generations, OneGeneration, SameText
    <3>. QED  BY <3>1, <3>2, <3>3 DEF SameText, RunsGoOn
  <2>2. ASSUME NEW k \in Chunkers, chunk'[k].pc = "done",
               ~ \E x \in rows' : x.source = chunk'[k].source
        PROVE  \E j \in Chunkers : /\ chunk'[j].source = chunk'[k].source
                                   /\ chunk'[j].pc \in {"add", "emptied"}
    <3>1. chunk[k].pc = "done" /\ chunk'[k].source = chunk[k].source
      BY <2>2 DEF SameTexts, RunsGoOn
    <3>2. RowsOf(chunk[k].source) = {}
      BY <2>2, <3>1 DEF SameTexts, SameText, RowsOf
    <3>3. PICK j \in Chunkers : chunk[j].source = chunk[k].source
                                  /\ chunk[j].pc \in {"add", "emptied"}
      BY <3>1, <3>2 DEF Generations, OneGeneration
    <3>. QED  BY <3>1, <3>3 DEF SameTexts, RunsGoOn
  <2>. QED  BY <2>1, <2>2 DEF OneGeneration, RowsOf
<1>. QED  BY <1>2, <1>3, <1>4, <1>5 DEF Generations

\* The rows are the same if each is mapped to one of the same text.
LEMMA SameRows ==
    ASSUME rows' = rows,
           \A j \in Chunkers :
              /\ chunk'[j].pc = "add" => chunk[j].pc = "add"
              /\ chunk'[j].pc = "done" => chunk[j].pc = "done"
              /\ chunk[j].pc \in {"add", "emptied"} => chunk'[j].pc \in {"add", "emptied"}
    PROVE  SameTexts
BY DEF SameTexts, SameText

\* A run that starts has met exactly those that are under way.
LEMMA ReadMeets ==
    ASSUME TablesTyped, RunsMeet, NEW k \in Chunkers, NEW s, ChunkRead(k, s)
    PROVE  RunsMeet' /\ RunsGoOn /\ SameTexts
<1>1. chunk \in [Chunkers -> ChunkState] /\ chunk[k].pc = "new" /\ rows' = rows
  BY DEF TablesTyped, ChunkRead
<1>2. /\ chunk[k].met = {} /\ \A j \in Chunkers : k \notin chunk[j].met
      /\ \A j \in Chunkers : chunk[j].met \subseteq Chunkers
  BY <1>1 DEF RunsMeet, ChunkState
<1>3. CASE chunk' = [chunk EXCEPT ![k].pc = "failed"]
  <2>1. \A j \in Chunkers : /\ chunk'[j].pc = IF j = k THEN "failed" ELSE chunk[j].pc
                            /\ chunk'[j].source = chunk[j].source /\ chunk'[j].doc = chunk[j].doc
                            /\ chunk'[j].met = chunk[j].met
    BY <1>1, <1>3 DEF ChunkState
  <2>2. RunsMeet'
    BY <2>1 DEF RunsMeet, Running
  <2>3. SameTexts
    BY <1>1, <2>1, SameRows
  <2>. QED  BY <1>1, <2>1, <2>2, <2>3 DEF RunsGoOn
<1>4. ASSUME NEW d \in Docs,
             chunk' = [j \in Chunkers |->
                   IF j = k
                   THEN [pc |-> "delete", source |-> s, doc |-> d,
                         met |-> {i \in Chunkers \ {k} : Running(i)}]
                   ELSE [chunk[j] EXCEPT !.met = IF Running(j) THEN @ \cup {k} ELSE @]]
      PROVE  RunsMeet' /\ RunsGoOn /\ SameTexts
  <2>1. /\ chunk'[k].pc = "delete"
        /\ chunk'[k].met = {i \in Chunkers \ {k} : Running(i)}
    BY <1>4
  <2>2. \A j \in Chunkers \ {k} :
           /\ chunk'[j].pc = chunk[j].pc
           /\ chunk'[j].source = chunk[j].source /\ chunk'[j].doc = chunk[j].doc
           /\ chunk'[j].met = IF Running(j) THEN chunk[j].met \cup {k} ELSE chunk[j].met
    <3>1. TAKE j \in Chunkers \ {k}
    <3>. DEFINE met == IF Running(j) THEN chunk[j].met \cup {k} ELSE chunk[j].met
    <3>2. chunk'[j] = [chunk[j] EXCEPT !.met = met]
      BY <1>4
    <3>3. chunk[j] \in ChunkState
      BY <1>1
    <3>. HIDE DEF met
    <3>4. /\ chunk'[j].pc = chunk[j].pc /\ chunk'[j].source = chunk[j].source
          /\ chunk'[j].doc = chunk[j].doc /\ chunk'[j].met = met
      BY <3>2, <3>3 DEF ChunkState
    <3>. QED  BY <3>4 DEF met
  <2>3. ~Running(k) /\ \A j \in Chunkers : Running(j)' <=> (j = k \/ Running(j))
    BY <1>1, <2>1, <2>2 DEF Running
  <2>4. \A j \in Chunkers : chunk'[j].pc = "new" => chunk'[j].met = {}
    BY <2>1, <2>2 DEF RunsMeet, Running
  <2>5. ASSUME NEW i \in Chunkers, NEW j \in Chunkers, i \in chunk'[j].met
        PROVE  j \in chunk'[i].met
    <3>1. CASE j = k
      <4>1. i # k /\ Running(i)
        BY <2>1, <2>5, <3>1
      <4>. QED  BY <2>2, <3>1, <4>1
    <3>2. CASE j # k /\ i = k
      <4>1. Running(j)
        BY <1>2, <2>2, <2>5, <3>2
      <4>. QED  BY <2>1, <3>2, <4>1
    <3>3. CASE j # k /\ i # k
      <4>1. i \in chunk[j].met
        BY <2>2, <2>5, <3>3
      <4>2. j \in chunk[i].met
        BY <4>1 DEF RunsMeet
      <4>. QED  BY <2>2, <3>3, <4>2
    <3>. QED  BY <3>1, <3>2, <3>3
  <2>6. ASSUME NEW i \in Chunkers, NEW j \in Chunkers, i # j, Running(i)', Running(j)'
        PROVE  i \in chunk'[j].met
    <3>1. CASE j = k
      BY <2>1, <2>3, <2>6, <3>1
    <3>2. CASE j # k
      <4>1. Running(j)
        BY <2>3, <2>6, <3>2
      <4>2. i = k \/ Running(i)
        BY <2>3, <2>6
      <4>. QED  BY <2>2, <2>6, <3>2, <4>1, <4>2 DEF RunsMeet
    <3>. QED  BY <3>1, <3>2
  <2>7. RunsMeet'
    BY <2>4, <2>5, <2>6 DEF RunsMeet
  <2>8. RunsGoOn
    BY <1>1, <1>2, <2>1, <2>2 DEF RunsGoOn
  <2>9. SameTexts
    BY <1>1, <2>1, <2>2, SameRows
  <2>. QED  BY <2>7, <2>8, <2>9
<1>. QED  BY <1>3, <1>4 DEF ChunkRead
\* A run that goes on meets nobody new.
LEMMA RunningMeets ==
    ASSUME TablesTyped, RunsMeet, NEW k \in Chunkers, Running(k),
           NEW pc \in ChunkPcs \ {"new"}, chunk' = [chunk EXCEPT ![k].pc = pc]
    PROVE  /\ RunsMeet' /\ RunsGoOn
           /\ \A j \in Chunkers : /\ chunk'[j].pc = IF j = k THEN pc ELSE chunk[j].pc
                                  /\ chunk'[j].source = chunk[j].source
                                  /\ chunk'[j].met = chunk[j].met
<1>1. \A j \in Chunkers : /\ chunk'[j].pc = IF j = k THEN pc ELSE chunk[j].pc
                          /\ chunk'[j].source = chunk[j].source
                          /\ chunk'[j].doc = chunk[j].doc
                          /\ chunk'[j].met = chunk[j].met
  BY DEF TablesTyped, ChunkState
<1>2. \A j \in Chunkers : Running(j)' => Running(j)
  BY <1>1 DEF Running
<1>3. RunsMeet'
  BY <1>1, <1>2 DEF RunsMeet
<1>4. RunsGoOn
  BY <1>1 DEF RunsGoOn, Running
<1>. QED  BY <1>1, <1>3, <1>4

LEMMA FailKeeps ==
    ASSUME TablesTyped, TablesTyped', Generations, NEW k \in Chunkers, ChunkFail(k)
    PROVE  Generations' /\ RunsGoOn
<1>. DEFINE pc == IF chunk[k].pc = "add" THEN "emptied" ELSE "failed"
<1>1. /\ Running(k) /\ rows' = rows /\ chunk' = [chunk EXCEPT ![k].pc = pc]
      /\ pc \in {"emptied", "failed"} /\ (chunk[k].pc \in {"add", "emptied"} => pc = "emptied")
  BY DEF ChunkFail, Running
<1>. HIDE DEF pc
<1>2. RunsMeet /\ pc \in ChunkPcs \ {"new"}
  BY <1>1 DEF Generations, ChunkPcs
<1>3. /\ RunsMeet' /\ RunsGoOn
      /\ \A j \in Chunkers : chunk'[j].pc = IF j = k THEN pc ELSE chunk[j].pc
  BY <1>1, <1>2, RunningMeets
<1>4. SameTexts
  BY <1>1, <1>3, SameRows
<1>. QED  BY <1>3, <1>4, SameTextsKeep

\* All rows of a source go at once, and with them all rows of their runs.
LEMMA DeleteKeeps ==
    ASSUME TablesTyped, TablesTyped', Generations, NEW k \in Chunkers, ChunkDelete(k)
    PROVE  Generations' /\ RunsGoOn
<1>. DEFINE s == chunk[k].source
<1>1. /\ chunk[k].pc = "delete" /\ rows' = rows \ RowsOf(s)
      /\ chunk' = [chunk EXCEPT ![k].pc = "add"]
  BY DEF ChunkDelete
<1>2. \A x : x \in rows' <=> x \in rows /\ x.source # s
  BY <1>1 DEF RowsOf
<1>3. RunsMeet /\ Running(k) /\ "add" \in ChunkPcs \ {"new"}
  BY <1>1 DEF Generations, ChunkPcs, Running
<1>4. /\ RunsMeet' /\ RunsGoOn
      /\ \A j \in Chunkers : /\ chunk'[j].pc = IF j = k THEN "add" ELSE chunk[j].pc
                             /\ chunk'[j].source = chunk[j].source
                             /\ chunk'[j].met = chunk[j].met
  BY <1>1, <1>3, RunningMeets
<1>. HIDE DEF s
<1>5. ASSUME NEW x \in rows'
      PROVE  /\ x \in rows /\ x.run \in Chunkers /\ chunk[x.run].pc = "done"
             /\ x.source = chunk[x.run].source /\ x.doc = chunk[x.run].doc
             /\ WindowOf(x) \in Windows(Tokens[x.doc])
  BY <1>2, RowHasRun DEF Generations, RowsKnown
<1>6. RowsKnown'
  <2>1. ASSUME NEW x \in rows'
        PROVE  /\ chunk'[x.run].pc = "done"
               /\ x.source = chunk'[x.run].source /\ x.doc = chunk'[x.run].doc
               /\ WindowOf(x) \in Windows(Tokens[x.doc])
    BY <1>4, <1>5 DEF RunsGoOn
  <2>. QED  BY <2>1 DEF RowsKnown, WindowOf
<1>7. RowsWhole'
  <2>1. ASSUME NEW x \in rows', NEW w \in Windows(Tokens[x.doc])
        PROVE  \E y \in rows' : y.run = x.run /\ WindowOf(y) = w
    <3>1. PICK y \in rows : y.run = x.run /\ WindowOf(y) = w
      BY <1>5, <2>1 DEF Generations, RowsWhole
    <3>2. y.source = chunk[y.run].source
      BY DEF Generations, RowsKnown
    <3>3. y \in rows'
      BY <1>2, <1>5, <3>1, <3>2
    <3>. QED  BY <3>1, <3>3
  <2>. QED  BY <2>1 DEF RowsWhole, WindowOf
<1>8. AddsMeet'
  <2>1. ASSUME NEW j \in Chunkers, chunk'[j].pc = "add",
               NEW x \in rows', x.source = chunk'[j].source
        PROVE  x.run \in chunk'[j].met
    <3>1. CASE j = k
      BY <1>2, <1>4, <2>1, <3>1 DEF s
    <3>2. CASE j # k
      BY <1>2, <1>4, <2>1, <3>2 DEF Generations, AddsMeet, RowsOf
    <3>. QED  BY <3>1, <3>2
  <2>. QED  BY <2>1 DEF AddsMeet, RowsOf
<1>9. OneGeneration'
  <2>1. ASSUME NEW x1 \in rows', NEW x2 \in rows', x1.source = x2.source, x1.run # x2.run
        PROVE  x1.run \in chunk'[x2.run].met
    BY <1>4, <1>5, <2>1 DEF Generations, OneGeneration
  <2>2. ASSUME NEW i \in Chunkers, chunk'[i].pc = "done",
               ~ \E x \in rows' : x.source = chunk'[i].source
        PROVE  \E j \in Chunkers : /\ chunk'[j].source = chunk'[i].source
                                   /\ chunk'[j].pc \in {"add", "emptied"}
    <3>1. CASE chunk[i].source = s
      BY <1>4, <3>1 DEF s
    <3>2. CASE chunk[i].source # s
      <4>1. chunk[i].pc = "done" /\ RowsOf(chunk[i].source) = {}
        BY <1>2, <1>4, <2>2, <3>2 DEF RowsOf
      <4>2. PICK j \in Chunkers : chunk[j].source = chunk[i].source
                                    /\ chunk[j].pc \in {"add", "emptied"}
        BY <4>1 DEF Generations, OneGeneration
      <4>. QED  BY <1>4, <4>2
    <3>. QED  BY <3>1, <3>2
  <2>. QED  BY <2>1, <2>2 DEF OneGeneration, RowsOf
<1>. QED  BY <1>4, <1>6, <1>7, <1>8, <1>9 DEF Generations

LEMMA NewRowFields ==
    ASSUME TablesTyped, ChunksKnown, NEW k \in Chunkers, chunk[k].pc = "add"
    PROVE  /\ \A x \in NewRows(k) :
                 /\ x.source = chunk[k].source /\ x.doc = chunk[k].doc /\ x.run = k
                 /\ WindowOf(x) \in Windows(Tokens[chunk[k].doc])
                 /\ \A q \in Kinds : x.tags[q] = Null
           /\ \A w \in Windows(Tokens[chunk[k].doc]) :
                 \E x \in NewRows(k) : x.run = k /\ WindowOf(x) = w
           /\ NewRows(k) # {}
<1>1. chunk[k].doc \in Docs /\ Tokens[chunk[k].doc] \in Nat
  BY LanceConstants DEF ChunksKnown
<1>2. ASSUME NEW w \in Windows(Tokens[chunk[k].doc])
      PROVE  /\ NewRow(k, w).source = chunk[k].source /\ NewRow(k, w).doc = chunk[k].doc
             /\ NewRow(k, w).run = k /\ WindowOf(NewRow(k, w)) = w
             /\ \A q \in Kinds : NewRow(k, w).tags[q] = Null
  <2>1. w = [seq |-> w.seq, from |-> w.from, to |-> w.to]
    BY <1>1, WindowFields
  <2>. QED  BY <2>1 DEF NewRow, WindowOf
<1>3. Windows(Tokens[chunk[k].doc]) # {}
  BY <1>1, WindowsTile
<1>. QED  BY <1>2, <1>3 DEF NewRows

\* What a run finds when it adds its rows was added while it was under way.
LEMMA AddKeeps ==
    ASSUME TablesTyped, TablesTyped', ChunksKnown, Generations, NEW k \in Chunkers, ChunkAdd(k)
    PROVE  Generations' /\ RunsGoOn
<1>. DEFINE s == chunk[k].source
            d == chunk[k].doc
            new == NewRows(k)
<1>1. /\ chunk[k].pc = "add" /\ rows' = rows \cup new
      /\ chunk' = [chunk EXCEPT ![k].pc = "done"]
  BY DEF ChunkAdd
<1>2. RunsMeet /\ Running(k) /\ "done" \in ChunkPcs \ {"new"}
  BY <1>1 DEF Generations, ChunkPcs, Running
<1>3. /\ RunsMeet' /\ RunsGoOn
      /\ \A j \in Chunkers : /\ chunk'[j].pc = IF j = k THEN "done" ELSE chunk[j].pc
                             /\ chunk'[j].source = chunk[j].source
                             /\ chunk'[j].met = chunk[j].met
  BY <1>1, <1>2, RunningMeets
<1>4. /\ \A x \in new : /\ x.source = s /\ x.doc = d /\ x.run = k
                        /\ WindowOf(x) \in Windows(Tokens[d])
      /\ \A w \in Windows(Tokens[d]) : \E x \in new : x.run = k /\ WindowOf(x) = w
      /\ new # {}
  BY <1>1, NewRowFields
<1>5. chunk'[k].source = s /\ chunk'[k].doc = d
  BY <1>1, <1>3 DEF RunsGoOn
<1>. HIDE DEF new, s, d
<1>6. ASSUME NEW x \in rows
      PROVE  /\ x.run \in Chunkers /\ x.run # k /\ chunk[x.run].pc = "done"
             /\ x.source = chunk[x.run].source /\ x.doc = chunk[x.run].doc
             /\ WindowOf(x) \in Windows(Tokens[x.doc])
  BY <1>1, RowHasRun DEF Generations, RowsKnown
<1>7. RowsKnown'
  <2>1. ASSUME NEW x \in rows'
        PROVE  /\ chunk'[x.run].pc = "done"
               /\ x.source = chunk'[x.run].source /\ x.doc = chunk'[x.run].doc
               /\ WindowOf(x) \in Windows(Tokens[x.doc])
    <3>1. CASE x \in rows
      BY <1>3, <1>6, <3>1 DEF RunsGoOn
    <3>2. CASE x \in new
      BY <1>3, <1>4, <1>5, <3>2
    <3>. QED  BY <1>1, <3>1, <3>2
  <2>. QED  BY <2>1 DEF RowsKnown, WindowOf
<1>8. RowsWhole'
  <2>1. ASSUME NEW x \in rows', NEW w \in Windows(Tokens[x.doc])
        PROVE  \E y \in rows' : y.run = x.run /\ WindowOf(y) = w
    <3>1. CASE x \in rows
      BY <1>1, <2>1, <3>1 DEF Generations, RowsWhole
    <3>2. CASE x \in new
      BY <1>1, <1>4, <2>1, <3>2
    <3>. QED  BY <1>1, <3>1, <3>2
  <2>. QED  BY <2>1 DEF RowsWhole, WindowOf
<1>9. \A x \in rows : x.source = s => x.run \in chunk[k].met
  BY <1>1 DEF Generations, AddsMeet, RowsOf, s
<1>10. AddsMeet'
  <2>1. ASSUME NEW j \in Chunkers, chunk'[j].pc = "add",
               NEW x \in rows', x.source = chunk'[j].source
        PROVE  x.run \in chunk'[j].met
    <3>1. j # k /\ chunk[j].pc = "add" /\ chunk'[j].source = chunk[j].source
      BY <1>3, <2>1
    <3>2. CASE x \in rows
      BY <1>3, <2>1, <3>1, <3>2 DEF Generations, AddsMeet, RowsOf
    <3>3. CASE x \in new
      <4>1. x.run = k /\ k \in chunk[j].met
        BY <1>2, <1>4, <3>1, <3>3 DEF RunsMeet, Running
      <4>. QED  BY <1>3, <4>1
    <3>. QED  BY <1>1, <3>2, <3>3
  <2>. QED  BY <2>1 DEF AddsMeet, RowsOf
<1>11. OneGeneration'
  <2>1. ASSUME NEW x1 \in rows', NEW x2 \in rows', x1.source = x2.source, x1.run # x2.run
        PROVE  x1.run \in chunk'[x2.run].met
    <3>1. CASE x1 \in rows /\ x2 \in rows
      BY <1>3, <1>6, <2>1, <3>1 DEF Generations, OneGeneration
    <3>2. CASE x1 \in rows /\ x2 \in new
      BY <1>3, <1>4, <1>9, <2>1, <3>2
    <3>3. CASE x1 \in new /\ x2 \in rows
      <4>1. x2.run \in chunk[k].met /\ x2.run \in Chunkers /\ x1.run = k
        BY <1>4, <1>6, <1>9, <2>1, <3>3
      <4>. QED  BY <1>2, <1>3, <4>1 DEF RunsMeet
    <3>. QED  BY <1>1, <1>4, <2>1, <3>1, <3>2, <3>3
  <2>2. ASSUME NEW i \in Chunkers, chunk'[i].pc = "done",
               ~ \E x \in rows' : x.source = chunk'[i].source
        PROVE  \E j \in Chunkers : /\ chunk'[j].source = chunk'[i].source
                                   /\ chunk'[j].pc \in {"add", "emptied"}
    <3>1. chunk'[i].source # s /\ chunk'[i].source = chunk[i].source
      BY <1>1, <1>3, <1>4, <2>2
    <3>2. chunk[i].pc = "done" /\ RowsOf(chunk[i].source) = {}
      BY <1>1, <1>3, <1>5, <2>2, <3>1 DEF RowsOf
    <3>3. PICK j \in Chunkers : chunk[j].source = chunk[i].source
                                  /\ chunk[j].pc \in {"add", "emptied"}
      BY <3>2 DEF Generations, OneGeneration
    <3>4. j # k
      BY <3>1, <3>3 DEF s
    <3>. QED  BY <1>3, <3>1, <3>3, <3>4
  <2>. QED  BY <2>1, <2>2 DEF OneGeneration, RowsOf
<1>. QED  BY <1>3, <1>7, <1>8, <1>10, <1>11 DEF Generations
-----------------------------------------------------------------------------
(* Tags.                                                                   *)

\* What a merge makes of a row: the same text, and in the tagger's own column
\* the old value or one that the result holds for the row.
LEMMA MergedRows ==
    ASSUME TablesTyped, NEW t \in Taggers, TagMerge(t)
    PROVE  /\ \A x \in rows' : \E r \in rows :
                 /\ SameText(x, r)
                 /\ \A q \in Kinds : \/ x.tags[q] = r.tags[q]
                                     \/ q = KindOf[t] /\ x.tags[q] \in ValuesFor(t, r)
           /\ \A r \in rows : \E x \in rows' : SameText(x, r)
<1>. DEFINE M(r) == IF ValuesFor(t, r) = {} THEN r
                    ELSE Retag(r, KindOf[t], CHOOSE v \in ValuesFor(t, r) : TRUE)
<1>1. rows' = {M(r) : r \in rows} /\ KindOf[t] \in Kinds
  BY LanceConstants DEF TagMerge
<1>2. ASSUME NEW r \in rows
      PROVE  /\ SameText(M(r), r)
             /\ \A q \in Kinds : \/ M(r).tags[q] = r.tags[q]
                                 \/ q = KindOf[t] /\ M(r).tags[q] \in ValuesFor(t, r)
  <2>1. r \in Row /\ r.tags \in [Kinds -> TagValue \cup {Null}]
    BY DEF TablesTyped, Row
  <2>2. CASE ValuesFor(t, r) = {}
    BY <2>2 DEF SameText
  <2>3. CASE ValuesFor(t, r) # {}
    <3>1. PICK v \in ValuesFor(t, r) : M(r) = Retag(r, KindOf[t], v)
      BY <2>3
    <3>2. M(r) = [r EXCEPT !.tags = [r.tags EXCEPT ![KindOf[t]] = v]]
      BY <3>1 DEF Retag
    <3>. HIDE DEF M
    <3>3. /\ M(r).source = r.source /\ M(r).doc = r.doc /\ M(r).run = r.run
          /\ M(r).seq = r.seq /\ M(r).from = r.from /\ M(r).to = r.to
          /\ M(r).tags = [r.tags EXCEPT ![KindOf[t]] = v]
      BY <2>1, <3>2 DEF Row
    <3>4. \A q \in Kinds : \/ M(r).tags[q] = r.tags[q]
                           \/ q = KindOf[t] /\ M(r).tags[q] \in ValuesFor(t, r)
      BY <2>1, <3>1, <3>3
    <3>. QED  BY <3>3, <3>4 DEF SameText, WindowOf
  <2>. QED  BY <2>2, <2>3
<1>. HIDE DEF M
<1>. QED  BY <1>1, <1>2

\* Runs of chunks take no part in tagging: their rows come without values, and
\* what was read stays a whole generation of a run that is done.
LEMMA ChunkStepsKeepTags ==
    ASSUME TablesTyped, TagsKnown, RunsGoOn, tag' = tag,
           \A x \in rows' : x \in rows \/ \A q \in Kinds : x.tags[q] = Null
    PROVE  TagsKnown'
<1>1. ResultsKnown'
  BY DEF TagsKnown, ResultsKnown
<1>2. ReadsWhole'
  <2>1. ASSUME NEW t \in Taggers, NEW a \in tag[t].read
        PROVE  /\ chunk'[a.run].pc = "done" /\ a.doc = chunk'[a.run].doc
               /\ \A w \in Windows(Tokens[a.doc]) :
                     \E b \in tag[t].read : b.run = a.run /\ b.seq = w.seq
    <3>1. a.run \in Chunkers
      BY DEF TablesTyped, TagState, Reading
    <3>. QED  BY <3>1 DEF TagsKnown, ReadsWhole, RunsGoOn
  <2>. QED  BY <2>1 DEF ReadsWhole
<1>3. ValuesMerged'
  BY DEF TagsKnown, ValuesMerged
<1>4. TagsFollowTheRead'
  BY DEF TagsKnown, TagsFollowTheRead
<1>. QED  BY <1>1, <1>2, <1>3, <1>4 DEF TagsKnown

\* Values in the table are not affected by taggers that are not done.
LEMMA ValuesStay ==
    ASSUME TablesTyped, TagsKnown, rows' = rows,
           NEW t \in Taggers, tag[t].pc # "done",
           \A u \in Taggers \ {t} : tag'[u] = tag[u]
    PROVE  ValuesMerged' /\ TagsFollowTheRead'
<1>1. ASSUME NEW r \in rows, NEW q \in Kinds, r.tags[q] # Null
      PROVE  r.tags[q].by \in Taggers \ {t} /\ tag'[r.tags[q].by] = tag[r.tags[q].by]
  <2>1. r.tags[q] \in TagValue
    BY <1>1 DEF TablesTyped, Row
  <2>2. r.tags[q].by \in Taggers /\ tag[r.tags[q].by].pc = "done"
    BY <1>1, <2>1 DEF TagValue, TagsKnown, ValuesMerged
  <2>. QED  BY <2>2
<1>2. ValuesMerged'
  BY <1>1 DEF TagsKnown, ValuesMerged
<1>3. TagsFollowTheRead'
  BY <1>1 DEF TagsKnown, TagsFollowTheRead
<1>. QED  BY <1>2, <1>3

LEMMA TagReadKeeps ==
    ASSUME TablesTyped, Generations, TagsKnown,
           NEW t \in Taggers, NEW s \in LanceSources, TagRead(t, s)
    PROVE  TagsKnown'
<1>. DEFINE read == {ReadOf(r) : r \in RowsOf(s)}
<1>1. /\ tag[t].pc = "new" /\ rows' = rows /\ chunk' = chunk
      /\ tag \in [Taggers -> TagState]
  BY DEF TagRead, TablesTyped
<1>2. ASSUME NEW new \in TagState, tag' = [tag EXCEPT ![t] = new],
             new.pc = "score" => new.source \in LanceSources, new.todo \subseteq new.read,
             \A p \in new.result : p[2].by = t /\ p[2].seq = p[1]
                  /\ \E a \in new.read : a.seq = p[1] /\ a.doc = p[2].doc,
             new.read = tag[t].read \/ new.read = read
      PROVE  TagsKnown'
  <2>1. \A u \in Taggers : tag'[u] = IF u = t THEN new ELSE tag[u]
    BY <1>1, <1>2
  <2>2. ResultsKnown'
    BY <1>2, <2>1 DEF TagsKnown, ResultsKnown
  <2>3. ValuesMerged' /\ TagsFollowTheRead'
    BY <1>1, <2>1, ValuesStay
  <2>4. ASSUME NEW a \in read
        PROVE  /\ chunk[a.run].pc = "done" /\ a.doc = chunk[a.run].doc
               /\ \A w \in Windows(Tokens[a.doc]) : \E b \in read : b.run = a.run /\ b.seq = w.seq
    <3>1. PICK r \in rows : r.source = s /\ a = ReadOf(r)
      BY DEF RowsOf
    <3>2. a.run = r.run /\ a.doc = r.doc
      BY <3>1 DEF ReadOf
    <3>3. chunk[r.run].pc = "done" /\ r.doc = chunk[r.run].doc /\ chunk[r.run].source = s
      BY <3>1 DEF Generations, RowsKnown
    <3>4. ASSUME NEW w \in Windows(Tokens[r.doc])
          PROVE  \E b \in read : b.run = r.run /\ b.seq = w.seq
      <4>1. PICK x \in rows : x.run = r.run /\ WindowOf(x) = w
        BY DEF Generations, RowsWhole
      <4>2. x.source = s /\ x.seq = w.seq
        BY <3>3, <4>1 DEF Generations, RowsKnown, WindowOf
      <4>3. ReadOf(x) \in read /\ ReadOf(x).run = r.run /\ ReadOf(x).seq = w.seq
        BY <4>1, <4>2 DEF RowsOf, ReadOf
      <4>. QED  BY <4>3
    <3>. QED  BY <3>2, <3>3, <3>4
  <2>. HIDE DEF read
  <2>5. ReadsWhole'
    <3>1. ASSUME NEW u \in Taggers, NEW a \in tag'[u].read
          PROVE  /\ chunk[a.run].pc = "done" /\ a.doc = chunk[a.run].doc
                 /\ \A w \in Windows(Tokens[a.doc]) :
                       \E b \in tag'[u].read : b.run = a.run /\ b.seq = w.seq
      <4>1. CASE tag'[u].read = tag[u].read
        BY <4>1, <3>1 DEF TagsKnown, ReadsWhole
      <4>2. CASE tag'[u].read = read
        BY <2>4, <3>1, <4>2
      <4>. QED  BY <1>2, <2>1, <4>1, <4>2
    <3>. QED  BY <1>1, <3>1 DEF ReadsWhole
  <2>. QED  BY <2>2, <2>3, <2>5 DEF TagsKnown
<1>3. read \subseteq Reading
  BY ReadTyped DEF RowsOf
<1>4. \/ tag' = [tag EXCEPT ![t].pc = "done"]
      \/ tag' = [tag EXCEPT ![t].pc = "failed"]
      \/ tag' = [tag EXCEPT ![t] = [pc |-> "score", source |-> s, read |-> read,
                                    todo |-> read, result |-> {}]]
  BY DEF TagRead
<1>. HIDE DEF read
<1>5. ASSUME NEW pc \in {"done", "failed"}, tag' = [tag EXCEPT ![t].pc = pc]
      PROVE  TagsKnown'
  <2>. DEFINE new == [tag[t] EXCEPT !.pc = pc]
  <2>1. /\ new \in TagState /\ tag' = [tag EXCEPT ![t] = new]
        /\ new.pc = pc /\ new.todo = tag[t].todo /\ new.read = tag[t].read
        /\ new.result = tag[t].result
    BY <1>1, <1>5 DEF TagState, TagPcs
  <2>. HIDE DEF new
  <2>2. /\ new.todo \subseteq new.read
        /\ \A p \in new.result : p[2].by = t /\ p[2].seq = p[1]
                  /\ \E a \in new.read : a.seq = p[1] /\ a.doc = p[2].doc
    BY <2>1 DEF TagsKnown, ResultsKnown
  <2>3. new.pc # "score"
    BY <2>1
  <2>. QED  BY <1>2, <2>1, <2>2, <2>3
<1>6. CASE tag' = [tag EXCEPT ![t] = [pc |-> "score", source |-> s, read |-> read,
                                      todo |-> read, result |-> {}]]
  <2>. DEFINE new == [pc |-> "score", source |-> s, read |-> read, todo |-> read, result |-> {}]
  <2>1. /\ new \in TagState /\ tag' = [tag EXCEPT ![t] = new] /\ new.source = s
        /\ new.todo = read /\ new.read = read /\ new.result = {}
    BY <1>3, <1>6 DEF TagState, TagPcs
  <2>. HIDE DEF new
  <2>. QED  BY <1>2, <2>1
<1>. QED  BY <1>4, <1>5, <1>6
LEMMA ScoringKeeps ==
    ASSUME TablesTyped, TagsKnown, NEW t \in Taggers, tag[t].pc = "score",
           rows' = rows, chunk' = chunk, NEW new \in TagState, tag' = [tag EXCEPT ![t] = new],
           new.source = tag[t].source, new.read = tag[t].read, new.todo \subseteq new.read,
           \A p \in new.result : p[2].by = t /\ p[2].seq = p[1]
                  /\ \E a \in new.read : a.seq = p[1] /\ a.doc = p[2].doc
    PROVE  TagsKnown'
<1>1. \A u \in Taggers : tag'[u] = IF u = t THEN new ELSE tag[u]
  BY DEF TablesTyped
<1>2. ResultsKnown'
  BY <1>1 DEF TagsKnown, ResultsKnown
<1>3. ReadsWhole'
  BY <1>1 DEF TagsKnown, ReadsWhole
<1>4. ValuesMerged' /\ TagsFollowTheRead'
  BY <1>1, ValuesStay
<1>. QED  BY <1>2, <1>3, <1>4 DEF TagsKnown

LEMMA CallKeeps ==
    ASSUME TablesTyped, TagsKnown, NEW t \in Taggers, NEW a \in tag[t].todo, QualityCall(t, a)
    PROVE  TagsKnown'
<1>1. /\ tag[t].pc = "score" /\ rows' = rows /\ chunk' = chunk
      /\ tag[t] \in TagState /\ tag[t].todo \subseteq tag[t].read /\ a \in Reading
  BY DEF QualityCall, TablesTyped, TagState, TagsKnown, ResultsKnown
<1>2. PICK answer \in Answers :
          tag' = [tag EXCEPT ![t].todo = @ \ {a},
                             ![t].result = @ \cup {<<a.seq, Value(t, a, Scored(answer))>>}]
  BY DEF QualityCall
<1>. DEFINE v == Value(t, a, Scored(answer))
            pair == <<a.seq, v>>
            new == [tag[t] EXCEPT !.todo = @ \ {a}, !.result = @ \cup {pair}]
<1>3. v \in TagValue /\ v.by = t /\ v.seq = a.seq /\ v.doc = a.doc /\ a.seq \in Nat
  BY <1>1, ScoredTyped, ValueTyped DEF Reading
<1>4. tag' = [tag EXCEPT ![t] = new]
  BY <1>2
<1>. HIDE DEF v
<1>5. pair \in Nat \X TagValue /\ pair[1] = a.seq /\ pair[2] = v
  BY <1>3
<1>. HIDE DEF pair
<1>6. /\ new \in TagState /\ new.source = tag[t].source /\ new.read = tag[t].read
      /\ new.todo = tag[t].todo \ {a} /\ new.result = tag[t].result \cup {pair}
  BY <1>1, <1>5 DEF TagState
<1>. HIDE DEF new
<1>7. ASSUME NEW p \in new.result
      PROVE  p[2].by = t /\ p[2].seq = p[1] /\ \E b \in new.read : b.seq = p[1] /\ b.doc = p[2].doc
  <2>1. CASE p \in tag[t].result
    BY <1>6, <2>1 DEF TagsKnown, ResultsKnown
  <2>2. CASE p = pair
    BY <1>1, <1>3, <1>6, <1>5, <2>2
  <2>. QED  BY <1>6, <2>1, <2>2
<1>. QED  BY <1>1, <1>4, <1>6, <1>7, ScoringKeeps

LEMMA ComputeKeeps ==
    ASSUME TablesTyped, TagsKnown, NEW t \in Taggers, TagCompute(t)
    PROVE  TagsKnown'
<1>. DEFINE z == [score |-> 0, error |-> FALSE]
            result == {<<a.seq, Value(t, a, z)>> : a \in tag[t].read}
            new == [tag[t] EXCEPT !.todo = {}, !.result = result]
<1>1. /\ tag[t].pc = "score" /\ rows' = rows /\ chunk' = chunk /\ tag[t] \in TagState
      /\ tag' = [tag EXCEPT ![t] = new]
  BY DEF TagCompute, TablesTyped
<1>2. z.score \in 0..2 /\ z.error \in BOOLEAN
  OBVIOUS
<1>. HIDE DEF z
<1>3. ASSUME NEW p \in result
      PROVE  /\ p \in Nat \X TagValue /\ p[2].by = t /\ p[2].seq = p[1]
             /\ \E b \in tag[t].read : b.seq = p[1] /\ b.doc = p[2].doc
  <2>1. PICK a \in tag[t].read : p = <<a.seq, Value(t, a, z)>>
    OBVIOUS
  <2>2. a \in Reading /\ a.seq \in Nat
    BY <1>1 DEF TagState, Reading
  <2>3. /\ Value(t, a, z) \in TagValue /\ Value(t, a, z).by = t
        /\ Value(t, a, z).seq = a.seq /\ Value(t, a, z).doc = a.doc
    BY <1>2, <2>2, ValueTyped
  <2>. QED  BY <2>1, <2>2, <2>3
<1>. HIDE DEF result
<1>4. result \subseteq Nat \X TagValue
  BY <1>3
<1>5. /\ new \in TagState /\ new.source = tag[t].source /\ new.read = tag[t].read
      /\ new.todo = {} /\ new.result = result
  BY <1>1, <1>4 DEF TagState
<1>. HIDE DEF new
<1>6. \A p \in new.result : p[2].by = t /\ p[2].seq = p[1]
          /\ \E b \in new.read : b.seq = p[1] /\ b.doc = p[2].doc
  BY <1>3, <1>5
<1>. QED  BY <1>1, <1>5, <1>6, ScoringKeeps

LEMMA TagFailKeeps ==
    ASSUME TablesTyped, TagsKnown, NEW t \in Taggers, TagFail(t)
    PROVE  TagsKnown'
<1>. DEFINE new == [tag[t] EXCEPT !.pc = "failed"]
<1>1. /\ tag[t].pc = "score" /\ rows' = rows /\ chunk' = chunk /\ tag[t] \in TagState
      /\ tag' = [tag EXCEPT ![t] = new]
  BY DEF TagFail, TablesTyped
<1>2. /\ new \in TagState /\ new.source = tag[t].source /\ new.read = tag[t].read
      /\ new.todo = tag[t].todo /\ new.result = tag[t].result
  BY <1>1 DEF TagState, TagPcs
<1>. HIDE DEF new
<1>3. /\ new.todo \subseteq new.read
      /\ \A p \in new.result : p[2].by = t /\ p[2].seq = p[1]
            /\ \E a \in new.read : a.seq = p[1] /\ a.doc = p[2].doc
  BY <1>2 DEF TagsKnown, ResultsKnown
<1>. QED  BY <1>1, <1>2, <1>3, ScoringKeeps

\* A row that a tagger has read belongs to a whole generation that it has read,
\* and without duplicates its seq stands for one text: the value is of that text.
LEMMA MergeKeeps ==
    ASSUME TablesTyped, Generations, TagsKnown, NEW t \in Taggers, TagMerge(t)
    PROVE  TagsKnown'
<1>1. /\ tag[t].pc = "score" /\ ~Doubled(tag[t].read) /\ chunk' = chunk
      /\ tag \in [Taggers -> TagState] /\ tag' = [tag EXCEPT ![t].pc = "done"]
  BY DEF TagMerge, TablesTyped
<1>2. \A u \in Taggers : /\ tag'[u].pc = IF u = t THEN "done" ELSE tag[u].pc
                         /\ tag'[u].source = tag[u].source /\ tag'[u].read = tag[u].read
                         /\ tag'[u].todo = tag[u].todo /\ tag'[u].result = tag[u].result
  BY <1>1 DEF TagState
<1>3. ResultsKnown'
  BY <1>2 DEF TagsKnown, ResultsKnown
<1>4. ReadsWhole'
  BY <1>1, <1>2 DEF TagsKnown, ReadsWhole
<1>5. ASSUME NEW r \in rows, NEW v \in ValuesFor(t, r)
      PROVE  /\ v.by = t /\ v.seq = r.seq
             /\ v.doc = r.doc \/ r.run \notin {a.run : a \in tag[t].read}
  <2>1. PICK p \in tag[t].result : p[1] = r.seq /\ v = p[2]
    BY DEF ValuesFor
  <2>2. v.by = t /\ v.seq = r.seq
    BY <2>1 DEF TagsKnown, ResultsKnown
  <2>3. PICK c \in tag[t].read : c.seq = r.seq /\ c.doc = v.doc
    BY <2>1 DEF TagsKnown, ResultsKnown
  <2>4. ASSUME NEW a \in tag[t].read, a.run = r.run
        PROVE  v.doc = r.doc
    <3>1. a.doc = r.doc
      BY <2>4 DEF TagsKnown, ReadsWhole, Generations, RowsKnown
    <3>2. WindowOf(r) \in Windows(Tokens[a.doc]) /\ WindowOf(r).seq = r.seq
      BY <3>1 DEF Generations, RowsKnown, WindowOf
    <3>3. PICK b \in tag[t].read : b.run = a.run /\ b.seq = r.seq
      BY <3>2 DEF TagsKnown, ReadsWhole
    <3>4. b.doc = r.doc
      BY <2>4, <3>3 DEF TagsKnown, ReadsWhole, Generations, RowsKnown
    <3>5. b = c
      BY <1>1, <2>3, <3>3 DEF Doubled
    <3>. QED  BY <2>3, <3>4, <3>5
  <2>. QED  BY <2>2, <2>4
<1>6. ASSUME NEW x \in rows', NEW q \in Kinds, x.tags[q] # Null
      PROVE  \/ /\ q = KindOf[t] /\ x.tags[q].by = t /\ x.tags[q].seq = x.seq
                /\ x.tags[q].doc = x.doc \/ x.run \notin {a.run : a \in tag[t].read}
             \/ \E r \in rows : SameText(x, r) /\ x.tags[q] = r.tags[q]
  <2>1. PICK r \in rows : SameText(x, r) /\ (\/ x.tags[q] = r.tags[q]
                                             \/ q = KindOf[t] /\ x.tags[q] \in ValuesFor(t, r))
    BY MergedRows
  <2>2. x.seq = r.seq /\ x.doc = r.doc /\ x.run = r.run
    BY <2>1 DEF SameText, WindowOf
  <2>3. CASE q = KindOf[t] /\ x.tags[q] \in ValuesFor(t, r)
    BY <1>5, <2>2, <2>3
  <2>. QED  BY <2>1, <2>3
<1>7. ASSUME NEW r \in rows, NEW q \in Kinds, r.tags[q] # Null
      PROVE  /\ r.tags[q].by \in Taggers /\ tag[r.tags[q].by].pc = "done"
             /\ KindOf[r.tags[q].by] = q /\ r.tags[q].seq = r.seq
             /\ \/ r.tags[q].doc = r.doc
                \/ r.run \notin {a.run : a \in tag[r.tags[q].by].read}
  <2>1. r.tags[q] \in TagValue
    BY <1>7 DEF TablesTyped, Row
  <2>. QED  BY <1>7, <2>1 DEF TagValue, TagsKnown, ValuesMerged, TagsFollowTheRead
<1>8. ASSUME NEW x \in rows', NEW q \in Kinds, x.tags[q] # Null
      PROVE  /\ tag'[x.tags[q].by].pc = "done"
             /\ KindOf[x.tags[q].by] = q /\ x.tags[q].seq = x.seq
             /\ \/ x.tags[q].doc = x.doc
                \/ x.run \notin {a.run : a \in tag'[x.tags[q].by].read}
  <2>1. CASE /\ q = KindOf[t] /\ x.tags[q].by = t /\ x.tags[q].seq = x.seq
             /\ x.tags[q].doc = x.doc \/ x.run \notin {a.run : a \in tag[t].read}
    BY <1>2, <2>1
  <2>2. ASSUME NEW r \in rows, SameText(x, r), x.tags[q] = r.tags[q]
        PROVE  /\ tag'[x.tags[q].by].pc = "done"
               /\ KindOf[x.tags[q].by] = q /\ x.tags[q].seq = x.seq
               /\ \/ x.tags[q].doc = x.doc
                  \/ x.run \notin {a.run : a \in tag'[x.tags[q].by].read}
    <3>1. x.seq = r.seq /\ x.doc = r.doc /\ x.run = r.run
      BY <2>2 DEF SameText, WindowOf
    <3>. QED  BY <1>2, <1>7, <1>8, <2>2, <3>1
  <2>. QED  BY <1>6, <1>8, <2>1, <2>2
<1>9. ValuesMerged' /\ TagsFollowTheRead'
  BY <1>8 DEF ValuesMerged, TagsFollowTheRead
<1>. QED  BY <1>3, <1>4, <1>9 DEF TagsKnown
-----------------------------------------------------------------------------
LEMMA QuietTables ==
    ASSUME TablesInv, UNCHANGED <<team, rows, chunk, tag>>
    PROVE  TablesInv'
<1>1. team' = team /\ rows' = rows /\ chunk' = chunk /\ tag' = tag
  OBVIOUS
<1>2. TablesTyped' /\ ChunksKnown'
  BY <1>1 DEF TablesInv, TablesTyped, ChunksKnown
<1>3. RowsKnown' /\ RowsWhole' /\ RunsMeet' /\ AddsMeet' /\ OneGeneration'
  BY <1>1 DEF TablesInv, Generations, RowsKnown, RowsWhole, WindowOf, RunsMeet, Running,
              AddsMeet, OneGeneration, RowsOf
<1>4. ResultsKnown' /\ ReadsWhole' /\ ValuesMerged' /\ TagsFollowTheRead'
  BY <1>1 DEF TablesInv, TagsKnown, ResultsKnown, ReadsWhole, ValuesMerged, TagsFollowTheRead
<1>. QED  BY <1>2, <1>3, <1>4 DEF TablesInv, Generations, TagsKnown

LEMMA ChunkStepsKeep ==
    ASSUME TablesInv, NEW k \in Chunkers, ChunkNext(k)
    PROVE  TablesInv'
<1>1. TablesTyped /\ ChunksKnown /\ Generations /\ TagsKnown
  BY DEF TablesInv
<1>2. TablesTyped' /\ ChunksKnown'
  BY <1>1, ChunkStepsTyped
<1>3. tag' = tag
  BY DEF ChunkNext, ChunkRead, ChunkDelete, ChunkAdd, ChunkFail
<1>4. Generations' /\ RunsGoOn
  <2>1. ASSUME NEW s \in LanceSources, ChunkRead(k, s) PROVE Generations' /\ RunsGoOn
    BY <1>1, <1>2, <2>1, ReadMeets, SameTextsKeep DEF Generations
  <2>2. CASE ChunkDelete(k)
    BY <1>1, <1>2, <2>2, DeleteKeeps
  <2>3. CASE ChunkAdd(k)
    BY <1>1, <1>2, <2>3, AddKeeps
  <2>4. CASE ChunkFail(k)
    BY <1>1, <1>2, <2>4, FailKeeps
  <2>. QED  BY <2>1, <2>2, <2>3, <2>4 DEF ChunkNext
<1>5. \A x \in rows' : x \in rows \/ \A q \in Kinds : x.tags[q] = Null
  <2>1. CASE rows' \subseteq rows
    BY <2>1
  <2>2. CASE ChunkAdd(k)
    <3>1. chunk[k].pc = "add" /\ rows' = rows \cup NewRows(k)
      BY <2>2 DEF ChunkAdd
    <3>. QED  BY <1>1, <3>1, NewRowFields
  <2>. QED  BY <2>1, <2>2 DEF ChunkNext, ChunkRead, ChunkDelete, ChunkFail
<1>6. TagsKnown'
  BY <1>1, <1>3, <1>4, <1>5, ChunkStepsKeepTags
<1>. QED  BY <1>2, <1>4, <1>6 DEF TablesInv

LEMMA TagStepsKeep ==
    ASSUME TablesInv, NEW t \in Taggers, TagNext(t)
    PROVE  TablesInv'
<1>1. TablesTyped /\ ChunksKnown /\ Generations /\ TagsKnown
  BY DEF TablesInv
<1>2. TablesTyped'
  BY <1>1, TagStepsTyped
<1>3. chunk' = chunk
  BY DEF TagNext, TagRead, QualityCall, TagCompute, TagMerge, TagFail
<1>4. ChunksKnown' /\ RunsMeet' /\ RunsGoOn
  BY <1>1, <1>3 DEF ChunksKnown, Generations, RunsMeet, Running, RunsGoOn
<1>5. SameTexts
  <2>1. CASE rows' = rows
    BY <1>3, <2>1, SameRows
  <2>2. CASE TagMerge(t)
    <3>1. /\ \A x \in rows' : \E r \in rows : SameText(x, r)
          /\ \A r \in rows : \E x \in rows' : SameText(x, r)
      BY <1>1, <2>2, MergedRows
    <3>. QED  BY <1>3, <3>1 DEF SameTexts
  <2>. QED  BY <2>1, <2>2 DEF TagNext, TagRead, QualityCall, TagCompute, TagFail
<1>6. Generations'
  BY <1>1, <1>2, <1>4, <1>5, SameTextsKeep
<1>7. TagsKnown'
  BY <1>1, TagReadKeeps, CallKeeps, ComputeKeeps, MergeKeeps, TagFailKeeps DEF TagNext
<1>. QED  BY <1>2, <1>4, <1>6, <1>7 DEF TablesInv

LEMMA TableStepKeeps ==
    ASSUME TablesInv, TableStep
    PROVE  TablesInv'
BY ChunkStepsKeep, TagStepsKeep, QuietTables DEF TableStep

LEMMA InitTables ==
    ASSUME LanceInit
    PROVE  TablesInv
<1>1. /\ team \in LanceCasts /\ rows = {}
      /\ chunk = [k \in Chunkers |-> NewChunk] /\ tag = [t \in Taggers |-> NewTag]
  BY DEF LanceInit
<1>2. NewChunk \in ChunkState /\ NewChunk.pc = "new" /\ NewChunk.met = {}
  BY DEF NewChunk, ChunkState, ChunkPcs
<1>3. /\ NewTag \in TagState /\ NewTag.pc = "new"
      /\ NewTag.read = {} /\ NewTag.todo = {} /\ NewTag.result = {}
  BY DEF NewTag, TagState, TagPcs
<1>4. TablesTyped /\ ChunksKnown
  BY <1>1, <1>2, <1>3 DEF TablesTyped, ChunksKnown
<1>5. RowsKnown /\ RowsWhole /\ RunsMeet /\ AddsMeet /\ OneGeneration
  BY <1>1, <1>2 DEF RowsKnown, RowsWhole, RunsMeet, Running, AddsMeet, OneGeneration, RowsOf
<1>6. ResultsKnown /\ ReadsWhole /\ ValuesMerged /\ TagsFollowTheRead
  BY <1>1, <1>3 DEF ResultsKnown, ReadsWhole, ValuesMerged, TagsFollowTheRead
<1>. QED  BY <1>4, <1>5, <1>6 DEF TablesInv, Generations, TagsKnown

LEMMA WholeHeld ==
    ASSUME TablesInv
    PROVE  GenerationsAreWhole
<1>1. TablesTyped /\ RowsKnown /\ RowsWhole
  BY DEF TablesInv, Generations
<1>2. SUFFICES ASSUME NEW k \in Chunkers, Held(k) # {}
               PROVE  Tiles(Held(k), Length(Tokens[chunk[k].doc]))
  BY DEF GenerationsAreWhole
<1>. DEFINE n == Tokens[chunk[k].doc]
<1>3. Held(k) = {WindowOf(r) : r \in {x \in rows : x.run = k}}
  BY DEF Held, WindowOf
<1>4. PICK r \in rows : r.run = k
  BY <1>2, <1>3
<1>5. \A x \in rows : x.run = k => x.doc = chunk[k].doc /\ WindowOf(x) \in Windows(n)
  BY <1>1 DEF RowsKnown
<1>6. n \in Nat
  BY <1>1, <1>4, <1>5, RowHasRun
<1>7. \A w \in Windows(n) : \E x \in rows : x.run = k /\ WindowOf(x) = w
  BY <1>1, <1>4, <1>5 DEF RowsWhole
<1>8. Held(k) = Windows(n)
  BY <1>3, <1>5, <1>7
<1>. QED  BY <1>6, <1>8, WindowsTile

\* A column that is overwritten does not show in the table without it.
LEMMA WithoutRetagged ==
    ASSUME NEW r \in Row, NEW q \in Kinds, NEW v \in TagValue
    PROVE  [Retag(r, q, v) EXCEPT !.tags = [@ EXCEPT ![q] = Null]]
             = [r EXCEPT !.tags = [@ EXCEPT ![q] = Null]]
<1>1. Retag(r, q, v) = [r EXCEPT !.tags = [r.tags EXCEPT ![q] = v]]
  BY DEF Retag
<1>2. r.tags \in [Kinds -> TagValue \cup {Null}]
  BY DEF Row
<1>3. [[r.tags EXCEPT ![q] = v] EXCEPT ![q] = Null] = [r.tags EXCEPT ![q] = Null]
  BY <1>2
<1>. DEFINE x == Retag(r, q, v)
            tags == [r.tags EXCEPT ![q] = Null]
<1>4. x.tags = [r.tags EXCEPT ![q] = v]
  BY <1>1, <1>2 DEF Row
<1>5. [x EXCEPT !.tags = tags] = [r EXCEPT !.tags = tags]
  <2>. DEFINE new == [r.tags EXCEPT ![q] = v]
  <2>1. x = [r EXCEPT !.tags = new]
    BY <1>1
  <2>. HIDE DEF x, tags, new
  <2>. QED  BY <2>1 DEF Row
<1>6. [x EXCEPT !.tags = [@ EXCEPT ![q] = Null]] = [x EXCEPT !.tags = tags]
  BY <1>3, <1>4
<1>. QED  BY <1>5, <1>6

LEMMA TaggersKeepRowsStep ==
    ASSUME TablesInv, TableStep, NEW t \in Taggers, tag'[t] # tag[t]
    PROVE  Without(KindOf[t])' = Without(KindOf[t])
<1>1. TablesTyped /\ KindOf[t] \in Kinds
  BY LanceConstants DEF TablesInv
<1>2. CASE rows' = rows
  BY <1>2 DEF Without
<1>3. CASE TagMerge(t)
  <2>. DEFINE q == KindOf[t]
              M(r) == IF ValuesFor(t, r) = {} THEN r
                      ELSE Retag(r, q, CHOOSE v \in ValuesFor(t, r) : TRUE)
              W(r) == [r EXCEPT !.tags = [@ EXCEPT ![q] = Null]]
  <2>1. rows' = {M(r) : r \in rows}
    BY <1>3 DEF TagMerge
  <2>2. ASSUME NEW r \in rows PROVE W(M(r)) = W(r)
    <3>1. CASE ValuesFor(t, r) = {}
      BY <3>1
    <3>2. CASE ValuesFor(t, r) # {}
      <4>1. PICK v \in ValuesFor(t, r) : M(r) = Retag(r, q, v)
        BY <3>2
      <4>2. v \in TagValue /\ r \in Row
        BY <1>1 DEF ValuesFor, TablesTyped, TagState
      <4>3. W(Retag(r, q, v)) = W(r)
        BY <1>1, <4>2, WithoutRetagged
      <4>. QED  BY <4>1, <4>3
    <3>. QED  BY <3>1, <3>2
  <2>3. Without(q) = {W(r) : r \in rows} /\ Without(q)' = {W(x) : x \in rows'}
    BY DEF Without
  <2>. HIDE DEF W, M
  <2>. QED  BY <2>1, <2>2, <2>3
<1>4. ASSUME NEW k \in Chunkers, ChunkNext(k) PROVE FALSE
  BY <1>4 DEF ChunkNext, ChunkRead, ChunkDelete, ChunkAdd, ChunkFail
<1>5. ASSUME NEW u \in Taggers, TagNext(u), u # t PROVE FALSE
  BY <1>1, <1>5 DEF TagNext, TagRead, QualityCall, TagCompute, TagMerge, TagFail, TablesTyped
<1>6. CASE TagNext(t)
  BY <1>2, <1>3, <1>6 DEF TagNext, TagRead, QualityCall, TagCompute, TagFail
<1>. QED  BY <1>4, <1>5, <1>6 DEF TableStep
-----------------------------------------------------------------------------
LanceInv == TablesInv /\ GatewayInv

LEMMA LanceStart ==
    ASSUME LanceInit
    PROVE  LanceInv
<1>1. GatewayInv
  BY FreshGateway DEF LanceInit, GatewayInit
<1>. QED  BY <1>1, InitTables DEF LanceInv

\* The steps of the runs and of the clock, which is all that LanceChunks has
\* besides a restart of the API process.
LEMMA LanceStepKeeps ==
    ASSUME LanceInv, LanceStep
    PROVE  LanceInv' /\ TableStep
<1>1. TableStep
  BY DEF LanceStep, TickNext, TableStep
<1>2. GatewayInv'
  <2>1. ASSUME NEW k \in Chunkers, ChunkNext(k) PROVE UNCHANGED gatewayVars
    BY <2>1 DEF ChunkNext, ChunkRead, ChunkDelete, ChunkAdd, ChunkFail
  <2>2. ASSUME NEW t \in Taggers, TagNext(t)
        PROVE  UNCHANGED gatewayVars \/ \E answer \in Answers : Post(answer)
    BY <2>2 DEF TagNext, TagRead, QualityCall, TagCompute, TagMerge, TagFail
  <2>. QED  BY <2>1, <2>2, QuietGateway, PostKeeps, TickKeeps DEF LanceStep, TickNext, LanceInv
<1>. QED  BY <1>1, <1>2, TableStepKeeps DEF LanceInv

LEMMA RestartKeeps ==
    ASSUME LanceInv, RestartNext
    PROVE  LanceInv' /\ TableStep
<1>1. TableStep
  BY DEF RestartNext, TableStep
<1>2. GatewayInv'
  BY GatewayRestartKeeps DEF RestartNext, LanceInv
<1>. QED  BY <1>1, <1>2, TableStepKeeps DEF LanceInv

LEMMA LanceQuiet ==
    ASSUME LanceInv, UNCHANGED lanceVars
    PROVE  LanceInv'
BY QuietTables, QuietGateway DEF LanceInv, lanceVars

LEMMA LanceInvariant == LanceSpec => []LanceInv
<1>1. LanceInit => LanceInv
  BY LanceStart
<1>2. LanceInv /\ [LanceNext]_lanceVars => LanceInv'
  BY LanceStepKeeps, RestartKeeps, LanceQuiet DEF LanceNext
<1>. QED  BY <1>1, <1>2, PTL DEF LanceSpec

LEMMA LanceTypes ==
    ASSUME LanceInv
    PROVE  LanceTypeOK
BY DEF LanceInv, TablesInv, TablesTyped, ChunkState, TagState, GatewayInv, GatewayTyped, LanceTypeOK

\* The rows of the table fit its schema, and the runs, the taggers and the
\* gateway hold values of their types: chunks, attr_*, LanceChunksIOManager.
THEOREM LanceTypeCorrect == LanceSpec => []LanceTypeOK
<1>1. LanceInv => LanceTypeOK
  BY LanceTypes
<1>. QED  BY <1>1, LanceInvariant, PTL

\* Two generations of chunks are in the table only if their runs were under way
\* at the same time, and a chunked source is without chunks only between the two
\* commits of a run or after a run that failed there.
THEOREM Generation == LanceSpec => []OneGeneration
<1>1. LanceInv => OneGeneration
  BY DEF LanceInv, TablesInv, Generations
<1>. QED  BY <1>1, LanceInvariant, PTL

\* What the table holds of a run is its whole text, cut without gap or overlap.
THEOREM Whole == LanceSpec => []GenerationsAreWhole
<1>1. LanceInv => GenerationsAreWhole
  BY WholeHeld DEF LanceInv
<1>. QED  BY <1>1, LanceInvariant, PTL

\* A row that a tagger has read gets the value of its own text.
THEOREM Tagged == LanceSpec => []TagsFollowTheRead
<1>1. LanceInv => TagsFollowTheRead
  BY DEF LanceInv, TablesInv, TagsKnown
<1>. QED  BY <1>1, LanceInvariant, PTL

\* _column_mode_write changes one column of rows that are there, and nothing else.
THEOREM ColumnsOnly == LanceSpec => TaggersKeepRows
<1>1. LanceInv /\ [LanceNext]_lanceVars =>
         [\A t \in Taggers : tag'[t] # tag[t] =>
             Without(KindOf[t])' = Without(KindOf[t])]_lanceVars
  BY LanceStepKeeps, RestartKeeps, TaggersKeepRowsStep DEF LanceNext, LanceInv
<1>. QED  BY <1>1, LanceInvariant, PTL DEF LanceSpec, TaggersKeepRows

\* The calls of attr_quality are among those that the limiter counts.
THEOREM LanceLimited == LanceSpec => []RateLimit
<1>1. LanceInv => RateLimit
  BY DEF LanceInv, GatewayInv
<1>. QED  BY <1>1, LanceInvariant, PTL
=============================================================================
