------------------------- MODULE ENetChannelProofs -------------------------
(***************************************************************************)
(* Theorems about ENetChannel, for windows and scripts of any size.        *)
(***************************************************************************)
EXTENDS ENetChannel, FiniteSetTheorems, SequenceTheorems, WellFoundedInduction, TLAPS

(***************************************************************************)
(* Numbers that wrap, and the windows they fall into.  A position is a     *)
(* number that was never wrapped, counted from the first number ever.      *)
(***************************************************************************)
NumOf(x) == x % Numbers

LEMMA Consts ==
    /\ FreeWindows \in Nat /\ FreeWindows >= 3 /\ Windows \in Nat
    /\ Windows = 2 * FreeWindows /\ WindowSize \in Nat \ {0}
    /\ Numbers \in Nat \ {0} /\ Numbers = Windows * WindowSize
    /\ Start \in 0..Numbers - 1
<1>1. /\ FreeWindows \in Nat /\ FreeWindows >= 3 /\ Windows \in Nat
      /\ Windows = 2 * FreeWindows /\ WindowSize \in Nat \ {0}
      /\ Start \in 0..Windows * WindowSize - 1
  BY WindowsAssumption
<1>2. \A a, b \in Nat \ {0} : a * b \in Nat \ {0}
  OBVIOUS
<1>3. Windows * WindowSize \in Nat \ {0}
  BY <1>1, <1>2
<1>. QED BY <1>1, <1>3 DEF Numbers

LEMMA WinBounds ==
    ASSUME NEW x \in Nat
    PROVE  /\ WindowOf(x) \in Nat
           /\ WindowSize * WindowOf(x) <= x /\ x < WindowSize * WindowOf(x) + WindowSize
           /\ x = WindowSize * WindowOf(x) + (x % WindowSize)
<1>1. WindowSize \in Nat \ {0}
  BY Consts
<1>2. /\ x \div WindowSize \in Nat
      /\ x = WindowSize * (x \div WindowSize) + (x % WindowSize)
      /\ x % WindowSize \in 0..WindowSize - 1
  BY <1>1
<1>3. \A p, m \in Int : x = p + m /\ m \in 0..WindowSize - 1 => p <= x /\ x < p + WindowSize
  BY <1>1
<1>4. WindowSize * (x \div WindowSize) \in Int
  <2>1. \A a, b \in Int : a * b \in Int
    OBVIOUS
  <2>2. WindowSize \in Int /\ x \div WindowSize \in Int
    BY <1>1, <1>2
  <2>. QED BY <2>1, <2>2, Zenon
<1>5. x % WindowSize \in Int
  BY <1>2
<1>6. WindowSize * WindowOf(x) <= x /\ x < WindowSize * WindowOf(x) + WindowSize
  BY <1>2, <1>3, <1>4, <1>5, Zenon DEF WindowOf
<1>7. x = WindowSize * WindowOf(x) + (x % WindowSize)
  BY <1>2, Zenon DEF WindowOf
<1>. QED BY <1>2, <1>6, <1>7, Zenon DEF WindowOf

\* A window is known by its bounds.
LEMMA WinUnique ==
    ASSUME NEW x \in Nat, NEW w \in Int,
           WindowSize * w <= x, x < WindowSize * w + WindowSize
    PROVE  WindowOf(x) = w
<1>1. /\ WindowSize \in Nat /\ WindowSize > 0 /\ WindowOf(x) \in Nat
      /\ WindowSize * WindowOf(x) <= x /\ x < WindowSize * WindowOf(x) + WindowSize
  BY WinBounds, Consts
<1>2. ASSUME NEW a \in Int, NEW b \in Int, a < b
      PROVE  WindowSize * a + WindowSize <= WindowSize * b
  <2>1. b - a - 1 \in Nat
    BY <1>2
  <2>2. \A s, d \in Nat : s * d >= 0
    OBVIOUS
  <2>3. WindowSize * (b - a - 1) >= 0
    BY <2>1, <2>2, <1>1
  <2>4. WindowSize * (b - a - 1) = WindowSize * b - WindowSize * a - WindowSize
    BY <1>1
  <2>. QED BY <2>3, <2>4, <1>1
<1>3. ~(WindowOf(x) < w)
  BY <1>1, <1>2
<1>4. ~(w < WindowOf(x))
  BY <1>1, <1>2
<1>. QED BY <1>1, <1>3, <1>4

LEMMA WinMono ==
    ASSUME NEW x \in Nat, NEW y \in Nat, x <= y
    PROVE  WindowOf(x) <= WindowOf(y)
<1>1. /\ WindowSize \in Nat /\ WindowSize > 0
      /\ WindowOf(x) \in Nat /\ WindowSize * WindowOf(x) <= x
      /\ WindowOf(y) \in Nat /\ y < WindowSize * WindowOf(y) + WindowSize
  BY WinBounds, Consts
<1>2. \A s, d \in Nat : s * d >= 0
  OBVIOUS
<1>3. ~(WindowOf(y) < WindowOf(x))
  <2>1. SUFFICES ASSUME WindowOf(y) < WindowOf(x) PROVE FALSE
    OBVIOUS
  <2>2. WindowSize * (WindowOf(x) - WindowOf(y) - 1) >= 0
    BY <2>1, <1>1, <1>2
  <2>3. WindowSize * (WindowOf(x) - WindowOf(y) - 1)
            = WindowSize * WindowOf(x) - WindowSize * WindowOf(y) - WindowSize
    BY <1>1
  <2>. QED BY <2>2, <2>3, <1>1
<1>. QED BY <1>1, <1>3

\* The next position is in the same window, or the first of the next one.
LEMMA WinStep ==
    ASSUME NEW x \in Nat
    PROVE  /\ WindowOf(x + 1) \in {WindowOf(x), WindowOf(x) + 1}
           /\ WindowOf(x + 1) = WindowOf(x) + 1 => (x + 1) % WindowSize = 0
<1>1. /\ WindowSize \in Nat /\ WindowSize > 0 /\ WindowOf(x) \in Nat
      /\ WindowSize * WindowOf(x) <= x /\ x < WindowSize * WindowOf(x) + WindowSize
  BY WinBounds, Consts
<1>2. CASE x + 1 < WindowSize * WindowOf(x) + WindowSize
  <2>1. WindowOf(x + 1) = WindowOf(x)
    BY <1>1, <1>2, WinUnique
  <2>. QED BY <2>1, <1>1
<1>3. CASE x + 1 = WindowSize * WindowOf(x) + WindowSize
  <2>1. WindowSize * (WindowOf(x) + 1) = WindowSize * WindowOf(x) + WindowSize
    BY <1>1
  <2>2. WindowOf(x + 1) = WindowOf(x) + 1
    BY <2>1, <1>1, <1>3, WinUnique
  <2>3. x + 1 = WindowSize * WindowOf(x + 1) + ((x + 1) % WindowSize)
    BY WinBounds
  <2>4. (x + 1) % WindowSize \in Int /\ WindowSize * WindowOf(x) \in Int
    BY <1>1
  <2>5. \A p, m \in Int : x + 1 = p + WindowSize + m /\ x + 1 = p + WindowSize => m = 0
    BY <1>1
  <2>6. x + 1 = WindowSize * WindowOf(x) + WindowSize + ((x + 1) % WindowSize)
    BY <2>1, <2>2, <2>3, Zenon
  <2>7. (x + 1) % WindowSize = 0
    BY <2>4, <2>5, <2>6, <1>3, Zenon
  <2>8. WindowOf(x + 1) \in {WindowOf(x), WindowOf(x) + 1}
    BY <2>2, Zenon
  <2>. QED BY <2>7, <2>8, Zenon
<1>. QED BY <1>1, <1>2, <1>3

\* Windows that are less than a turn apart hold positions that are.
LEMMA WinNear ==
    ASSUME NEW x \in Nat, NEW y \in Nat, WindowOf(y) - WindowOf(x) < Windows
    PROVE  y - x < Numbers
<1>1. /\ WindowSize \in Nat /\ WindowSize > 0 /\ WindowOf(x) \in Nat /\ WindowOf(y) \in Nat
      /\ WindowSize * WindowOf(x) <= x /\ y < WindowSize * WindowOf(y) + WindowSize
      /\ Windows \in Nat /\ Numbers = Windows * WindowSize
  BY WinBounds, Consts
<1>2. \A s, d \in Nat : s * d >= 0
  OBVIOUS
<1>3. WindowSize * (WindowOf(x) + Windows - WindowOf(y) - 1) >= 0
  BY <1>1, <1>2
<1>4. WindowSize * (WindowOf(x) + Windows - WindowOf(y) - 1)
        = WindowSize * WindowOf(x) + Windows * WindowSize - WindowSize * WindowOf(y) - WindowSize
  BY <1>1
<1>. QED BY <1>1, <1>3, <1>4

\* Less than a turn ahead of N * a + r is the same turn or the next one.
LEMMA OneTurn ==
    ASSUME NEW a \in Nat, NEW b \in Nat, NEW r \in 0..Numbers - 1, NEW s \in 0..Numbers - 1,
           Numbers * a + r <= Numbers * b + s, Numbers * b + s < Numbers * a + r + Numbers
    PROVE  (b = a /\ r <= s) \/ (b = a + 1 /\ s < r)
<1>1. Numbers \in Nat \ {0}
  BY Consts
<1>2. \A n, d \in Nat : n * d >= 0
  OBVIOUS
<1>3. ~(b < a)
  <2>1. SUFFICES ASSUME b < a PROVE FALSE
    OBVIOUS
  <2>2. Numbers * (a - b - 1) >= 0
    BY <1>1, <1>2, <2>1
  <2>3. Numbers * (a - b - 1) = Numbers * a - Numbers * b - Numbers
    BY <1>1
  <2>. QED BY <1>1, <2>2, <2>3
<1>4. ~(b > a + 1)
  <2>1. SUFFICES ASSUME b > a + 1 PROVE FALSE
    OBVIOUS
  <2>2. Numbers * (b - a - 2) >= 0
    BY <1>1, <1>2, <2>1
  <2>3. Numbers * (b - a - 2) = Numbers * b - Numbers * a - 2 * Numbers
    BY <1>1
  <2>. QED BY <1>1, <2>2, <2>3
<1>5. CASE b = a
  BY <1>1, <1>5
<1>6. CASE b = a + 1
  <2>1. Numbers * b = Numbers * a + Numbers
    BY <1>1, <1>6
  <2>. QED BY <1>1, <1>6, <2>1
<1>. QED BY <1>3, <1>4, <1>5, <1>6

\* A position is its number and the turns before it, and so is its window.
LEMMA Turns ==
    ASSUME NEW x \in Nat
    PROVE  /\ NumOf(x) \in 0..Numbers - 1
           /\ WindowOf(NumOf(x)) \in 0..Windows - 1
           /\ \E a \in Nat : /\ x = Numbers * a + NumOf(x)
                             /\ WindowOf(x) = Windows * a + WindowOf(NumOf(x))
<1>1. /\ Numbers \in Nat \ {0} /\ Windows \in Nat \ {0} /\ WindowSize \in Nat \ {0}
      /\ Numbers = Windows * WindowSize
  BY Consts
<1>2. /\ NumOf(x) \in 0..Numbers - 1
      /\ x \div Numbers \in Nat
      /\ x = Numbers * (x \div Numbers) + NumOf(x)
  <2>1. Numbers \in Nat \ {0}
    BY <1>1
  <2>. QED BY <2>1 DEF NumOf
<1>3. PICK a \in Nat : x = Numbers * a + NumOf(x)
  BY <1>2, Zenon
<1>4. PICK n \in 0..Numbers - 1 : n = NumOf(x)
  BY <1>2
<1>5. PICK w \in Nat : /\ w = WindowOf(n)
                       /\ WindowSize * w <= n /\ n < WindowSize * w + WindowSize
  BY <1>4, WinBounds
<1>6. w \in 0..Windows - 1
  <2>1. SUFFICES ASSUME w >= Windows PROVE FALSE
    BY <1>1
  <2>2. \A s, d \in Nat : s * d >= 0
    OBVIOUS
  <2>3. WindowSize * (w - Windows) >= 0
    BY <1>1, <2>1, <2>2
  <2>4. WindowSize * (w - Windows) = WindowSize * w - Windows * WindowSize
    BY <1>1
  <2>. QED BY <1>1, <1>5, <2>3, <2>4
<1>7. WindowOf(x) = Windows * a + w
  <2>1. WindowSize * (Windows * a + w) = Numbers * a + WindowSize * w
    BY <1>1
  <2>2. Windows * a + w \in Int
    BY <1>1
  <2>3. \A p, q \in Int : /\ x = p + n /\ q <= n /\ n < q + WindowSize
                          => p + q <= x /\ x < p + q + WindowSize
    BY <1>1
  <2>4. Numbers * a \in Int /\ WindowSize * w \in Int
    BY <1>1
  <2>5. /\ WindowSize * (Windows * a + w) <= x
        /\ x < WindowSize * (Windows * a + w) + WindowSize
    BY <1>3, <1>4, <1>5, <2>1, <2>3, <2>4, Zenon
  <2>. QED BY <2>2, <2>5, WinUnique, Zenon
<1>. QED BY <1>2, <1>3, <1>4, <1>5, <1>6, <1>7, Zenon

\* A window's place among the windows in use.
LEMMA WindowTurns ==
    ASSUME NEW x \in Nat
    PROVE  WindowOf(NumOf(x)) = WindowOf(x) % Windows
<1>1. Windows \in Nat \ {0}
  BY Consts
<1>2. \A a \in Nat, w \in 0..Windows - 1 : (Windows * a + w) % Windows = w
  <2>1. TAKE a \in Nat, w \in 0..Windows - 1
  <2>2. PICK y \in Nat : y = Windows * a + w
    BY <1>1
  <2>3. PICK b \in Nat, v \in 0..Windows - 1 : v = y % Windows /\ y = Windows * b + v
    BY <1>1
  <2>4. \A n, d \in Nat : n * d >= 0
    OBVIOUS
  <2>5. ~(a < b)
    <3>1. SUFFICES ASSUME a < b PROVE FALSE
      OBVIOUS
    <3>2. Windows * (b - a - 1) >= 0
      BY <1>1, <2>4, <3>1
    <3>3. Windows * (b - a - 1) = Windows * b - Windows * a - Windows
      BY <1>1
    <3>. QED BY <1>1, <2>2, <2>3, <3>2, <3>3
  <2>6. ~(b < a)
    <3>1. SUFFICES ASSUME b < a PROVE FALSE
      OBVIOUS
    <3>2. Windows * (a - b - 1) >= 0
      BY <1>1, <2>4, <3>1
    <3>3. Windows * (a - b - 1) = Windows * a - Windows * b - Windows
      BY <1>1
    <3>. QED BY <1>1, <2>2, <2>3, <3>2, <3>3
  <2>7. a = b
    BY <2>5, <2>6
  <2>. QED BY <1>1, <2>2, <2>3, <2>7
<1>. QED BY <1>2, Turns, Zenon

\* Positions less than a turn apart are told apart by their numbers.
LEMMA NumsDiffer ==
    ASSUME NEW x \in Nat, NEW y \in Nat, x - y < Numbers, y - x < Numbers,
           NumOf(x) = NumOf(y)
    PROVE  x = y
<1>1. Numbers \in Nat \ {0}
  BY Consts
<1>2. PICK n \in 0..Numbers - 1 : n = NumOf(x)
  BY Turns
<1>3. PICK a \in Nat : x = Numbers * a + n
  BY <1>2, Turns, Zenon
<1>4. PICK b \in Nat : y = Numbers * b + n
  BY <1>2, Turns, Zenon
<1>5. CASE x <= y
  <2>1. Numbers * a + n <= Numbers * b + n /\ Numbers * b + n < Numbers * a + n + Numbers
    BY <1>1, <1>3, <1>4, <1>5
  <2>2. (b = a /\ n <= n) \/ (b = a + 1 /\ n < n)
    BY <2>1, OneTurn, Zenon
  <2>3. ~(n < n)
    OBVIOUS
  <2>. QED BY <1>3, <1>4, <2>2, <2>3, Zenon
<1>6. CASE y <= x
  <2>1. Numbers * b + n <= Numbers * a + n /\ Numbers * a + n < Numbers * b + n + Numbers
    BY <1>1, <1>3, <1>4, <1>6
  <2>2. (a = b /\ n <= n) \/ (a = b + 1 /\ n < n)
    BY <2>1, OneTurn, Zenon
  <2>3. ~(n < n)
    OBVIOUS
  <2>. QED BY <1>3, <1>4, <2>2, <2>3, Zenon
<1>. QED BY <1>5, <1>6

\* Ahead counts windows forward from the last position that was delivered: a
\* position behind it seems to be ahead by what is missing to a whole turn.
LEMMA AheadOf ==
    ASSUME NEW r, NEW p \in Nat, NEW x \in Nat, r.rseq = NumOf(p),
           WindowOf(x) - WindowOf(p) < Windows, WindowOf(p) - WindowOf(x) < Windows
    PROVE  Ahead(r, NumOf(x)) =
               WindowOf(x) - WindowOf(p) + (IF x < p THEN Windows ELSE 0)
<1>1. Numbers \in Nat \ {0} /\ Windows \in Nat
  BY Consts
<1>2. x - p < Numbers /\ p - x < Numbers
  BY WinNear
<1>3. PICK n \in 0..Numbers - 1, v \in 0..Windows - 1 : n = NumOf(x) /\ v = WindowOf(n)
  BY Turns, Zenon
<1>4. PICK m \in 0..Numbers - 1, w \in 0..Windows - 1 : m = NumOf(p) /\ w = WindowOf(m)
  BY Turns, Zenon
<1>5. PICK b \in Nat : x = Numbers * b + n /\ WindowOf(x) = Windows * b + v
  BY <1>3, Turns, Zenon
<1>6. PICK a \in Nat : p = Numbers * a + m /\ WindowOf(p) = Windows * a + w
  BY <1>4, Turns, Zenon
<1>7. Ahead(r, NumOf(x)) = v + (IF n < m THEN Windows ELSE 0) - w
  BY <1>3, <1>4, Zenon DEF Ahead
<1>8. CASE p <= x
  <2>1. Numbers * a + m <= Numbers * b + n /\ Numbers * b + n < Numbers * a + m + Numbers
    BY <1>1, <1>2, <1>5, <1>6, <1>8
  <2>2. (b = a /\ m <= n) \/ (b = a + 1 /\ n < m)
    BY <2>1, OneTurn, Zenon
  <2>3. b = a + 1 => Windows * b = Windows * a + Windows
    BY <1>1
  <2>4. PICK c \in Int, d \in Int : c = Windows * a /\ d = Windows * b
    BY <1>1
  <2>5. /\ WindowOf(x) = d + v /\ WindowOf(p) = c + w
        /\ b = a => c = d
        /\ b = a + 1 => d = c + Windows
    BY <1>5, <1>6, <2>3, <2>4, Zenon
  <2>. QED BY <1>1, <1>7, <1>8, <2>2, <2>5
<1>9. CASE x < p
  <2>1. Numbers * b + n <= Numbers * a + m /\ Numbers * a + m < Numbers * b + n + Numbers
    BY <1>1, <1>2, <1>5, <1>6, <1>9
  <2>2. (a = b /\ n <= m) \/ (a = b + 1 /\ m < n)
    BY <2>1, OneTurn, Zenon
  <2>3. a = b + 1 => Windows * a = Windows * b + Windows
    BY <1>1
  <2>4. PICK c \in Int, d \in Int : c = Windows * a /\ d = Windows * b
    BY <1>1
  <2>5. /\ WindowOf(x) = d + v /\ WindowOf(p) = c + w
        /\ a = b => c = d
        /\ a = b + 1 => c = d + Windows
    BY <1>5, <1>6, <2>3, <2>4, Zenon
  <2>6. n # m
    BY <1>1, <1>3, <1>4, <1>9, <1>2, NumsDiffer
  <2>. QED BY <1>1, <1>7, <1>9, <2>2, <2>5, <2>6
<1>. QED BY <1>8, <1>9

\* Within a turn from p on, the numbers from that of p to that of x are those
\* of the positions up to x.
LEMMA UpTo ==
    ASSUME NEW p \in Nat, NEW x \in Nat, NEW y \in Nat,
           p <= x, x < p + Numbers, p <= y, y < p + Numbers
    PROVE  (IF NumOf(x) >= NumOf(p)
            THEN NumOf(y) >= NumOf(p) /\ NumOf(y) <= NumOf(x)
            ELSE NumOf(y) >= NumOf(p) \/ NumOf(y) <= NumOf(x)) <=> y <= x
<1>1. Numbers \in Nat \ {0}
  BY Consts
<1>2. PICK m \in 0..Numbers - 1, a \in Nat : m = NumOf(p) /\ p = Numbers * a + m
  BY Turns, Zenon
<1>3. PICK n \in 0..Numbers - 1, b \in Nat : n = NumOf(x) /\ x = Numbers * b + n
  BY Turns, Zenon
<1>4. PICK k \in 0..Numbers - 1, c \in Nat : k = NumOf(y) /\ y = Numbers * c + k
  BY Turns, Zenon
<1>5. (b = a /\ m <= n) \/ (b = a + 1 /\ n < m)
  <2>1. Numbers * a + m <= Numbers * b + n /\ Numbers * b + n < Numbers * a + m + Numbers
    BY <1>2, <1>3, Zenon
  <2>. QED BY <2>1, OneTurn, Zenon
<1>6. (c = a /\ m <= k) \/ (c = a + 1 /\ k < m)
  <2>1. Numbers * a + m <= Numbers * c + k /\ Numbers * c + k < Numbers * a + m + Numbers
    BY <1>2, <1>4, Zenon
  <2>. QED BY <2>1, OneTurn, Zenon
<1>7. PICK d \in Int : d = Numbers * a
  BY <1>1
<1>8. Numbers * (a + 1) = Numbers * a + Numbers
  BY <1>1
<1>9. x = (IF m <= n THEN d ELSE d + Numbers) + n
  <2>1. CASE b = a /\ m <= n
    BY <1>3, <1>7, <2>1
  <2>2. CASE b = a + 1 /\ n < m
    <3>1. x = d + Numbers + n
      BY <1>3, <1>7, <1>8, <2>2, Zenon
    <3>. QED BY <3>1, <2>2
  <2>. QED BY <1>5, <2>1, <2>2, Zenon
<1>10. y = (IF m <= k THEN d ELSE d + Numbers) + k
  <2>1. CASE c = a /\ m <= k
    BY <1>4, <1>7, <2>1
  <2>2. CASE c = a + 1 /\ k < m
    <3>1. y = d + Numbers + k
      BY <1>4, <1>7, <1>8, <2>2, Zenon
    <3>. QED BY <3>1, <2>2
  <2>. QED BY <1>6, <2>1, <2>2, Zenon
<1>11. (IF n >= m THEN k >= m /\ k <= n ELSE k >= m \/ k <= n) <=> y <= x
  BY <1>1, <1>9, <1>10
<1>. QED BY <1>2, <1>3, <1>4, <1>11, Zenon

\* A number is followed by that of the next position.
LEMMA NextNum ==
    ASSUME NEW x \in Nat, NEW d \in Nat
    PROVE  (NumOf(x) + d) % Numbers = NumOf(x + d)
<1>1. Numbers \in Nat \ {0}
  BY Consts
<1>2. PICK n \in 0..Numbers - 1, a \in Nat : n = NumOf(x) /\ x = Numbers * a + n
  BY Turns, Zenon
<1>. n + d \in Nat /\ x + d \in Nat
  BY <1>1
<1>3. PICK m \in 0..Numbers - 1, b \in Nat : m = NumOf(n + d) /\ n + d = Numbers * b + m
  BY Turns, Zenon
<1>4. PICK k \in 0..Numbers - 1, c \in Nat : k = NumOf(x + d) /\ x + d = Numbers * c + k
  BY Turns, Zenon
<1>5. Numbers * (a + b) + m = Numbers * c + k
  <2>1. Numbers * (a + b) = Numbers * a + Numbers * b
    BY <1>1
  <2>2. PICK u \in Int, v \in Int : u = Numbers * a /\ v = Numbers * b
    BY <1>1
  <2>. QED BY <1>1, <1>2, <1>3, <1>4, <2>1, <2>2
<1>6. a + b \in Nat /\ k < k + Numbers
  BY <1>1
<1>7. (c = a + b /\ m <= k) \/ (c = a + b + 1 /\ k < m)
  <2>1. /\ Numbers * (a + b) + m <= Numbers * c + k
        /\ Numbers * c + k < Numbers * (a + b) + m + Numbers
    <3>1. PICK u \in Int, v \in Int : u = Numbers * (a + b) /\ v = Numbers * c
      BY <1>1
    <3>. QED BY <1>1, <1>5, <3>1
  <2>. QED BY <2>1, <1>6, OneTurn, Zenon
<1>8. m = k
  <2>1. CASE c = a + b
    <3>1. PICK u \in Int : u = Numbers * c
      BY <1>1
    <3>. QED BY <1>1, <1>5, <2>1, <3>1
  <2>2. CASE c = a + b + 1 /\ k < m
    <3>1. Numbers * c = Numbers * (a + b) + Numbers
      BY <1>1, <2>2
    <3>2. PICK u \in Int : u = Numbers * (a + b)
      BY <1>1
    <3>. QED BY <1>1, <1>5, <2>2, <3>1, <3>2
  <2>. QED BY <1>7, <2>1, <2>2, Zenon
<1>. QED BY <1>2, <1>3, <1>4, <1>8, Zenon DEF NumOf

\* A number and what it leaves when m is taken from it as often as possible.
LEMMA ModIs ==
    ASSUME NEW m \in Nat \ {0}, NEW y \in Int, NEW a \in Int, NEW w \in 0..m - 1, y = m * a + w
    PROVE  y % m = w
<1>1. PICK b \in Int, v \in 0..m - 1 : v = y % m /\ y = m * b + v
  <2>1. y % m \in 0..m - 1 /\ y \div m \in Int /\ y = m * (y \div m) + (y % m)
    OBVIOUS
  <2>. QED BY <2>1, Zenon
<1>2. \A n, d \in Nat : n * d >= 0
  OBVIOUS
<1>3. ~(a < b)
  <2>1. SUFFICES ASSUME a < b PROVE FALSE
    OBVIOUS
  <2>2. m * (b - a - 1) >= 0
    BY <1>2, <2>1
  <2>3. m * (b - a - 1) = m * b - m * a - m
    OBVIOUS
  <2>. QED BY <1>1, <2>2, <2>3
<1>4. ~(b < a)
  <2>1. SUFFICES ASSUME b < a PROVE FALSE
    OBVIOUS
  <2>2. m * (a - b - 1) >= 0
    BY <1>2, <2>1
  <2>3. m * (a - b - 1) = m * a - m * b - m
    OBVIOUS
  <2>. QED BY <1>1, <2>2, <2>3
<1>5. a = b
  BY <1>3, <1>4
<1>6. PICK p \in Int : p = m * a
  OBVIOUS
<1>7. p = m * b
  BY <1>5, <1>6, Zenon
<1>8. y = p + w /\ y = p + v
  BY <1>1, <1>6, <1>7, Zenon
<1>. QED BY <1>1, <1>8

LEMMA ModParts ==
    ASSUME NEW m \in Nat \ {0}, NEW x \in Nat
    PROVE  \E a \in Nat, r \in 0..m - 1 : x = m * a + r /\ r = x % m
<1>1. x % m \in 0..m - 1 /\ x \div m \in Nat /\ x = m * (x \div m) + (x % m)
  OBVIOUS
<1>. QED BY <1>1, Zenon

\* Whole turns do not count.
LEMMA ModAdd ==
    ASSUME NEW m \in Nat \ {0}, NEW x \in Nat, NEW d \in Nat
    PROVE  ((x % m) + d) % m = (x + d) % m /\ (x + m) % m = x % m
<1>1. PICK a \in Nat, r \in 0..m - 1 : x = m * a + r /\ r = x % m
  BY ModParts
<1>2. PICK b \in Nat, s \in 0..m - 1 : r + d = m * b + s /\ s = (r + d) % m
  <2>1. r + d \in Nat
    OBVIOUS
  <2>. QED BY <2>1, ModParts
<1>3. x + d = m * (a + b) + s
  <2>1. m * (a + b) = m * a + m * b
    OBVIOUS
  <2>2. PICK p \in Int, q \in Int : p = m * a /\ q = m * b
    OBVIOUS
  <2>3. x = p + r /\ r + d = q + s
    BY <1>1, <1>2, <2>2
  <2>4. m * (a + b) = p + q
    BY <2>1, <2>2
  <2>5. x + d = (p + q) + s
    BY <2>3
  <2>. QED BY <2>4, <2>5
<1>4. x + m = m * (a + 1) + r
  <2>1. m * (a + 1) = m * a + m
    OBVIOUS
  <2>2. PICK p \in Int : p = m * a
    OBVIOUS
  <2>. QED BY <1>1, <2>1, <2>2
<1>5. /\ x + d \in Int /\ x + m \in Int /\ a + b \in Int /\ a + 1 \in Int
  OBVIOUS
<1>6. (x + d) % m = s
  BY <1>3, <1>5, ModIs, Zenon
<1>7. (x + m) % m = r
  BY <1>4, <1>5, ModIs, Zenon
<1>8. (x % m) + d = r + d
  BY <1>1
<1>. QED BY <1>1, <1>2, <1>6, <1>7, <1>8, Zenon

\* Less than a turn ahead is as far ahead in the numbers.
LEMMA NumDistance ==
    ASSUME NEW x \in Nat, NEW y \in Nat, x <= y, y - x < Numbers
    PROVE  (NumOf(y) - NumOf(x)) % Numbers = y - x
<1>1. Numbers \in Nat \ {0}
  BY Consts
<1>2. PICK n \in 0..Numbers - 1 : n = NumOf(x)
  BY Turns
<1>3. PICK v \in 0..Numbers - 1 : v = NumOf(y)
  BY Turns
<1>4. PICK a \in Nat : x = Numbers * a + n
  BY <1>2, Turns, Zenon
<1>5. PICK b \in Nat : y = Numbers * b + v
  BY <1>3, Turns, Zenon
<1>6. Numbers * a + n <= Numbers * b + v /\ Numbers * b + v < Numbers * a + n + Numbers
  BY <1>1, <1>4, <1>5
<1>7. (b = a /\ n <= v) \/ (b = a + 1 /\ v < n)
  BY <1>6, OneTurn, Zenon
<1>8. \E c \in Int : v - n = Numbers * c + (y - x)
  <2>1. CASE b = a
    <3>1. PICK p \in Int : p = Numbers * a
      BY <1>1
    <3>2. p = Numbers * b
      BY <2>1, <3>1, Zenon
    <3>3. x = p + n /\ y = p + v
      BY <1>4, <1>5, <3>1, <3>2, Zenon
    <3>4. v - n = Numbers * 0 + (y - x)
      BY <1>1, <3>3
    <3>. QED BY <3>4
  <2>2. CASE b = a + 1
    <3>1. PICK p \in Int : p = Numbers * a
      BY <1>1
    <3>2. Numbers * b = p + Numbers
      BY <1>1, <2>2, <3>1
    <3>3. x = p + n /\ y = p + Numbers + v
      BY <1>4, <1>5, <3>1, <3>2, Zenon
    <3>4. v - n = Numbers * (-1) + (y - x)
      BY <1>1, <3>3
    <3>. QED BY <3>4
  <2>. QED BY <1>7, <2>1, <2>2
<1>9. v - n \in Int /\ y - x \in 0..Numbers - 1
  BY <1>1
<1>10. (v - n) % Numbers = y - x
  BY <1>1, <1>8, <1>9, ModIs, Zenon
<1>. QED BY <1>2, <1>3, <1>10

\* The first number of a window is that of its first position.
LEMMA FirstOfWindow ==
    ASSUME NEW x \in Nat, x % WindowSize = 0
    PROVE  NumOf(x) % WindowSize = 0 /\ x = WindowSize * WindowOf(x)
<1>1. /\ Numbers \in Nat \ {0} /\ Windows \in Nat \ {0} /\ WindowSize \in Nat \ {0}
      /\ Numbers = Windows * WindowSize
  BY Consts
<1>2. PICK n \in 0..Numbers - 1 : n = NumOf(x)
  BY Turns
<1>3. PICK v \in Nat : v = WindowOf(n) /\ n = WindowSize * v + (n % WindowSize)
  BY <1>2, WinBounds
<1>4. PICK a \in Nat : x = Numbers * a + n /\ WindowOf(x) = Windows * a + v
  BY <1>2, <1>3, Turns, Zenon
<1>5. x = WindowSize * WindowOf(x) + 0
  BY WinBounds, Zenon
<1>6. WindowOf(x) \in Nat
  BY WinBounds
<1>7. x = WindowSize * WindowOf(x)
  BY <1>1, <1>5, <1>6
<1>8. WindowSize * (Windows * a + v) = Numbers * a + WindowSize * v
  BY <1>1
<1>9. PICK p \in Int, q \in Int : p = Numbers * a /\ q = WindowSize * v
  BY <1>1
<1>10. x = p + n /\ x = p + q
  BY <1>4, <1>7, <1>8, <1>9, Zenon
<1>11. n = q
  BY <1>10
<1>12. n = WindowSize * v + 0
  BY <1>9, <1>11
<1>13. n % WindowSize = 0
  BY <1>1, <1>12, ModIs
<1>. QED BY <1>2, <1>7, <1>13

\* What WindowWrap calls the window before the window w, and the last of the
\* next FreeWindows: that FreeWindows + 1 windows back, a turn before.
LEMMA WindowsAround ==
    ASSUME NEW w \in Nat, w > 0
    PROVE  /\ ((w % Windows) + Windows - 1) % Windows = (w - 1) % Windows
           /\ w > FreeWindows =>
                  ((w % Windows) + (FreeWindows - 1)) % Windows = (w - 1 - FreeWindows) % Windows
<1>1. Windows \in Nat \ {0} /\ FreeWindows \in Nat /\ Windows = 2 * FreeWindows /\ FreeWindows >= 3
  BY Consts
<1>2. ((w % Windows) + (Windows - 1)) % Windows = (w + (Windows - 1)) % Windows
  <2>1. Windows - 1 \in Nat
    BY <1>1
  <2>. QED BY <1>1, <2>1, ModAdd
<1>3. ((w - 1) + Windows) % Windows = (w - 1) % Windows
  <2>1. w - 1 \in Nat
    OBVIOUS
  <2>. QED BY <1>1, <2>1, ModAdd
<1>4. w % Windows \in Nat
  BY <1>1
<1>5. (w % Windows) + Windows - 1 = (w % Windows) + (Windows - 1) /\ (w - 1) + Windows = w + (Windows - 1)
  BY <1>1, <1>4
<1>6. ((w % Windows) + (FreeWindows - 1)) % Windows = (w + (FreeWindows - 1)) % Windows
  <2>1. FreeWindows - 1 \in Nat
    BY <1>1
  <2>. QED BY <1>1, <2>1, ModAdd
<1>7. w > FreeWindows => ((w - 1 - FreeWindows) + Windows) % Windows = (w - 1 - FreeWindows) % Windows
  <2>1. w > FreeWindows => w - 1 - FreeWindows \in Nat
    BY <1>1
  <2>. QED BY <1>1, <2>1, ModAdd
<1>8. (w - 1 - FreeWindows) + Windows = w + (FreeWindows - 1)
  BY <1>1
<1>9. ((w % Windows) + Windows - 1) % Windows = (w - 1) % Windows
  BY <1>2, <1>3, <1>5, Zenon
<1>10. w > FreeWindows =>
          ((w % Windows) + (FreeWindows - 1)) % Windows = (w - 1 - FreeWindows) % Windows
  BY <1>6, <1>7, <1>8, Zenon
<1>. QED BY <1>9, <1>10

\* A set of numbers with 0 and with the successor of each member is Nat.
LEMMA NatSet ==
    ASSUME NEW S \in SUBSET Nat, 0 \in S, \A n \in S : n + 1 \in S
    PROVE  S = Nat
<1> DEFINE Below == {0..n : n \in Nat \ S}
<1>1. SUFFICES ASSUME Below # {} PROVE FALSE
  OBVIOUS
<1>2. Below \subseteq FiniteSubsetsOf(Nat)
  <2>1. \A n \in Nat : IsFiniteSet(0..n) /\ 0..n \in SUBSET Nat
    BY FS_Interval
  <2> QED
    BY <2>1 DEF FiniteSubsetsOf
<1>3. IsWellFoundedOn(StrictSubsetOrdering(Nat), FiniteSubsetsOf(Nat))
  BY FS_StrictSubsetOrderingWellFounded, Zenon
<1>4. PICK b \in Below : \A c \in Below : <<c, b>> \notin StrictSubsetOrdering(Nat)
  BY <1>1, <1>2, <1>3, WFMin, Zenon
<1>5. PICK n \in Nat \ S : b = 0..n
  OBVIOUS
<1>6. n # 0 /\ n - 1 \in Nat /\ n - 1 \notin S
  OBVIOUS
<1>7. 0 .. n - 1 \in Below
  BY <1>6
<1>8. <<0 .. n - 1, 0..n>> \in StrictSubsetOrdering(Nat)
  <2>1. n \in 0..n /\ n \notin 0 .. n - 1 /\ 0 .. n - 1 \subseteq 0..n
    OBVIOUS
  <2>2. 0..n \in SUBSET Nat /\ 0 .. n - 1 \in SUBSET Nat
    OBVIOUS
  <2> QED
    BY <2>1, <2>2, Zenon DEF StrictSubsetOrdering
<1> QED
  BY <1>4, <1>5, <1>7, <1>8

-----------------------------------------------------------------------------
(***************************************************************************)
(* The greatest and the least of sets.                                     *)
(***************************************************************************)
LEMMA MaxIn ==
    ASSUME NEW n \in Nat, NEW S \in SUBSET (0..n), S # {}
    PROVE  Max(S) \in S /\ \A m \in S : m <= Max(S)
<1> DEFINE Bounded(i) == \A T \in SUBSET (0..i) : T # {} => \E x \in T : \A y \in T : x >= y
           N == {i \in Nat : Bounded(i)}
<1>1. 0 \in N
  <2>1. \A y \in 0..0 : y = 0 /\ y >= y
    OBVIOUS
  <2>2. \A T \in SUBSET (0..0) : \A x, y \in T : x >= y
    BY <2>1
  <2>3. Bounded(0)
    BY <2>2
  <2> QED
    BY <2>3
<1>2. ASSUME NEW i \in N
      PROVE  i + 1 \in N
  <2> SUFFICES ASSUME NEW T \in SUBSET (0 .. i + 1), T # {}
               PROVE  \E x \in T : \A y \in T : x >= y
    BY <1>2
  <2>1. CASE i + 1 \in T
    <3>1. \A y \in T : i + 1 >= y
      BY <1>2
    <3> QED
      BY <2>1, <3>1
  <2>2. CASE i + 1 \notin T
    <3>1. T \in SUBSET (0..i)
      BY <1>2, <2>2
    <3> QED
      BY <1>2, <3>1
  <2> QED
    BY <2>1, <2>2
<1>3. N = Nat
  <2> HIDE DEF N
  <2>1. N \in SUBSET Nat
    BY DEF N
  <2> QED
    BY <1>1, <1>2, <2>1, NatSet
<1>4. \E x \in S : \A y \in S : x >= y
  BY <1>3
<1>5. Max(S) \in S /\ \A y \in S : Max(S) >= y
  BY <1>4 DEF Max
<1> QED
  BY <1>5

LEMMA MinIn ==
    ASSUME NEW S \in SUBSET Nat, S # {}
    PROVE  Min(S) \in S /\ \A m \in S : Min(S) <= m
<1> DEFINE N == {i \in Nat : \A j \in 0..i : j \in S => \E x \in S : \A y \in S : x <= y}
<1>1. 0 \in N
  BY SMT
<1>2. ASSUME NEW i \in N
      PROVE  i + 1 \in N
  <2> SUFFICES ASSUME NEW j \in 0 .. i + 1, j \in S
               PROVE  \E x \in S : \A y \in S : x <= y
    BY <1>2
  <2>1. CASE \E k \in 0..i : k \in S
    BY <1>2, <2>1
  <2>2. CASE \A k \in 0..i : k \notin S
    <3>1. j = i + 1 /\ \A y \in S : j <= y
      BY <1>2, <2>2
    <3> QED
      BY <3>1
  <2> QED
    BY <2>1, <2>2
<1>3. N = Nat
  <2> HIDE DEF N
  <2>1. N \in SUBSET Nat
    BY DEF N
  <2> QED
    BY <1>1, <1>2, <2>1, NatSet
<1>4. \E x \in S : \A y \in S : x <= y
  <2>1. PICK j \in S : TRUE
    OBVIOUS
  <2>2. j \in Nat /\ j \in 0..j
    BY <2>1
  <2>3. j \in N
    <3> HIDE DEF N
    <3> QED
      BY <1>3, <2>2
  <2> QED
    BY <2>1, <2>2, <2>3, Zenon
<1> QED
  BY <1>4 DEF Min

-----------------------------------------------------------------------------
(***************************************************************************)
(* Sequences.                                                              *)
(***************************************************************************)
LEMMA SeqFacts ==
    ASSUME NEW S, NEW s \in Seq(S)
    PROVE  /\ Len(s) \in Nat /\ DOMAIN s = 1..Len(s) /\ \A i \in 1..Len(s) : s[i] \in S
           /\ s = << >> <=> Len(s) = 0
<1>1. Len(s) \in Nat /\ DOMAIN s = 1..Len(s) /\ \A i \in 1..Len(s) : s[i] \in S
  OBVIOUS
<1>2. s = << >> <=> Len(s) = 0
  OBVIOUS
<1> QED
  BY <1>1, <1>2

\* The first n are taken, and the rest is left.
LEMMA Split ==
    ASSUME NEW S, NEW s \in Seq(S), NEW n \in 0..Len(s)
    PROVE  /\ SubSeq(s, 1, n) \in Seq(S) /\ SubSeq(s, n + 1, Len(s)) \in Seq(S)
           /\ Len(SubSeq(s, 1, n)) = n /\ Len(SubSeq(s, n + 1, Len(s))) = Len(s) - n
           /\ \A i \in 1..n : SubSeq(s, 1, n)[i] = s[i]
           /\ \A i \in 1 .. Len(s) - n : SubSeq(s, n + 1, Len(s))[i] = s[i + n]
OBVIOUS

\* u is s and then t, all of them sequences of members of S.
IsJoin(S, s, t, u) ==
    /\ u \in Seq(S) /\ Len(u) = Len(s) + Len(t)
    /\ \A i \in 1..Len(s) : u[i] = s[i]
    /\ \A i \in 1..Len(t) : u[Len(s) + i] = t[i]

LEMMA Joined ==
    ASSUME NEW S, NEW s \in Seq(S), NEW t \in Seq(S)
    PROVE  IsJoin(S, s, t, s \o t)
BY DEF IsJoin

\* u is s without its n-th element; u is s with e in its n-th place.
IsRemoved(S, s, n, u) ==
    /\ u \in Seq(S) /\ Len(u) = Len(s) - 1
    /\ \A i \in 1 .. n - 1 : u[i] = s[i]
    /\ \A i \in n .. Len(s) - 1 : u[i] = s[i + 1]
IsInserted(S, s, n, e, u) ==
    /\ u \in Seq(S) /\ Len(u) = Len(s) + 1
    /\ \A i \in 1 .. n - 1 : u[i] = s[i]
    /\ u[n] = e
    /\ \A i \in n + 1 .. Len(s) + 1 : u[i] = s[i - 1]

LEMMA RemovedAt ==
    ASSUME NEW S, NEW s \in Seq(S), NEW n \in 1..Len(s)
    PROVE  IsRemoved(S, s, n, RemoveAt(s, n))
<1> DEFINE a == SubSeq(s, 1, n - 1)
           b == SubSeq(s, n + 1, Len(s))
           u == a \o b
<1>1. /\ a \in Seq(S) /\ Len(a) = n - 1
      /\ \A i \in 1 .. n - 1 : a[i] = s[i]
  OBVIOUS
<1>2. /\ b \in Seq(S) /\ Len(b) = Len(s) - n
      /\ \A i \in 1 .. Len(s) - n : b[i] = s[i + n]
  OBVIOUS
<1>3. RemoveAt(s, n) = u
  BY DEF RemoveAt
<1> HIDE DEF a, b
<1>4. IsJoin(S, a, b, u)
  BY <1>1, <1>2, Joined, Zenon
<1> HIDE DEF u
<1>5. \A i \in n .. Len(s) - 1 : i - (n - 1) \in 1..Len(b) /\ i = Len(a) + (i - (n - 1))
  BY <1>1, <1>2
<1>6. \A i \in n .. Len(s) - 1 : u[i] = b[i - (n - 1)]
  BY <1>4, <1>5 DEF IsJoin
<1>7. \A i \in n .. Len(s) - 1 : b[i - (n - 1)] = s[i + 1]
  <2>1. TAKE i \in n .. Len(s) - 1
  <2>2. i - (n - 1) \in 1 .. Len(s) - n /\ (i - (n - 1)) + n = i + 1
    BY <1>1, <1>2
  <2>. QED BY <1>2, <2>2, Zenon
<1> QED
  BY <1>1, <1>2, <1>3, <1>4, <1>6, <1>7 DEF IsJoin, IsRemoved

LEMMA InsertedAt ==
    ASSUME NEW S, NEW s \in Seq(S), NEW n \in 1 .. Len(s) + 1, NEW e \in S
    PROVE  IsInserted(S, s, n, e, InsertAt(s, n, e))
<1> DEFINE a == SubSeq(s, 1, n - 1)
           t == <<e>>
           b == SubSeq(s, n, Len(s))
           m == a \o t
           u == m \o b
<1>1. /\ a \in Seq(S) /\ Len(a) = n - 1
      /\ \A i \in 1 .. n - 1 : a[i] = s[i]
  OBVIOUS
<1>2. /\ b \in Seq(S) /\ Len(b) = Len(s) - n + 1
      /\ \A i \in 1 .. Len(s) - n + 1 : b[i] = s[i + n - 1]
  OBVIOUS
<1>3. InsertAt(s, n, e) = u
  BY DEF InsertAt
<1>4. t \in Seq(S) /\ Len(t) = 1 /\ t[1] = e
  OBVIOUS
<1> HIDE DEF a, t, b
<1>5. IsJoin(S, a, t, m)
  BY <1>1, <1>4, Joined, Zenon
<1> HIDE DEF m
<1>6. m \in Seq(S) /\ Len(m) = n
      /\ (\A i \in 1 .. n - 1 : m[i] = s[i]) /\ m[n] = e
  <2>1. 1 \in 1..1 /\ Len(a) + 1 = n
    BY <1>1
  <2> QED
    BY <1>1, <1>4, <1>5, <2>1 DEF IsJoin
<1>7. IsJoin(S, m, b, u)
  BY <1>2, <1>6, Joined, Zenon
<1> HIDE DEF u
<1>8. \A i \in n + 1 .. Len(s) + 1 : i - n \in 1..Len(b) /\ i = Len(m) + (i - n)
  BY <1>2, <1>6
<1>9. \A i \in n + 1 .. Len(s) + 1 : u[i] = b[i - n]
  BY <1>7, <1>8 DEF IsJoin
<1>10. \A i \in n + 1 .. Len(s) + 1 : b[i - n] = s[i - 1]
  BY <1>2, <1>6, <1>8
<1> QED
  BY <1>2, <1>3, <1>6, <1>7, <1>9, <1>10 DEF IsJoin, IsInserted

\* The longest beginning of 1..n that lies in G.
LEMMA Beginning ==
    ASSUME NEW n \in Nat, NEW G
    PROVE  LET m == Max({j \in 0..n : \A i \in 1..j : i \in G})
           IN  m \in 0..n /\ (\A i \in 1..m : i \in G) /\ (m < n => m + 1 \notin G)
<1> DEFINE S == {j \in 0..n : \A i \in 1..j : i \in G}
           m == Max(S)
<1>1. 0 \in S /\ S \in SUBSET (0..n)
  OBVIOUS
<1>2. m \in S /\ \A j \in S : j <= m
  <2> HIDE DEF S
  <2> QED
    BY <1>1, MaxIn
<1> HIDE DEF m
<1>3. m \in 0..n /\ \A i \in 1..m : i \in G
  BY <1>2
<1>4. ASSUME m < n, m + 1 \in G
      PROVE  FALSE
  <2>1. \A i \in 1 .. m + 1 : i \in 1..m \/ i = m + 1
    BY <1>3
  <2>2. m + 1 \in S
    BY <1>3, <1>4, <2>1
  <2> QED
    BY <1>2, <1>3, <2>2
<1> QED
  BY <1>3, <1>4 DEF m

-----------------------------------------------------------------------------
(***************************************************************************)
(* How many elements of a sequence are in a set.                           *)
(***************************************************************************)
Places(s, Q) == {i \in DOMAIN s : s[i] \in Q}
Count(s, Q) == Cardinality(Places(s, Q))

LEMMA PlacesFinite ==
    ASSUME NEW S, NEW s \in Seq(S), NEW Q
    PROVE  IsFiniteSet(Places(s, Q)) /\ Count(s, Q) \in Nat
<1>1. Len(s) \in Nat /\ DOMAIN s = 1..Len(s)
  BY SeqFacts
<1>2. IsFiniteSet(1..Len(s))
  BY <1>1, FS_Interval
<1>3. Places(s, Q) \in SUBSET (1..Len(s))
  BY <1>1 DEF Places
<1>4. IsFiniteSet(Places(s, Q))
  BY <1>2, <1>3, FS_Subset
<1>. QED BY <1>4, FS_CardinalityType DEF Count

LEMMA CountJoin ==
    ASSUME NEW S, NEW s \in Seq(S), NEW t \in Seq(S), NEW u, IsJoin(S, s, t, u), NEW Q
    PROVE  Count(u, Q) = Count(s, Q) + Count(t, Q)
<1>1. /\ Len(s) \in Nat /\ Len(t) \in Nat /\ Len(u) = Len(s) + Len(t)
      /\ DOMAIN s = 1..Len(s) /\ DOMAIN t = 1..Len(t) /\ DOMAIN u = 1..Len(u)
      /\ \A i \in 1..Len(s) : u[i] = s[i]
      /\ \A i \in 1..Len(t) : u[Len(s) + i] = t[i]
  BY SeqFacts DEF IsJoin
<1> DEFINE n == Len(s)
           A == Places(s, Q)
           B == Places(t, Q)
           T == {i \in Places(u, Q) : i > n}
<1>2. A \cup T = Places(u, Q) /\ A \cap T = {}
  BY <1>1 DEF Places
<1>3. IsFiniteSet(A) /\ IsFiniteSet(B) /\ Cardinality(A) \in Nat /\ Cardinality(B) \in Nat
  BY PlacesFinite, Zenon DEF Count
<1>4. ExistsBijection(B, T)
  <2> DEFINE h == [i \in B |-> n + i]
  <2>1. \A i \in B : n + i \in T
    BY <1>1 DEF Places
  <2>2. \A i, j \in B : n + i = n + j => i = j
    BY <1>1 DEF Places
  <2>3. \A k \in T : k - n \in B /\ n + (k - n) = k
    BY <1>1 DEF Places
  <2>4. h \in [B -> T] /\ \A i \in B : h[i] = n + i
    BY <2>1
  <2> HIDE DEF h
  <2>5. \A i, j \in B : h[i] = h[j] => i = j
    BY <2>2, <2>4
  <2>6. \A k \in T : \E i \in B : h[i] = k
    BY <2>3, <2>4
  <2>7. h \in Injection(B, T)
    BY <2>4, <2>5, Zenon DEF Injection, IsInjective
  <2>8. h \in Surjection(B, T)
    BY <2>4, <2>6, Zenon DEF Surjection
  <2>. QED BY <2>7, <2>8, Zenon DEF ExistsBijection, Bijection
<1>5. IsFiniteSet(T) /\ Cardinality(T) = Cardinality(B)
  BY <1>3, <1>4, FS_Bijection, Zenon
<1> HIDE DEF A, B, T
<1>6. Cardinality(A \cup T) = Cardinality(A) + Cardinality(T)
  <2>1. Cardinality(A \cup T) = Cardinality(A) + Cardinality(T) - Cardinality(A \cap T)
    BY <1>3, <1>5, FS_Union, Zenon
  <2>2. Cardinality(A \cap T) = 0
    BY <1>2, FS_EmptySet, Zenon
  <2>. QED BY <1>3, <1>5, <2>1, <2>2
<1>. QED BY <1>2, <1>5, <1>6, Zenon DEF Count, A, B

LEMMA CountOne ==
    ASSUME NEW e, NEW Q
    PROVE  Count(<<e>>, Q) = IF e \in Q THEN 1 ELSE 0
<1>1. Places(<<e>>, Q) = IF e \in Q THEN {1} ELSE {}
  BY DEF Places
<1>. QED BY <1>1, FS_EmptySet, FS_Singleton, Zenon DEF Count

LEMMA CountEmpty ==
    ASSUME NEW Q PROVE Count(<< >>, Q) = 0
<1>1. Places(<< >>, Q) = {}
  BY DEF Places
<1>. QED BY <1>1, FS_EmptySet, Zenon DEF Count

LEMMA CountSame ==
    ASSUME NEW S, NEW T, NEW s \in Seq(S), NEW t \in Seq(T), NEW P, NEW Q, Len(s) = Len(t),
           \A i \in 1..Len(s) : s[i] \in P <=> t[i] \in Q
    PROVE  Count(s, P) = Count(t, Q)
<1>1. Places(s, P) = Places(t, Q)
  BY SeqFacts DEF Places
<1>. QED BY <1>1, Zenon DEF Count

LEMMA CountNone ==
    ASSUME NEW S, NEW s \in Seq(S), NEW Q
    PROVE  Count(s, Q) = 0 <=> \A i \in 1..Len(s) : s[i] \notin Q
<1>1. Places(s, Q) = {} <=> \A i \in 1..Len(s) : s[i] \notin Q
  BY SeqFacts DEF Places
<1>. QED BY <1>1, PlacesFinite, FS_EmptySet, Zenon DEF Count

LEMMA CountTail ==
    ASSUME NEW S, NEW s \in Seq(S), s # << >>, NEW Q
    PROVE  Count(s, Q) = (IF Head(s) \in Q THEN 1 ELSE 0) + Count(Tail(s), Q)
<1>1. /\ <<Head(s)>> \in Seq(S) /\ Tail(s) \in Seq(S)
      /\ Len(Tail(s)) = Len(s) - 1 /\ \A i \in 1..Len(s) - 1 : Tail(s)[i] = s[i + 1]
  OBVIOUS
<1>2. IsJoin(S, <<Head(s)>>, Tail(s), s)
  BY <1>1 DEF IsJoin
<1>3. Count(s, Q) = Count(<<Head(s)>>, Q) + Count(Tail(s), Q)
  <2>1. PICK h \in Seq(S), r \in Seq(S) : h = <<Head(s)>> /\ r = Tail(s)
    BY <1>1, Zenon
  <2>2. IsJoin(S, h, r, s)
    BY <1>2, <2>1, Zenon
  <2>3. Count(s, Q) = Count(h, Q) + Count(r, Q)
    BY <2>2, CountJoin
  <2>. QED BY <2>1, <2>3, Zenon
<1>. QED BY <1>3, CountOne, Zenon

LEMMA CountRemoved ==
    ASSUME NEW S, NEW s \in Seq(S), NEW n \in 1..Len(s), NEW Q
    PROVE  Count(s, Q) = (IF s[n] \in Q THEN 1 ELSE 0) + Count(RemoveAt(s, n), Q)
<1> DEFINE a == SubSeq(s, 1, n - 1)
           o == <<s[n]>>
           b == SubSeq(s, n + 1, Len(s))
           v == o \o b
<1>1. /\ a \in Seq(S) /\ Len(a) = n - 1
      /\ \A i \in 1 .. n - 1 : a[i] = s[i]
  OBVIOUS
<1>2. /\ b \in Seq(S) /\ Len(b) = Len(s) - n
      /\ \A i \in 1 .. Len(s) - n : b[i] = s[i + n]
  OBVIOUS
<1>3. RemoveAt(s, n) = a \o b
  BY DEF RemoveAt
<1>4. o \in Seq(S) /\ Len(o) = 1 /\ o[1] = s[n]
  OBVIOUS
<1>5. Count(o, Q) = IF s[n] \in Q THEN 1 ELSE 0
  BY CountOne
<1> HIDE DEF a, b, o
<1>6. IsJoin(S, o, b, v)
  BY <1>2, <1>4, Joined, Zenon
<1> HIDE DEF v
<1>7. v \in Seq(S) /\ Len(v) = Len(s) - n + 1
      /\ v[1] = s[n] /\ \A i \in 1 .. Len(s) - n : v[i + 1] = s[i + n]
  BY <1>2, <1>4, <1>6 DEF IsJoin
<1>8. IsJoin(S, a, v, s)
  <2>1. \A i \in 1..Len(v) : s[n - 1 + i] = v[i]
    <3>1. TAKE i \in 1..Len(v)
    <3>2. CASE i = 1
      BY <1>7, <3>2
    <3>3. CASE i # 1
      <4>1. i - 1 \in 1 .. Len(s) - n /\ (i - 1) + 1 = i /\ (i - 1) + n = n - 1 + i
        BY <1>7, <3>3
      <4>. QED BY <1>7, <4>1, Zenon
    <3>. QED BY <3>2, <3>3
  <2>. QED BY <1>1, <1>7, <2>1 DEF IsJoin
<1>9. IsJoin(S, a, b, a \o b)
  BY <1>1, <1>2, Joined, Zenon
<1>10. Count(s, Q) = Count(a, Q) + Count(v, Q)
  BY <1>1, <1>7, <1>8, CountJoin
<1>11. Count(v, Q) = Count(o, Q) + Count(b, Q)
  BY <1>2, <1>4, <1>6, CountJoin
<1>12. Count(a \o b, Q) = Count(a, Q) + Count(b, Q)
  BY <1>1, <1>2, <1>9, CountJoin
<1>13. Count(a, Q) \in Nat /\ Count(b, Q) \in Nat
  BY <1>1, <1>2, PlacesFinite, Zenon
<1>. QED BY <1>3, <1>5, <1>10, <1>11, <1>12, <1>13

-----------------------------------------------------------------------------
(***************************************************************************)
(* The positions of the packets of the stream st: the first command of its *)
(* q-th packet is at f[q], and f[Len(st) + 1] is the next one.             *)
(***************************************************************************)
Firsts(f, st) ==
    /\ f \in [1 .. Len(st) + 1 -> Nat] /\ f[1] = Start + 1
    /\ \A q \in 1..Len(st) : f[q + 1] - f[q] \in {1, 2}
    /\ \A q, r \in 1 .. Len(st) + 1 : q < r => f[q] < f[r]
Parts(f, q) == f[q + 1] - f[q]
Pos(f, q, i) == f[q] + i - 1
Newest(f, st) == f[Len(st) + 1] - 1
CommandOf(f, st, q, i) ==
    Command(IF Parts(f, q) = 1 THEN "RELIABLE" ELSE "FRAGMENT",
            NumOf(Pos(f, q, i)), 0, NumOf(f[q]), i, st[q])

\* Packet q of the stream has a part i.
IsPart(f, st, q, i) == q \in 1..Len(st) /\ i \in {1, 2} /\ i <= Parts(f, q)

\* c is the command at position x.
HasPos(f, st, c, x) ==
    \E q \in 1..Len(st), i \in {1, 2} :
        IsPart(f, st, q, i) /\ c = CommandOf(f, st, q, i) /\ x = Pos(f, q, i)

Ascends(st) == \A i, j \in DOMAIN st : i < j => st[i] < st[j]

LEMMA FirstsFacts ==
    ASSUME NEW st \in Seq(Nat), NEW f, Firsts(f, st)
    PROVE  /\ Len(st) \in Nat /\ Start \in Nat
           /\ \A q \in 1 .. Len(st) + 1 : f[q] \in Nat /\ f[q] > Start
           /\ \A q, r \in 1 .. Len(st) + 1 : q < r => f[q] < f[r]
           /\ \A q \in 1..Len(st) : q + 1 \in 1 .. Len(st) + 1 /\ q \in 1 .. Len(st) + 1
           /\ \A q \in 1..Len(st) : Parts(f, q) \in {1, 2} /\ f[q + 1] = f[q] + Parts(f, q)
           /\ Newest(f, st) \in Nat /\ Start <= Newest(f, st) /\ f[Len(st) + 1] = Newest(f, st) + 1
           /\ f[1] = Start + 1
<1>1. Len(st) \in Nat /\ Start \in Nat
  BY Consts, SeqFacts
<1>2. /\ \A q \in 1 .. Len(st) + 1 : f[q] \in Nat
      /\ f[1] = Start + 1 /\ 1 \in 1 .. Len(st) + 1 /\ Len(st) + 1 \in 1 .. Len(st) + 1
      /\ \A q \in 1..Len(st) : q + 1 \in 1 .. Len(st) + 1 /\ q \in 1 .. Len(st) + 1
      /\ \A q \in 1..Len(st) : f[q + 1] - f[q] \in {1, 2}
      /\ \A q, r \in 1 .. Len(st) + 1 : q < r => f[q] < f[r]
  BY <1>1, SMTT(30) DEF Firsts
<1>3. \A q \in 1 .. Len(st) + 1 : f[q] > Start
  BY <1>1, <1>2
<1>4. \A q \in 1..Len(st) : Parts(f, q) \in {1, 2} /\ f[q + 1] = f[q] + Parts(f, q)
  BY <1>2, SMTT(30) DEF Parts
<1>5. Newest(f, st) \in Nat /\ Start <= Newest(f, st) /\ f[Len(st) + 1] = Newest(f, st) + 1
  BY <1>1, <1>2, <1>3 DEF Newest
<1>. QED BY <1>1, <1>2, <1>3, <1>4, <1>5, Zenon

LEMMA PosFacts ==
    ASSUME NEW st \in Seq(Nat), NEW f, Firsts(f, st), NEW q, NEW i, IsPart(f, st, q, i)
    PROVE  /\ Pos(f, q, i) \in Nat /\ Start < Pos(f, q, i) /\ Pos(f, q, i) <= Newest(f, st)
           /\ \A r \in 0..Len(st) : q <= r <=> Pos(f, q, i) <= f[r + 1] - 1
           /\ \A r \in 0..Len(st) : r < q <=> f[r + 1] <= Pos(f, q, i)
           /\ f[q] <= Pos(f, q, i) /\ Pos(f, q, i) <= f[q] + 1 /\ Pos(f, q, i) < f[q + 1]
           /\ q \in 1..Len(st) /\ i \in {1, 2}
<1>1. /\ Len(st) \in Nat /\ Start \in Nat
      /\ \A r \in 1 .. Len(st) + 1 : f[r] \in Nat /\ f[r] > Start
      /\ \A r, s \in 1 .. Len(st) + 1 : r < s => f[r] < f[s]
      /\ f[Len(st) + 1] = Newest(f, st) + 1 /\ Newest(f, st) \in Nat
  BY FirstsFacts
<1>2. /\ q \in 1..Len(st) /\ i \in {1, 2} /\ i <= Parts(f, q)
      /\ q \in 1 .. Len(st) + 1 /\ q + 1 \in 1 .. Len(st) + 1
      /\ Parts(f, q) \in {1, 2} /\ f[q + 1] = f[q] + Parts(f, q)
  BY FirstsFacts DEF IsPart
<1>3. PICK x \in Nat : x = Pos(f, q, i) /\ f[q] <= x /\ x <= f[q] + 1 /\ x < f[q + 1] /\ Start < x
  <2>1. f[q] \in Nat /\ f[q] > Start
    BY <1>1, <1>2
  <2>2. PICK y : y = Pos(f, q, i)
    OBVIOUS
  <2>3. y = f[q] + i - 1
    BY <2>2 DEF Pos
  <2>4. PICK v : v = f[q]
    OBVIOUS
  <2>5. PICK w : w = f[q + 1]
    OBVIOUS
  <2>6. PICK h : h = Parts(f, q)
    OBVIOUS
  <2>7. /\ v \in Nat /\ v > Start /\ Start \in Nat /\ y = v + i - 1
        /\ h \in {1, 2} /\ w = v + h /\ i \in {1, 2} /\ i <= h
    <3>1. Start \in Nat
      BY <1>1, Zenon
    <3>2. h \in {1, 2} /\ w = v + h /\ i \in {1, 2} /\ i <= h
      BY <1>2, <2>4, <2>5, <2>6, Zenon
    <3>. QED BY <2>1, <2>3, <2>4, <3>1, <3>2, Zenon
  <2>8. y \in Nat /\ v <= y /\ y <= v + 1 /\ y < w /\ Start < y
    BY <2>7
  <2>. QED BY <2>2, <2>4, <2>5, <2>8, Zenon
<1>4. x <= Newest(f, st)
  <2>1. q + 1 < Len(st) + 1 => f[q + 1] < f[Len(st) + 1]
    BY <1>1, <1>2, SMTT(30)
  <2>2. q + 1 = Len(st) + 1 \/ q + 1 < Len(st) + 1
    BY <1>1, <1>2
  <2>3. PICK y : y = f[q + 1]
    OBVIOUS
  <2>4. PICK z : z = f[Len(st) + 1]
    OBVIOUS
  <2>5. y \in Nat /\ z \in Nat /\ y <= z
    <3>1. y \in Nat /\ z \in Nat
      <4>1. f[q + 1] \in Nat
        BY <1>1, <1>2, Zenon
      <4>2. f[Len(st) + 1] \in Nat
        <5>1. Len(st) + 1 \in 1 .. Len(st) + 1
          BY <1>1
        <5>. QED BY <1>1, <5>1, Zenon
      <4>. QED BY <2>3, <2>4, <4>1, <4>2, Zenon
    <3>2. y = z \/ y < z
      BY <2>1, <2>2, <2>3, <2>4
    <3>. QED BY <3>1, <3>2
  <2>6. z = Newest(f, st) + 1 /\ x < y
    BY <1>1, <1>3, <2>3, <2>4, Zenon
  <2>7. PICK t \in Nat : t = Newest(f, st)
    BY <1>1, Zenon
  <2>. QED BY <1>3, <2>5, <2>6, <2>7
<1>5. ASSUME NEW r \in 0..Len(st)
      PROVE  (q <= r <=> x <= f[r + 1] - 1) /\ (r < q <=> f[r + 1] <= x)
  <2>1. r + 1 \in 1 .. Len(st) + 1
    BY <1>1
  <2>2. q + 1 < r + 1 => f[q + 1] < f[r + 1]
    BY <1>1, <1>2, <2>1
  <2>3. r + 1 < q => f[r + 1] < f[q]
    BY <1>1, <1>2, <2>1
  <2>4. f[q] \in Nat /\ f[q + 1] \in Nat /\ f[r + 1] \in Nat
    BY <1>1, <1>2, <2>1
  <2>5. CASE q <= r
    <3>1. f[q + 1] <= f[r + 1]
      BY <1>2, <2>2, <2>4, <2>5, SMTT(30)
    <3>2. PICK g \in Int, h \in Int : g = f[q + 1] /\ h = f[r + 1]
      BY <2>4
    <3>3. x <= h - 1 /\ ~(h <= x)
      BY <1>3, <3>1, <3>2
    <3>. QED BY <1>2, <2>5, <3>2, <3>3
  <2>6. CASE r < q
    <3>1. f[r + 1] <= f[q]
      BY <1>2, <2>3, <2>4, <2>6
    <3>. QED BY <1>2, <1>3, <2>4, <2>6, <3>1, SMTT(30)
  <2>. QED BY <1>2, <2>5, <2>6
<1>. QED BY <1>2, <1>3, <1>4, <1>5, Zenon

LEMMA PosUnique ==
    ASSUME NEW st \in Seq(Nat), NEW f, Firsts(f, st), NEW q, NEW i, IsPart(f, st, q, i),
           NEW r, NEW k, IsPart(f, st, r, k), Pos(f, q, i) = Pos(f, r, k)
    PROVE  q = r /\ i = k
<1>1. /\ q \in 1..Len(st) /\ r \in 1..Len(st) /\ i \in {1, 2} /\ k \in {1, 2} /\ Len(st) \in Nat
      /\ Pos(f, q, i) \in Nat
  BY PosFacts, FirstsFacts
<1>2. /\ \A s \in 0..Len(st) : q <= s <=> Pos(f, q, i) <= f[s + 1] - 1
      /\ \A s \in 0..Len(st) : r <= s <=> Pos(f, r, k) <= f[s + 1] - 1
  BY PosFacts
<1>3. q <= r /\ r <= q
  <2>1. q \in 0..Len(st) /\ r \in 0..Len(st) /\ q <= q /\ r <= r
    BY <1>1
  <2>. QED BY <1>2, <2>1, Zenon
<1>4. q = r
  BY <1>1, <1>3
<1>5. f[q] \in Nat
  BY <1>1, FirstsFacts
<1>. QED BY <1>1, <1>4, <1>5 DEF Pos

LEMMA PosExists ==
    ASSUME NEW st \in Seq(Nat), NEW f, Firsts(f, st), NEW x \in Nat,
           Start < x, x <= Newest(f, st)
    PROVE  \E q \in 1..Len(st), i \in {1, 2} : IsPart(f, st, q, i) /\ x = Pos(f, q, i)
<1>1. /\ Len(st) \in Nat /\ Start \in Nat /\ f[1] = Start + 1
      /\ \A r \in 1 .. Len(st) + 1 : f[r] \in Nat /\ f[r] > Start
      /\ f[Len(st) + 1] = Newest(f, st) + 1 /\ Newest(f, st) \in Nat
  BY FirstsFacts
<1> DEFINE S == {r \in 1 .. Len(st) + 1 : f[r] > x}
<1>2. S \in SUBSET Nat /\ Len(st) + 1 \in S
  BY <1>1
<1>3. PICK m \in S : \A r \in S : m <= r
  BY <1>2, MinIn
<1>4. m # 1
  BY <1>1, <1>3
<1>5. m - 1 \in 1..Len(st) /\ m - 1 \notin S /\ (m - 1) + 1 = m
  BY <1>1, <1>3, <1>4
<1>6. f[m - 1] <= x /\ x < f[m] /\ f[m - 1] \in Nat /\ f[m] \in Nat
  BY <1>1, <1>3, <1>5
<1>7. Parts(f, m - 1) \in {1, 2} /\ f[m] = f[m - 1] + Parts(f, m - 1)
  BY <1>5, FirstsFacts
<1>8. PICK i \in {1, 2} : i = x - f[m - 1] + 1
  BY <1>6, <1>7, SMTT(30)
<1>9. i <= Parts(f, m - 1) /\ x = f[m - 1] + i - 1
  BY <1>6, <1>7, <1>8
<1>10. IsPart(f, st, m - 1, i) /\ x = Pos(f, m - 1, i)
  BY <1>5, <1>9, Zenon DEF IsPart, Pos
<1>. QED BY <1>5, <1>10, Zenon

-----------------------------------------------------------------------------
(***************************************************************************)
(* The elements of a sequence at some of its places.                       *)
(***************************************************************************)
LEMMA RankExists ==
    ASSUME NEW n \in Nat, NEW P \in SUBSET (1..n)
    PROVE  /\ IsFiniteSet(P) /\ Cardinality(P) \in Nat
           /\ \A k \in 1..Cardinality(P) : \E i \in P : Cardinality({j \in P : j <= i}) = k
<1> DEFINE Below(i) == {j \in P : j <= i}
<1>1. IsFiniteSet(1..n)
  BY FS_Interval
<1>2. IsFiniteSet(P) /\ Cardinality(P) \in Nat
  BY <1>1, FS_Subset, FS_CardinalityType
<1>3. \A i \in Nat : IsFiniteSet(Below(i)) /\ Cardinality(Below(i)) \in Nat
  <2>1. TAKE i \in Nat
  <2>2. Below(i) \in SUBSET P
    OBVIOUS
  <2> HIDE DEF Below
  <2>. QED BY <1>2, <2>2, FS_Subset, FS_CardinalityType
<1>p. \A j \in P : j \in Nat /\ j >= 1 /\ j <= n
  OBVIOUS
<1>4. Below(0) = {}
  <2>1. ASSUME NEW j \in Below(0)
        PROVE  FALSE
    <3>1. j \in P /\ j <= 0
      OBVIOUS
    <3> HIDE DEF Below
    <3>. QED BY <1>p, <3>1
  <2>. QED BY <2>1
<1>5. \A i \in Nat : i >= 1 /\ i \notin P => Below(i) = Below(i - 1)
  <2>1. TAKE i \in Nat
  <2>2. HAVE i >= 1 /\ i \notin P
  <2>3. \A j \in P : j <= i <=> j <= i - 1
    BY <1>p, <2>2
  <2>. QED BY <2>3
<1>6. \A i \in Nat : i >= 1 /\ i \in P => Below(i) = Below(i - 1) \cup {i} /\ i \notin Below(i - 1)
  <2>1. TAKE i \in Nat
  <2>2. HAVE i >= 1 /\ i \in P
  <2>3. \A j \in P : j <= i <=> j <= i - 1 \/ j = i
    BY <1>p, <2>2
  <2>4. ~(i <= i - 1)
    OBVIOUS
  <2>. QED BY <2>2, <2>3, <2>4
<1>7. ASSUME NEW k \in 1..Cardinality(P)
      PROVE  \E i \in P : Cardinality(Below(i)) = k
  <2> DEFINE S == {i \in Nat : Cardinality(Below(i)) >= k}
  <2>1. Below(n) = P /\ n \in Nat
    BY <1>p
  <2>2. n \in S /\ S \in SUBSET Nat
    <3> HIDE DEF Below
    <3>. QED BY <2>1, <1>2
  <2>3. PICK i \in S : \A j \in S : i <= j
    <3> HIDE DEF S
    <3>. QED BY <2>2, MinIn
  <2>4. i # 0
    <3>1. Cardinality({}) = 0
      BY FS_EmptySet
    <3> HIDE DEF Below
    <3>. QED BY <1>4, <2>3, <3>1
  <2>5. i \in Nat /\ i - 1 \in Nat /\ i - 1 \notin S /\ Cardinality(Below(i)) >= k
    <3> HIDE DEF Below
    <3>. QED BY <2>3, <2>4
  <2>6. Cardinality(Below(i - 1)) < k
    <3> HIDE DEF Below
    <3>. QED BY <1>3, <2>5
  <2>7. i \in P
    <3>1. SUFFICES ASSUME i \notin P PROVE FALSE
      OBVIOUS
    <3> HIDE DEF Below
    <3>2. Below(i) = Below(i - 1)
      BY <1>5, <2>4, <2>5, <3>1
    <3>. QED BY <1>3, <2>5, <2>6, <3>2
  <2>8. Cardinality(Below(i)) = Cardinality(Below(i - 1)) + 1
    <3> HIDE DEF Below
    <3>1. Below(i) = Below(i - 1) \cup {i} /\ i \notin Below(i - 1)
      BY <1>6, <2>4, <2>5, <2>7
    <3>. QED BY <1>3, <2>5, <3>1, FS_AddElement
  <2> HIDE DEF Below
  <2>9. Cardinality(Below(i)) = k
    BY <1>3, <2>5, <2>6, <2>8
  <2>. QED BY <2>7, <2>9
<1>. QED BY <1>2, <1>7

LEMMA AtFacts ==
    ASSUME NEW S, NEW list \in Seq(S), NEW P \in SUBSET (1..Len(list))
    PROVE  /\ Cardinality(P) \in Nat
           /\ At(list, P) \in Seq(S) /\ Len(At(list, P)) = Cardinality(P)
           /\ \A k \in 1..Cardinality(P) : \E i \in P : At(list, P)[k] = list[i]
<1> DEFINE n == Cardinality(P)
           place(k) == CHOOSE i \in P : Cardinality({j \in P : j <= i}) = k
           t == [k \in 1..n |-> list[place(k)]]
<1>1. Len(list) \in Nat /\ \A i \in 1..Len(list) : list[i] \in S
  BY SeqFacts
<1>2. n \in Nat /\ \A k \in 1..n : \E i \in P : Cardinality({j \in P : j <= i}) = k
  BY <1>1, RankExists
<1>3. \A k \in 1..n : place(k) \in P
  BY <1>2
<1>4. At(list, P) = t
  BY DEF At
<1> HIDE DEF place, n
<1>5. \A k \in 1..n : place(k) \in P /\ t[k] = list[place(k)] /\ t[k] \in S
  BY <1>1, <1>3
<1>6. t \in Seq(S) /\ Len(t) = n
  BY <1>2, <1>5
<1> HIDE DEF t
<1>. QED BY <1>2, <1>4, <1>5, <1>6 DEF n

-----------------------------------------------------------------------------
(***************************************************************************)
(* What the variables hold when the script has n packets.                  *)
(***************************************************************************)
Kinds == {"RELIABLE", "FRAGMENT", "UNRELIABLE", "UNSEQUENCED"}
Cmd(n) == [kind : Kinds, rseq : 0..Numbers - 1, useq : Nat, start : 0..Numbers - 1,
           num : 0..2, pkt : 1..n]
Out(n) == [tried : BOOLEAN, cmd : Cmd(n)]
Entry(n) == [kind : Kinds, rseq : 0..Numbers - 1, useq : Nat, pkt : 1..n,
             count : {0, 2}, got : SUBSET (0..2)]
Chan(n) == [rseq : 0..Numbers - 1, useq : Nat, reliable : Seq(Entry(n)),
            unreliable : Seq(Entry(n)), group : Int, seen : SUBSET Int]
Res(n) == [r : Chan(n), out : Seq(1..n), ok : BOOLEAN]

\* What a handler's result takes of the room for what waits.
Size(h) == Len(h.r.reliable) + Len(h.r.unreliable) + Len(h.out)

\* u holds packets of entries of list; some holds entries of list.
PacketsFrom(u, list) == \A k \in 1..Len(u) : \E i \in 1..Len(list) : u[k] = list[i].pkt
EntriesFrom(some, list) == \A k \in 1..Len(some) : \E i \in 1..Len(list) : some[k] = list[i]

\* t is s after some of the unreliable packets went out.
WentOut(n, s, t) ==
    /\ t \in Res(n) /\ t.ok = s.ok /\ t.r.reliable = s.r.reliable /\ t.r.rseq = s.r.rseq
    /\ Size(t) <= Size(s)
    /\ \E u \in Seq(1..n) : IsJoin(1..n, s.out, u, t.out) /\ PacketsFrom(u, s.r.unreliable)
    /\ EntriesFrom(t.r.unreliable, s.r.unreliable)

LEMMA PacketsFacts ==
    ASSUME NEW n \in Nat, NEW list \in Seq(Entry(n))
    PROVE  /\ Packets(list) \in Seq(1..n) /\ Len(Packets(list)) = Len(list)
           /\ \A i \in 1..Len(list) : Packets(list)[i] = list[i].pkt
<1>1. Len(list) \in Nat /\ DOMAIN list = 1..Len(list) /\ \A i \in 1..Len(list) : list[i] \in Entry(n)
  BY SeqFacts
<1>2. \A i \in 1..Len(list) : list[i].pkt \in 1..n
  BY <1>1 DEF Entry
<1> DEFINE t == [i \in 1..Len(list) |-> list[i].pkt]
<1>3. Packets(list) = t
  BY <1>1, Zenon DEF Packets
<1>4. t \in Seq(1..n) /\ Len(t) = Len(list) /\ \A i \in 1..Len(list) : t[i] = list[i].pkt
  BY <1>1, <1>2
<1>. QED BY <1>3, <1>4, Zenon

LEMMA DispatchUnreliableFacts ==
    ASSUME NEW n \in Nat, NEW s \in Res(n)
    PROVE  WentOut(n, s, DispatchUnreliable(s))
<1> DEFINE list == s.r.unreliable
           E == {Len(list) + 1} \cup {i \in DOMAIN list : Waits(s.r, list[i])}
           end == Min(E)
           go == {i \in 1..end - 1 : Unsequenced(list[i]) \/ Current(s.r, list[i])}
           L == {0} \cup {i \in 1..end - 1 : Current(s.r, list[i])}
           last == Max(L)
           useq == IF last = 0 THEN s.r.useq ELSE list[last].useq
           rest == SubSeq(list, end, Len(list))
           at == At(list, go)
           out == Packets(at)
           r1 == [s.r EXCEPT !.unreliable = rest, !.useq = useq]
           t == [s EXCEPT !.out = s.out \o out, !.r = r1]
<1>1. /\ s.r \in Chan(n) /\ s.out \in Seq(1..n) /\ s.ok \in BOOLEAN
      /\ list \in Seq(Entry(n)) /\ s.r.useq \in Nat /\ s.r.reliable \in Seq(Entry(n))
  BY DEF Res, Chan
<1>2. Len(list) \in Nat /\ DOMAIN list = 1..Len(list) /\ \A i \in 1..Len(list) : list[i] \in Entry(n)
  BY <1>1, SeqFacts
<1>3. DispatchUnreliable(s) = t
  BY <1>1, Zenon DEF DispatchUnreliable, Res, Chan
<1>4. end \in 1 .. Len(list) + 1
  <2>1. E \in SUBSET Nat /\ E # {} /\ E \subseteq 1 .. Len(list) + 1
    BY <1>2
  <2> HIDE DEF E
  <2>2. end \in E
    BY <2>1, MinIn
  <2>. QED BY <2>1, <2>2
<1> HIDE DEF end, list
<1>5. go \in SUBSET (1..Len(list)) /\ go \in SUBSET (1..end - 1)
  <2>1. \A i \in 1 .. end - 1 : i \in 1..Len(list)
    BY <1>2, <1>4
  <2>. QED BY <2>1
<1>6. last \in 0..Len(list)
  <2>1. L \in SUBSET (0..Len(list)) /\ L # {}
    BY <1>2, <1>4
  <2> HIDE DEF L
  <2>2. last \in L
    BY <1>2, <2>1, MaxIn
  <2>. QED BY <2>1, <2>2
<1>7. useq \in Nat
  <2>1. last # 0 => list[last] \in Entry(n)
    <3> HIDE DEF last
    <3>. QED BY <1>2, <1>6
  <2> HIDE DEF last
  <2>2. \A e \in Entry(n) : e.useq \in Nat
    BY DEF Entry
  <2>. QED BY <1>1, <2>1, <2>2, Zenon
<1>8. /\ rest \in Seq(Entry(n)) /\ Len(rest) = Len(list) - (end - 1)
      /\ \A k \in 1..Len(rest) : rest[k] = list[k + (end - 1)] /\ k + (end - 1) \in 1..Len(list)
  <2>1. end - 1 \in 0..Len(list) /\ (end - 1) + 1 = end
    BY <1>2, <1>4
  <2>2. /\ rest \in Seq(Entry(n)) /\ Len(rest) = Len(list) - (end - 1)
        /\ \A k \in 1 .. Len(list) - (end - 1) : rest[k] = list[k + (end - 1)]
    <3>1. PICK e \in 0..Len(list) : e = end - 1 /\ e + 1 = end
      BY <2>1
    <3>2. /\ SubSeq(list, e + 1, Len(list)) \in Seq(Entry(n))
          /\ Len(SubSeq(list, e + 1, Len(list))) = Len(list) - e
          /\ \A k \in 1 .. Len(list) - e : SubSeq(list, e + 1, Len(list))[k] = list[k + e]
      BY <1>1, Split, Zenon
    <3>. QED BY <3>1, <3>2, Zenon
  <2>. QED BY <1>2, <1>4, <2>2
<1> HIDE DEF go, end, last, rest, useq
<1>9. /\ Cardinality(go) \in Nat /\ at \in Seq(Entry(n)) /\ Len(at) = Cardinality(go)
      /\ \A k \in 1..Cardinality(go) : \E i \in go : at[k] = list[i]
  BY <1>1, <1>5, AtFacts
<1>10. Cardinality(go) <= end - 1
  <2>1. IsFiniteSet(1 .. end - 1) /\ Cardinality(1 .. end - 1) = end - 1
    <3>1. 1 \in Int /\ end - 1 \in Nat
      BY <1>4, <1>2
    <3>2. PICK e \in Nat : e = end - 1
      BY <3>1
    <3>3. IsFiniteSet(1..e) /\ Cardinality(1..e) = IF 1 > e THEN 0 ELSE e - 1 + 1
      BY FS_Interval
    <3>. QED BY <3>2, <3>3
  <2>. QED BY <1>5, <2>1, FS_Subset, Zenon
<1> HIDE DEF at
<1>11. /\ out \in Seq(1..n) /\ Len(out) = Len(at)
       /\ \A k \in 1..Len(at) : out[k] = at[k].pkt
  BY <1>9, PacketsFacts
<1>12. PacketsFrom(out, list)
  <2> SUFFICES ASSUME NEW k \in 1..Len(out) PROVE \E i \in 1..Len(list) : out[k] = list[i].pkt
    BY DEF PacketsFrom
  <2>1. k \in 1..Cardinality(go) /\ out[k] = at[k].pkt
    BY <1>9, <1>11
  <2>2. PICK i \in go : at[k] = list[i]
    BY <1>9, <2>1
  <2>3. out[k] = list[i].pkt /\ i \in 1..Len(list)
    BY <1>5, <2>1, <2>2
  <2>. QED BY <2>3
<1>13. EntriesFrom(rest, list)
  BY <1>8 DEF EntriesFrom
<1> HIDE DEF out
<1>14. IsJoin(1..n, s.out, out, s.out \o out)
  BY <1>1, <1>11, Joined, Zenon
<1>15. /\ r1 \in Chan(n) /\ r1.unreliable = rest /\ r1.reliable = s.r.reliable /\ r1.rseq = s.r.rseq
  BY <1>1, <1>7, <1>8 DEF Chan
<1> HIDE DEF r1
<1>16. /\ t \in Res(n) /\ t.ok = s.ok /\ t.r = r1 /\ t.out = s.out \o out
  <2>1. PICK o \in Seq(1..n) : o = s.out \o out
    BY <1>14 DEF IsJoin
  <2>2. PICK q \in Chan(n) : q = r1
    BY <1>15
  <2>3. t = [s EXCEPT !.out = o, !.r = q]
    BY <2>1, <2>2
  <2>. QED BY <1>1, <2>1, <2>2, <2>3 DEF Res
<1>17. Size(t) <= Size(s)
  <2>1. Len(t.out) = Len(s.out) + Len(out) /\ Len(s.out) \in Nat /\ Len(out) \in Nat
    BY <1>1, <1>11, <1>14, <1>16, SeqFacts DEF IsJoin
  <2>2. Len(s.r.reliable) \in Nat
    BY <1>1, SeqFacts
  <2>3. Size(t) = Len(s.r.reliable) + Len(rest) + Len(t.out)
    BY <1>15, <1>16, Zenon DEF Size
  <2>4. Size(s) = Len(s.r.reliable) + Len(list) + Len(s.out)
    BY DEF Size, list
  <2>5. Len(out) <= end - 1 /\ Len(rest) = Len(list) - (end - 1)
    BY <1>8, <1>9, <1>10, <1>11
  <2> HIDE DEF t
  <2>8. end \in Nat
    BY <1>2, <1>4
  <2>6. PICK a \in Nat, b \in Nat, c \in Nat, d \in Nat, e \in Nat :
            /\ a = Len(s.r.reliable) /\ b = Len(s.out) /\ c = Len(out) /\ d = Len(list)
            /\ e = end
    BY <1>2, <2>1, <2>2, <2>8, Zenon
  <2>7. Size(t) = a + (d - (e - 1)) + (b + c) /\ Size(s) = a + d + b /\ c <= e - 1
    BY <2>1, <2>3, <2>4, <2>5, <2>6, Zenon
  <2>. QED BY <2>7
<1> HIDE DEF t
<1>18. t.ok = s.ok /\ t.r.reliable = s.r.reliable /\ t.r.rseq = s.r.rseq
  BY <1>15, <1>16, Zenon
<1>19. \E u \in Seq(1..n) : IsJoin(1..n, s.out, u, t.out) /\ PacketsFrom(u, s.r.unreliable)
  BY <1>11, <1>12, <1>14, <1>16, Zenon DEF list
<1>20. EntriesFrom(t.r.unreliable, s.r.unreliable)
  BY <1>13, <1>15, <1>16, Zenon DEF list
<1>. QED BY <1>3, <1>16, <1>17, <1>18, <1>19, <1>20, Zenon DEF WentOut

\* The reliable entries that continue the stream, as far as they do.
LEMMA ReadyFacts ==
    ASSUME NEW n \in Nat, NEW r \in Chan(n)
    PROVE  /\ Ready(r) \in 0..Len(r.reliable)
           /\ \A i \in 1..Ready(r) : Continues(r, i)
           /\ Ready(r) < Len(r.reliable) => ~Continues(r, Ready(r) + 1)
<1> DEFINE G == {i \in Nat : Continues(r, i)}
           k == Len(r.reliable)
           m == Max({j \in 0..k : \A i \in 1..j : i \in G})
<1>1. k \in Nat
  BY SeqFacts DEF Chan
<1>2. m \in 0..k /\ (\A i \in 1..m : i \in G) /\ (m < k => m + 1 \notin G)
  <2> HIDE DEF G, k
  <2>. QED BY <1>1, Beginning
<1>3. {j \in 0..k : \A i \in 1..j : i \in G} = {j \in 0..k : \A i \in 1..j : Continues(r, i)}
  <2>1. \A j \in 0..k, i \in 1..k : i \in 1..j => i \in Nat
    BY <1>1
  <2>2. \A j \in 0..k : \A i \in 1..j : i \in Nat
    BY <1>1
  <2> HIDE DEF k
  <2>. QED BY <2>2
<1>4. Ready(r) = m
  BY <1>3, Zenon DEF Ready
<1>5. \A i \in 1..m : Continues(r, i)
  BY <1>2
<1>6. m < k => ~Continues(r, m + 1)
  <2>1. m < k => m + 1 \in Nat
    BY <1>1, <1>2
  <2> HIDE DEF m, k
  <2>. QED BY <1>2, <2>1
<1>. QED BY <1>2, <1>4, <1>5, <1>6, Zenon

\* t is s after its first m reliable entries, as many as continue the stream,
\* and then some of the unreliable ones went out.
TookOut(n, s, m, t) ==
    /\ t \in Res(n) /\ t.ok = s.ok /\ Size(t) <= Size(s) /\ m \in 0..Len(s.r.reliable)
    /\ \A i \in 1..m : Continues(s.r, i)
    /\ m < Len(s.r.reliable) => ~Continues(s.r, m + 1)
    /\ t.r.rseq = IF m = 0 THEN s.r.rseq ELSE LastNumber(s.r.reliable[m])
    /\ Len(t.r.reliable) = Len(s.r.reliable) - m
    /\ \A k \in 1..Len(t.r.reliable) : t.r.reliable[k] = s.r.reliable[k + m]
    /\ m <= Len(t.out) /\ \A k \in 1..m : t.out[k] = s.r.reliable[k].pkt
    /\ \A k \in m + 1 .. Len(t.out) :
           \E i \in 1..Len(s.r.unreliable) : t.out[k] = s.r.unreliable[i].pkt
    /\ EntriesFrom(t.r.unreliable, s.r.unreliable)

LEMMA LastNumberType ==
    ASSUME NEW n \in Nat, NEW e \in Entry(n)
    PROVE  LastNumber(e) \in 0..Numbers - 1
<1>1. e.rseq \in Nat /\ e.count \in {0, 2} /\ Numbers \in Nat \ {0}
  BY Consts DEF Entry
<1>2. PICK k \in Nat : k = e.rseq + (IF e.count = 0 THEN 0 ELSE e.count - 1)
  BY <1>1
<1>3. k % Numbers \in 0..Numbers - 1
  BY <1>1
<1>. QED BY <1>2, <1>3 DEF LastNumber

LEMMA DispatchReliableFacts ==
    ASSUME NEW n \in Nat, NEW s \in Res(n), s.out = << >>
    PROVE  TookOut(n, s, Ready(s.r), DispatchReliable(s))
<1> DEFINE m == Ready(s.r)
           list == s.r.reliable
           taken == SubSeq(list, 1, m)
           rest == SubSeq(list, m + 1, Len(list))
           out == Packets(taken)
           r1 == [s.r EXCEPT !.reliable = rest, !.rseq = LastNumber(list[m]), !.useq = 0]
           moved == [s EXCEPT !.out = << >> \o out, !.r = r1]
           t == DispatchReliable(s)
<1>1. /\ s.r \in Chan(n) /\ s.ok \in BOOLEAN /\ s.out \in Seq(1..n)
      /\ list \in Seq(Entry(n)) /\ s.r.unreliable \in Seq(Entry(n))
  BY DEF Res, Chan
<1>2. /\ Len(list) \in Nat /\ \A i \in 1..Len(list) : list[i] \in Entry(n)
      /\ Len(s.r.unreliable) \in Nat
      /\ s.r.unreliable = << >> <=> Len(s.r.unreliable) = 0
  BY <1>1, SeqFacts
<1>3. /\ m \in 0..Len(list) /\ \A i \in 1..m : Continues(s.r, i)
      /\ m < Len(list) => ~Continues(s.r, m + 1)
  BY <1>1, ReadyFacts, Zenon
<1>4. t = IF m = 0 THEN s ELSE IF moved.r.unreliable = << >> THEN moved ELSE DispatchUnreliable(moved)
  BY <1>1, Zenon DEF DispatchReliable, Res, Chan
<1> HIDE DEF m, list
<1>5. /\ taken \in Seq(Entry(n)) /\ rest \in Seq(Entry(n))
      /\ Len(taken) = m /\ Len(rest) = Len(list) - m
      /\ \A i \in 1..m : taken[i] = list[i]
      /\ \A i \in 1 .. Len(list) - m : rest[i] = list[i + m]
  BY <1>1, <1>3, Split
<1> HIDE DEF taken, rest
<1>6. out \in Seq(1..n) /\ Len(out) = m /\ \A i \in 1..m : out[i] = list[i].pkt
  <2>1. out \in Seq(1..n) /\ Len(out) = Len(taken) /\ \A i \in 1..Len(taken) : out[i] = taken[i].pkt
    BY <1>5, PacketsFacts
  <2>. QED BY <1>5, <2>1
<1> HIDE DEF out
<1>7. << >> \o out = out
  BY <1>6
<1>8. CASE m = 0
  <2>1. t = s
    BY <1>4, <1>8
  <2>2. EntriesFrom(s.r.unreliable, s.r.unreliable)
    BY DEF EntriesFrom
  <2>3. Len(s.out) = 0
    BY <1>1, SeqFacts
  <2>4. \A k \in 1..Len(list) : k + m = k
    BY <1>2, <1>8
  <2>5. /\ Len(list) = Len(list) - m /\ m <= 0 /\ \A k : k \notin 1..m /\ k \notin m + 1 .. 0
    BY <1>2, <1>8
  <2>6. Size(s) <= Size(s)
    <3>1. Size(s) \in Nat
      <4>1. Len(s.r.reliable) \in Nat
        BY <1>1, SeqFacts DEF list
      <4>2. \A a, b, c \in Nat : a + b + c \in Nat
        OBVIOUS
      <4>3. Len(s.out) \in Nat
        BY <1>1, SeqFacts
      <4>. QED BY <4>1, <4>2, <4>3, <1>2, Zenon DEF Size
    <3>. QED BY <3>1
  <2>. QED BY <1>3, <1>8, <2>1, <2>2, <2>3, <2>4, <2>5, <2>6, Zenon DEF TookOut, list, m
<1>9. CASE m # 0
  <2>1. LastNumber(list[m]) \in 0..Numbers - 1
    BY <1>2, <1>3, <1>9, LastNumberType
  <2>2. r1 \in Chan(n) /\ r1.reliable = rest /\ r1.rseq = LastNumber(list[m])
        /\ r1.unreliable = s.r.unreliable
    BY <1>1, <1>5, <2>1 DEF Chan
  <2> HIDE DEF r1
  <2>3. moved \in Res(n) /\ moved.ok = s.ok /\ moved.r = r1 /\ moved.out = out
    BY <1>1, <1>6, <1>7, <2>2 DEF Res
  <2>4. t = IF r1.unreliable = << >> THEN moved ELSE DispatchUnreliable(moved)
    BY <1>4, <1>9, <2>3
  <2> HIDE DEF moved, t
  <2>5. Size(moved) = Size(s) /\ Size(s) \in Nat
    <3>1. Size(moved) = (Len(list) - m) + Len(s.r.unreliable) + m
      BY <1>5, <1>6, <2>2, <2>3, Zenon DEF Size
    <3>2. Size(s) = Len(list) + Len(s.r.unreliable) + 0
      <4>1. Len(s.out) = 0
        BY <1>1, SeqFacts
      <4>. QED BY <4>1, Zenon DEF Size, list
    <3>. QED BY <1>2, <1>3, <3>1, <3>2
  <2>6. WentOut(n, moved, t)
    <3>1. CASE r1.unreliable = << >>
      <4>1. t = moved
        BY <2>4, <3>1
      <4>2. << >> \in Seq(1..n) /\ Len(<< >>) = 0 /\ \A k : k \notin 1..0
        OBVIOUS
      <4>3. IsJoin(1..n, out, << >>, out)
        BY <1>6, <1>3, <4>2 DEF IsJoin
      <4>4. PacketsFrom(<< >>, moved.r.unreliable) /\ EntriesFrom(moved.r.unreliable, moved.r.unreliable)
        BY DEF PacketsFrom, EntriesFrom
      <4>5. Size(moved) <= Size(moved)
        BY <2>5
      <4>. QED BY <2>3, <4>1, <4>2, <4>3, <4>4, <4>5, Zenon DEF WentOut
    <3>2. CASE r1.unreliable # << >>
      BY <2>3, <2>4, <3>2, DispatchUnreliableFacts, Zenon
    <3>. QED BY <3>1, <3>2
  <2>7. PICK u \in Seq(1..n) : IsJoin(1..n, out, u, t.out) /\ PacketsFrom(u, s.r.unreliable)
    BY <2>2, <2>3, <2>6, Zenon DEF WentOut
  <2>8. /\ t \in Res(n) /\ t.ok = s.ok /\ t.r.reliable = rest /\ t.r.rseq = LastNumber(list[m])
        /\ EntriesFrom(t.r.unreliable, s.r.unreliable)
    BY <2>2, <2>3, <2>6, Zenon DEF WentOut
  <2>9. Size(t) <= Size(s)
    BY <2>5, <2>6, Zenon DEF WentOut
  <2>10. m <= Len(t.out) /\ \A k \in 1..m : t.out[k] = list[k].pkt
    <3>1. Len(u) \in Nat
      BY <2>7, SeqFacts
    <3>2. Len(t.out) = m + Len(u) /\ \A k \in 1..m : t.out[k] = list[k].pkt
      BY <1>6, <2>7, Zenon DEF IsJoin
    <3>3. m <= Len(t.out)
      BY <1>2, <1>3, <3>1, <3>2
    <3>. QED BY <3>2, <3>3, Zenon
  <2>11. \A k \in m + 1 .. Len(t.out) :
             \E i \in 1..Len(s.r.unreliable) : t.out[k] = s.r.unreliable[i].pkt
    <3>1. TAKE k \in m + 1 .. Len(t.out)
    <3>2. Len(u) \in Nat /\ Len(t.out) = m + Len(u) /\ \A i \in 1..Len(u) : t.out[m + i] = u[i]
      BY <1>6, <2>7, SeqFacts DEF IsJoin
    <3>3. k - m \in 1..Len(u) /\ m + (k - m) = k
      BY <1>3, <1>2, <3>2
    <3>4. t.out[k] = u[k - m]
      BY <3>2, <3>3, Zenon
    <3>5. PICK i \in 1..Len(s.r.unreliable) : u[k - m] = s.r.unreliable[i].pkt
      BY <2>7, <3>3, Zenon DEF PacketsFrom
    <3>. QED BY <3>4, <3>5, Zenon
  <2>12. /\ Len(t.r.reliable) = Len(list) - m
         /\ \A k \in 1..Len(t.r.reliable) : t.r.reliable[k] = list[k + m]
    BY <1>5, <2>8, Zenon
  <2>. QED BY <1>3, <1>9, <2>8, <2>9, <2>10, <2>11, <2>12, Zenon DEF TookOut, list, m, t
<1>. QED BY <1>8, <1>9, Zenon DEF m

\* What a handler leaves is within the bound for what waits.
Fits(n, h) == h \in Res(n) /\ Size(h) + Len(dispatched) <= MaxWaiting

LEMMA SizeType ==
    ASSUME NEW n \in Nat, NEW h \in Res(n)
    PROVE  Size(h) \in Nat /\ Len(h.out) \in Nat
           /\ Len(h.r.reliable) \in Nat /\ Len(h.r.unreliable) \in Nat
<1>1. /\ h.r.reliable \in Seq(Entry(n)) /\ h.r.unreliable \in Seq(Entry(n)) /\ h.out \in Seq(1..n)
  BY DEF Res, Chan
<1>2. Len(h.r.reliable) \in Nat /\ Len(h.r.unreliable) \in Nat /\ Len(h.out) \in Nat
  BY <1>1, SeqFacts
<1>3. \A a, b, c \in Nat : a + b + c \in Nat
  OBVIOUS
<1>. QED BY <1>2, <1>3, Zenon DEF Size

LEMMA FitsKept ==
    ASSUME NEW n \in Nat, NEW r \in Chan(n), dispatched \in Seq(1..n), Waiting(r) <= MaxWaiting
    PROVE  Fits(n, Done(r)) /\ Fits(n, Failed(r))
<1>1. << >> \in Seq(1..n) /\ Len(<< >>) = 0 /\ Len(dispatched) \in Nat
  OBVIOUS
<1>2. Done(r) \in Res(n) /\ Failed(r) \in Res(n)
  BY <1>1 DEF Done, Failed, Res
<1>3. r.reliable \in Seq(Entry(n)) /\ r.unreliable \in Seq(Entry(n))
  BY DEF Chan
<1>4. PICK a \in Nat, b \in Nat, d \in Nat :
          a = Len(r.reliable) /\ b = Len(r.unreliable) /\ d = Len(dispatched)
  BY <1>1, <1>3, SeqFacts, Zenon
<1>5. Size(Done(r)) = a + b + 0 /\ Size(Failed(r)) = a + b + 0
  BY <1>1, <1>4 DEF Size, Done, Failed
<1>6. Waiting(r) = a + b + d
  BY <1>4, Zenon DEF Waiting
<1>7. (a + b + 0) + d = a + b + d
  OBVIOUS
<1>8. Size(Done(r)) + Len(dispatched) = Waiting(r) /\ Size(Failed(r)) + Len(dispatched) = Waiting(r)
  BY <1>4, <1>5, <1>6, <1>7
<1>. QED BY <1>2, <1>8 DEF Fits

LEMMA FitsSmaller ==
    ASSUME NEW n \in Nat, NEW s, Fits(n, s), NEW t \in Res(n), Size(t) <= Size(s),
           dispatched \in Seq(1..n)
    PROVE  Fits(n, t)
<1>1. PICK a \in Nat, b \in Nat, d \in Nat : a = Size(t) /\ b = Size(s) /\ d = Len(dispatched)
  <2>1. Size(s) \in Nat /\ Size(t) \in Nat /\ Len(dispatched) \in Nat
    BY SizeType, SeqFacts DEF Fits
  <2>. QED BY <2>1
<1>2. a <= b /\ b + d <= MaxWaiting /\ MaxWaiting \in Nat
  BY <1>1, LimitsAssumption DEF Fits
<1>3. a + d <= MaxWaiting
  BY <1>2
<1>. QED BY <1>1, <1>3 DEF Fits

LEMMA FitsWaiting ==
    ASSUME NEW n \in Nat, NEW h, Fits(n, h), dispatched \in Seq(1..n)
    PROVE  h.r \in Chan(n) /\ Waiting(h.r) <= MaxWaiting
<1>1. PICK a \in Nat, b \in Nat, o \in Nat, d \in Nat :
          a = Len(h.r.reliable) /\ b = Len(h.r.unreliable) /\ o = Len(h.out) /\ d = Len(dispatched)
  <2>1. Len(h.r.reliable) \in Nat /\ Len(h.r.unreliable) \in Nat /\ Len(h.out) \in Nat
        /\ Len(dispatched) \in Nat
    BY SizeType, SeqFacts DEF Fits
  <2>. QED BY <2>1
<1>2. a + b + o + d <= MaxWaiting /\ MaxWaiting \in Nat
  BY <1>1, LimitsAssumption DEF Fits, Size
<1>3. a + b + d <= MaxWaiting
  BY <1>2
<1>4. h.r \in Chan(n)
  BY DEF Fits, Res
<1>. QED BY <1>1, <1>3, <1>4 DEF Waiting

LEMMA FitsDispatch ==
    ASSUME NEW n \in Nat, NEW s, Fits(n, s), dispatched \in Seq(1..n)
    PROVE  /\ Fits(n, DispatchUnreliable(s))
           /\ s.out = << >> => Fits(n, DispatchReliable(s))
<1>1. s \in Res(n)
  BY DEF Fits
<1>2. Fits(n, DispatchUnreliable(s))
  <2>1. WentOut(n, s, DispatchUnreliable(s))
    BY <1>1, DispatchUnreliableFacts
  <2>2. DispatchUnreliable(s) \in Res(n) /\ Size(DispatchUnreliable(s)) <= Size(s)
    BY <2>1, Zenon DEF WentOut
  <2>. QED BY <2>2, FitsSmaller
<1>3. ASSUME s.out = << >> PROVE Fits(n, DispatchReliable(s))
  <2>1. TookOut(n, s, Ready(s.r), DispatchReliable(s))
    BY <1>1, <1>3, DispatchReliableFacts
  <2>2. DispatchReliable(s) \in Res(n) /\ Size(DispatchReliable(s)) <= Size(s)
    BY <2>1, Zenon DEF TookOut
  <2>. QED BY <2>2, FitsSmaller
<1>. QED BY <1>2, <1>3

LEMMA InsertFacts ==
    ASSUME NEW S, NEW list \in Seq(S), NEW place \in 0..Len(list), NEW e \in S
    PROVE  IsInserted(S, list, place + 1, e, Insert(list, place, e))
<1>1. place + 1 \in 1 .. Len(list) + 1
  BY SeqFacts
<1>. QED BY <1>1, InsertedAt DEF Insert

\* Room for one more.
LEMMA FitsInsert ==
    ASSUME NEW n \in Nat, NEW r \in Chan(n), dispatched \in Seq(1..n), ~(Waiting(r) >= MaxWaiting),
           NEW e \in Entry(n), NEW place,
           NEW q \in Chan(n),
           \/ /\ place \in 0..Len(r.reliable) /\ q.reliable = Insert(r.reliable, place, e)
              /\ q.unreliable = r.unreliable
           \/ /\ place \in 0..Len(r.unreliable) /\ q.unreliable = Insert(r.unreliable, place, e)
              /\ q.reliable = r.reliable
    PROVE  Fits(n, Done(q))
<1>1. /\ r.reliable \in Seq(Entry(n)) /\ r.unreliable \in Seq(Entry(n))
      /\ q.reliable \in Seq(Entry(n)) /\ q.unreliable \in Seq(Entry(n))
  BY DEF Chan
<1>2. PICK a \in Nat, b \in Nat, d \in Nat, e1 \in Nat, f1 \in Nat :
          /\ a = Len(r.reliable) /\ b = Len(r.unreliable) /\ d = Len(dispatched)
          /\ e1 = Len(q.reliable) /\ f1 = Len(q.unreliable)
  <2>1. Len(dispatched) \in Nat
    BY SeqFacts
  <2>. QED BY <1>1, <2>1, SeqFacts, Zenon
<1>3. e1 + f1 = a + b + 1
  <2>1. CASE /\ place \in 0..Len(r.reliable) /\ q.reliable = Insert(r.reliable, place, e)
             /\ q.unreliable = r.unreliable
    <3>1. IsInserted(Entry(n), r.reliable, place + 1, e, q.reliable)
      BY <1>1, <2>1, InsertFacts
    <3>2. e1 = a + 1 /\ f1 = b
      BY <1>2, <2>1, <3>1 DEF IsInserted
    <3>. QED BY <3>2
  <2>2. CASE /\ place \in 0..Len(r.unreliable) /\ q.unreliable = Insert(r.unreliable, place, e)
             /\ q.reliable = r.reliable
    <3>1. IsInserted(Entry(n), r.unreliable, place + 1, e, q.unreliable)
      BY <1>1, <2>2, InsertFacts
    <3>2. f1 = b + 1 /\ e1 = a
      BY <1>2, <2>2, <3>1 DEF IsInserted
    <3>. QED BY <3>2
  <2>. QED BY <2>1, <2>2
<1>4. a + b + d < MaxWaiting
  <2>1. Waiting(r) = a + b + d
    BY <1>2, Zenon DEF Waiting
  <2>. QED BY <2>1, LimitsAssumption
<1>5. Waiting(q) = e1 + f1 + d
  BY <1>2, Zenon DEF Waiting
<1>6. Waiting(q) <= MaxWaiting
  BY <1>3, <1>4, <1>5, LimitsAssumption
<1>. QED BY <1>6, FitsKept

LEMMA ChanFacts ==
    ASSUME NEW n \in Nat, NEW r \in Chan(n)
    PROVE  /\ r.reliable \in Seq(Entry(n)) /\ r.unreliable \in Seq(Entry(n))
           /\ Len(r.reliable) \in Nat /\ DOMAIN r.reliable = 1..Len(r.reliable)
           /\ Len(r.unreliable) \in Nat /\ DOMAIN r.unreliable = 1..Len(r.unreliable)
           /\ \A i \in 1..Len(r.reliable) : r.reliable[i] \in Entry(n)
           /\ \A i \in 1..Len(r.unreliable) : r.unreliable[i] \in Entry(n)
           /\ r.rseq \in 0..Numbers - 1
<1>1. r.reliable \in Seq(Entry(n)) /\ r.unreliable \in Seq(Entry(n)) /\ r.rseq \in 0..Numbers - 1
  BY DEF Chan
<1>. QED BY <1>1, SeqFacts

LEMMA PlaceType ==
    ASSUME NEW n \in Nat, NEW r \in Chan(n), NEW m, NEW u
    PROVE  /\ Place(r, m) \in 0..Len(r.reliable)
           /\ UnreliablePlace(r, m, u) \in 0..Len(r.unreliable)
<1>1. /\ Len(r.reliable) \in Nat /\ DOMAIN r.reliable = 1..Len(r.reliable)
      /\ Len(r.unreliable) \in Nat /\ DOMAIN r.unreliable = 1..Len(r.unreliable)
  BY ChanFacts
<1>2. \A k \in Nat : \A T \in SUBSET (1..k) : Max({0} \cup T) \in 0..k
  <2>1. TAKE k \in Nat
  <2>2. TAKE T \in SUBSET (1..k)
  <2>3. {0} \cup T \in SUBSET (0..k) /\ {0} \cup T # {}
    <3>1. \A i \in {0} \cup T : i \in 0..k
      OBVIOUS
    <3>. QED BY <3>1
  <2>4. Max({0} \cup T) \in {0} \cup T
    BY <2>3, MaxIn
  <2>. QED BY <2>3, <2>4
<1>3. Place(r, m) \in 0..Len(r.reliable)
  <2> DEFINE stops(e) == IF m >= r.rseq THEN e.rseq >= r.rseq /\ e.rseq <= m
                                        ELSE e.rseq >= r.rseq \/ e.rseq <= m
             T == {i \in DOMAIN r.reliable : stops(r.reliable[i])}
  <2>1. T \in SUBSET (1..Len(r.reliable))
    BY <1>1
  <2>2. Place(r, m) = Max({0} \cup T)
    BY DEF Place
  <2> HIDE DEF T
  <2>. QED BY <1>1, <1>2, <2>1, <2>2
<1>4. UnreliablePlace(r, m, u) \in 0..Len(r.unreliable)
  <2> DEFINE after(e) == IF m >= r.rseq THEN e.rseq < r.rseq \/ e.rseq > m
                                        ELSE e.rseq < r.rseq /\ e.rseq > m
             stops(e) == ~after(e) /\ (e.rseq = m => e.useq <= u)
             T == {i \in DOMAIN r.unreliable : stops(r.unreliable[i])}
  <2>1. T \in SUBSET (1..Len(r.unreliable))
    BY <1>1
  <2>2. UnreliablePlace(r, m, u) = Max({0} \cup T)
    BY DEF UnreliablePlace
  <2> HIDE DEF T
  <2>. QED BY <1>1, <1>2, <2>1, <2>2
<1>. QED BY <1>3, <1>4

LEMMA IncomingType ==
    ASSUME NEW n \in Nat, NEW c \in Cmd(n), NEW kind \in Kinds, NEW rseq \in 0..Numbers - 1,
           NEW count \in {0, 2}
    PROVE  Incoming(kind, c, rseq, count) \in Entry(n)
BY DEF Incoming, Entry, Cmd

LEMMA InsertType ==
    ASSUME NEW S, NEW list \in Seq(S), NEW place \in 0..Len(list), NEW e \in S
    PROVE  Insert(list, place, e) \in Seq(S)
BY InsertFacts DEF IsInserted

LEMMA QueueFits ==
    ASSUME NEW n \in Nat, NEW r \in Chan(n), NEW c \in Cmd(n), NEW rseq \in 0..Numbers - 1,
           NEW count \in {0, 2}, dispatched \in Seq(1..n), Waiting(r) <= MaxWaiting
    PROVE  Fits(n, QueueReliable(r, c, rseq, count))
<1> DEFINE e == Incoming(c.kind, c, rseq, count)
           q == [r EXCEPT !.reliable = Insert(r.reliable, Place(r, rseq), e)]
<1>1. Fits(n, Done(r)) /\ Fits(n, Failed(r))
  BY FitsKept
<1>2. \/ QueueReliable(r, c, rseq, count) \in {Done(r), Failed(r)}
      \/ ~(Waiting(r) >= MaxWaiting) /\ QueueReliable(r, c, rseq, count) = DispatchReliable(Done(q))
  BY DEF QueueReliable
<1>3. ASSUME ~(Waiting(r) >= MaxWaiting) PROVE Fits(n, DispatchReliable(Done(q)))
  <2>1. e \in Entry(n)
    BY IncomingType DEF Cmd
  <2>2. r.reliable \in Seq(Entry(n)) /\ Place(r, rseq) \in 0..Len(r.reliable)
    BY PlaceType DEF Chan
  <2> HIDE DEF e
  <2>3. q \in Chan(n) /\ q.reliable = Insert(r.reliable, Place(r, rseq), e)
        /\ q.unreliable = r.unreliable
    <3>1. Insert(r.reliable, Place(r, rseq), e) \in Seq(Entry(n))
      BY <2>1, <2>2, InsertType, Zenon
    <3>. QED BY <3>1 DEF Chan
  <2> HIDE DEF q
  <2>4. Fits(n, Done(q))
    BY <1>3, <2>1, <2>2, <2>3, FitsInsert
  <2>5. Done(q).out = << >>
    BY DEF Done
  <2>. QED BY <2>4, <2>5, FitsDispatch, Zenon
<1>. QED BY <1>1, <1>2, <1>3, Zenon

LEMMA TakeFits ==
    ASSUME NEW n \in Nat, NEW r \in Chan(n), NEW c \in Cmd(n), NEW p \in 0..Len(r.reliable),
           dispatched \in Seq(1..n), Waiting(r) <= MaxWaiting
    PROVE  Fits(n, TakeFragment(r, p, c))
<1> DEFINE taken == [r EXCEPT !.reliable[p].got = @ \cup {c.num}]
           list == [r.reliable EXCEPT ![p] = [r.reliable[p] EXCEPT !.got = r.reliable[p].got \cup {c.num}]]
<1>1. TakeFragment(r, p, c) \in {Done(taken), DispatchReliable(Done(taken))}
  BY DEF TakeFragment
<1>2. r.reliable \in Seq(Entry(n)) /\ Len(r.reliable) \in Nat
      /\ \A i \in 1..Len(r.reliable) : r.reliable[i] \in Entry(n)
  BY SeqFacts DEF Chan
<1>3. list \in Seq(Entry(n)) /\ Len(list) = Len(r.reliable)
  <2>1. \A e \in Entry(n) : [e EXCEPT !.got = e.got \cup {c.num}] \in Entry(n)
    BY DEF Entry, Cmd
  <2>2. CASE p = 0
    <3>1. list = r.reliable
      BY <1>2, <2>2
    <3>. QED BY <1>2, <3>1
  <2>3. CASE p # 0
    BY <1>2, <2>1, <2>3
  <2>. QED BY <2>2, <2>3
<1>4. taken \in Chan(n) /\ taken.reliable = list /\ taken.unreliable = r.unreliable
  <2>1. taken = [r EXCEPT !.reliable = list]
    BY DEF Chan
  <2> HIDE DEF list
  <2>. QED BY <1>3, <2>1 DEF Chan
<1> HIDE DEF taken, list
<1>5. Waiting(taken) = Waiting(r)
  BY <1>3, <1>4, Zenon DEF Waiting
<1>6. Fits(n, Done(taken))
  BY <1>4, <1>5, FitsKept
<1>7. Done(taken).out = << >>
  BY DEF Done
<1>8. Fits(n, DispatchReliable(Done(taken)))
  BY <1>6, <1>7, FitsDispatch, Zenon
<1>. QED BY <1>1, <1>6, <1>8

LEMMA FragmentFits ==
    ASSUME NEW n \in Nat, NEW r \in Chan(n), NEW c \in Cmd(n), dispatched \in Seq(1..n),
           Waiting(r) <= MaxWaiting
    PROVE  Fits(n, HandleSendFragment(r, c))
<1> DEFINE queued == QueueReliable(r, c, c.start, 2)
<1>1. Fits(n, Done(r)) /\ Fits(n, Failed(r))
  BY FitsKept
<1>2. Fits(n, queued)
  <2>1. c.start \in 0..Numbers - 1
    BY DEF Cmd
  <2>. QED BY <2>1, QueueFits
<1> HIDE DEF queued
<1>3. queued.r \in Chan(n) /\ Waiting(queued.r) <= MaxWaiting
  BY <1>2, FitsWaiting
<1>4. Fits(n, TakeFragment(r, Place(r, c.start), c))
  BY PlaceType, TakeFits
<1>5. Fits(n, TakeFragment(queued.r, Place(queued.r, c.start), c))
  BY <1>3, PlaceType, TakeFits
<1>6. HandleSendFragment(r, c) \in {Done(r), Failed(r), queued, TakeFragment(r, Place(r, c.start), c),
          TakeFragment(queued.r, Place(queued.r, c.start), c)}
  BY DEF HandleSendFragment, queued
<1>. QED BY <1>1, <1>2, <1>4, <1>5, <1>6

LEMMA UnreliableFits ==
    ASSUME NEW n \in Nat, NEW r \in Chan(n), NEW c \in Cmd(n), dispatched \in Seq(1..n),
           Waiting(r) <= MaxWaiting
    PROVE  Fits(n, HandleSendUnreliable(r, c))
<1> DEFINE e == Incoming(c.kind, c, c.rseq, 0)
           p == UnreliablePlace(r, c.rseq, c.useq)
           q == [r EXCEPT !.unreliable = Insert(r.unreliable, p, e)]
<1>1. Fits(n, Done(r)) /\ Fits(n, Failed(r))
  BY FitsKept
<1>2. \/ HandleSendUnreliable(r, c) \in {Done(r), Failed(r)}
      \/ ~(Waiting(r) >= MaxWaiting) /\ HandleSendUnreliable(r, c) = DispatchUnreliable(Done(q))
  BY DEF HandleSendUnreliable
<1>3. ASSUME ~(Waiting(r) >= MaxWaiting) PROVE Fits(n, DispatchUnreliable(Done(q)))
  <2>1. e \in Entry(n)
    BY IncomingType DEF Cmd
  <2>2. r.unreliable \in Seq(Entry(n)) /\ p \in 0..Len(r.unreliable)
    BY PlaceType DEF Chan
  <2> HIDE DEF e, p
  <2>3. q \in Chan(n) /\ q.unreliable = Insert(r.unreliable, p, e) /\ q.reliable = r.reliable
    <3>1. Insert(r.unreliable, p, e) \in Seq(Entry(n))
      BY <2>1, <2>2, InsertType, Zenon
    <3>. QED BY <3>1 DEF Chan
  <2> HIDE DEF q
  <2>4. Fits(n, Done(q))
    BY <1>3, <2>1, <2>2, <2>3, FitsInsert
  <2>. QED BY <2>4, FitsDispatch, Zenon
<1>. QED BY <1>1, <1>2, <1>3, Zenon

LEMMA AppendInsert ==
    ASSUME NEW S, NEW list \in Seq(S), NEW e \in S
    PROVE  Append(list, e) = Insert(list, Len(list), e)
<1>1. PICK k \in Nat : k = Len(list)
  BY SeqFacts
<1>2. (k + 1) - 1 = k
  OBVIOUS
<1>3. SubSeq(list, 1, k) = list /\ SubSeq(list, k + 1, k) = << >>
  BY <1>1
<1>4. /\ list \o <<e>> \in Seq(S) /\ Append(list, e) = list \o <<e>>
      /\ \A t \in Seq(S) : t \o << >> = t
  OBVIOUS
<1>5. Insert(list, k, e) = (SubSeq(list, 1, k) \o <<e>>) \o SubSeq(list, k + 1, k)
  BY <1>1, <1>2, Zenon DEF Insert, InsertAt
<1>. QED BY <1>1, <1>3, <1>4, <1>5, Zenon

LEMMA UnsequencedFits ==
    ASSUME NEW n \in Nat, NEW r \in Chan(n), NEW c \in Cmd(n), dispatched \in Seq(1..n),
           Waiting(r) <= MaxWaiting
    PROVE  Fits(n, HandleSendUnsequenced(r, c))
<1> DEFINE index == c.useq % UnseqWindow
           q == IF c.useq - index # r.group THEN [r EXCEPT !.group = c.useq - index, !.seen = {}] ELSE r
           e == Incoming(c.kind, c, 0, 0)
           q1 == [q EXCEPT !.unreliable = Append(q.unreliable, e)]
           queued == DispatchUnreliable(Done(q1))
           marked == [queued EXCEPT !.r.seen = queued.r.seen \cup {index}]
<1>1. \/ HandleSendUnsequenced(r, c) \in {Done(r), Failed(q)}
      \/ ~(Waiting(q) >= MaxWaiting) /\ HandleSendUnsequenced(r, c) = marked
  BY DEF HandleSendUnsequenced
<1>2. c.useq \in Nat /\ index \in Int
  BY LimitsAssumption DEF Cmd
<1> HIDE DEF index
<1>3. /\ q \in Chan(n) /\ q.unreliable = r.unreliable /\ q.reliable = r.reliable
  <2>1. PICK g \in Int : g = c.useq - index
    BY <1>2
  <2>2. \A k \in Int : [r EXCEPT !.group = k, !.seen = {}] \in Chan(n)
    BY DEF Chan
  <2>3. \A k \in Int : /\ [r EXCEPT !.group = k, !.seen = {}].unreliable = r.unreliable
                       /\ [r EXCEPT !.group = k, !.seen = {}].reliable = r.reliable
    BY DEF Chan
  <2>. QED BY <2>1, <2>2, <2>3, Zenon
<1> HIDE DEF q
<1>4. Waiting(q) = Waiting(r)
  BY <1>3, Zenon DEF Waiting
<1>5. Fits(n, Done(r)) /\ Fits(n, Failed(q))
  BY <1>3, <1>4, FitsKept
<1>6. ASSUME ~(Waiting(q) >= MaxWaiting) PROVE Fits(n, marked)
  <2>1. e \in Entry(n)
    <3>1. 0 \in 0..Numbers - 1
      BY Consts
    <3>. QED BY <3>1, IncomingType DEF Cmd
  <2> HIDE DEF e
  <2>2. q.unreliable \in Seq(Entry(n)) /\ Len(q.unreliable) \in Nat
    BY <1>3, ChanFacts
  <2>3. Append(q.unreliable, e) = Insert(q.unreliable, Len(q.unreliable), e)
    BY <2>1, <2>2, AppendInsert
  <2>4. /\ q1 \in Chan(n) /\ q1.unreliable = Insert(q.unreliable, Len(q.unreliable), e)
        /\ q1.reliable = q.reliable
    <3>1. Append(q.unreliable, e) \in Seq(Entry(n))
      BY <2>1, <2>2
    <3>2. q1 \in Chan(n) /\ q1.unreliable = Append(q.unreliable, e) /\ q1.reliable = q.reliable
      BY <1>3, <3>1 DEF Chan
    <3>. QED BY <2>3, <3>2, Zenon
  <2> HIDE DEF q1
  <2>5. Fits(n, Done(q1))
    <3>1. Len(q.unreliable) \in 0..Len(q.unreliable)
      BY <2>2
    <3>. QED BY <1>3, <1>6, <2>1, <2>4, <3>1, FitsInsert
  <2>6. Fits(n, queued)
    BY <2>5, FitsDispatch, Zenon
  <2> HIDE DEF queued
  <2>7. queued \in Res(n)
    BY <2>6, Zenon DEF Fits
  <2>8. /\ marked \in Res(n) /\ marked.out = queued.out
        /\ marked.r.reliable = queued.r.reliable /\ marked.r.unreliable = queued.r.unreliable
    <3>1. queued.r \in Chan(n) /\ queued.r.seen \in SUBSET Int
      BY <2>7 DEF Res, Chan
    <3>2. PICK m \in Chan(n) : /\ m = [queued.r EXCEPT !.seen = queued.r.seen \cup {index}]
                               /\ m.reliable = queued.r.reliable /\ m.unreliable = queued.r.unreliable
      <4>1. queued.r.seen \cup {index} \in SUBSET Int
        BY <1>2, <3>1
      <4>2. \A t \in SUBSET Int : [queued.r EXCEPT !.seen = t] \in Chan(n)
        BY <3>1 DEF Chan
      <4>3. \A t : /\ [queued.r EXCEPT !.seen = t].reliable = queued.r.reliable
                   /\ [queued.r EXCEPT !.seen = t].unreliable = queued.r.unreliable
        BY <3>1 DEF Chan
      <4>. QED BY <4>1, <4>2, <4>3, Zenon
    <3>3. marked = [queued EXCEPT !.r = m]
      BY <2>7, <3>2 DEF Res
    <3>. QED BY <2>7, <3>2, <3>3 DEF Res
  <2>9. Size(marked) = Size(queued)
    BY <2>8, Zenon DEF Size
  <2>. QED BY <2>6, <2>8, <2>9 DEF Fits
<1>. QED BY <1>1, <1>5, <1>6, Zenon

LEMMA HandleFits ==
    ASSUME NEW n \in Nat, NEW r \in Chan(n), NEW c \in Cmd(n), dispatched \in Seq(1..n),
           Waiting(r) <= MaxWaiting
    PROVE  Fits(n, Handle(r, c))
<1>1. CASE c.kind = "RELIABLE"
  <2>1. Handle(r, c) = QueueReliable(r, c, c.rseq, 0)
    BY <1>1 DEF Handle, HandleSendReliable
  <2>2. c.rseq \in 0..Numbers - 1
    BY DEF Cmd
  <2>. QED BY <2>1, <2>2, QueueFits
<1>2. CASE c.kind = "FRAGMENT"
  BY <1>2, FragmentFits DEF Handle
<1>3. CASE c.kind = "UNRELIABLE"
  BY <1>3, UnreliableFits DEF Handle
<1>4. CASE c.kind = "UNSEQUENCED"
  BY <1>4, UnsequencedFits DEF Handle
<1>5. c.kind \in Kinds
  BY DEF Cmd
<1>. QED BY <1>1, <1>2, <1>3, <1>4, <1>5 DEF Kinds

-----------------------------------------------------------------------------
(***************************************************************************)
(* Types.                                                                  *)
(***************************************************************************)
SenderTypes(n) ==
    /\ submitted \in 0..n /\ stream \in Seq(1..n)
    /\ numbers \in [reliable : 0..Numbers - 1, unreliable : 0..UnreliableLimit, group : Nat]
    /\ outgoing \in Seq(Out(n)) /\ sent \in Seq(Cmd(n)) /\ unreliable \in Seq(Cmd(n))
    /\ windows \in [0..Windows - 1 -> Nat] /\ used \in SUBSET (0..Windows - 1)
    /\ inTransit \in 0..MaxTransit /\ inTransit = Len(sent)
NetTypes(n) == net \in SUBSET Cmd(n) /\ acks \in SUBSET (0..Numbers - 1)
ReceiverTypes(n) ==
    /\ in \in Chan(n) /\ dispatched \in Seq(1..n) /\ delivered \in Seq(1..n)
    /\ Waiting(in) <= MaxWaiting
Types ==
    /\ script \in Scripts
    /\ SenderTypes(Len(script)) /\ NetTypes(Len(script)) /\ ReceiverTypes(Len(script))

LEMMA ScriptLen == ASSUME script \in Scripts PROVE Len(script) \in Nat
BY ScriptsAssumption

\* The first of the outgoing commands, as many as were tried before.
LEMMA TriedFacts ==
    ASSUME NEW n \in Nat, outgoing \in Seq(Out(n))
    PROVE  /\ TriedCount \in 0..Len(outgoing)
           /\ \A i \in 1..TriedCount : outgoing[i].tried
           /\ TriedCount < Len(outgoing) => ~outgoing[TriedCount + 1].tried
<1> DEFINE G == {i \in Nat : outgoing[i].tried}
           k == Len(outgoing)
           m == Max({j \in 0..k : \A i \in 1..j : i \in G})
           Q(t) == /\ \A i \in 1..t : outgoing[i].tried
                   /\ t < Len(outgoing) => ~outgoing[t + 1].tried
<1>1. k \in Nat
  BY SeqFacts
<1>2. m \in 0..k /\ (\A i \in 1..m : i \in G) /\ (m < k => m + 1 \notin G)
  <2> HIDE DEF G, k
  <2>. QED BY <1>1, Beginning
<1>3. \E t \in 0..Len(outgoing) : Q(t)
  <2>1. \A i \in 1..m : outgoing[i].tried
    <3> HIDE DEF m, k
    <3>. QED BY <1>2
  <2>2. m < k => ~outgoing[m + 1].tried
    <3>1. m < k => m + 1 \in Nat
      <4> HIDE DEF m, k
      <4>. QED BY <1>1, <1>2
    <3> HIDE DEF m, k
    <3>. QED BY <1>2, <3>1
  <2> HIDE DEF m
  <2>. QED BY <1>2, <2>1, <2>2
<1>4. TriedCount = CHOOSE t \in 0..Len(outgoing) : Q(t)
  BY Zenon DEF TriedCount
<1> HIDE DEF Q
<1>5. TriedCount \in 0..Len(outgoing) /\ Q(TriedCount)
  BY <1>3, <1>4, Zenon
<1>. QED BY <1>5, Zenon DEF Q

LEMMA TypesInit ==
    ASSUME Init
    PROVE  Types
<1>1. script \in Scripts /\ Len(script) \in Nat
  BY ScriptLen DEF Init
<1>2. PICK n \in Nat : n = Len(script)
  BY <1>1
<1>3. /\ Windows \in Nat /\ Numbers \in Nat \ {0} /\ Start \in 0..Numbers - 1
      /\ MaxTransit \in Nat /\ UnreliableLimit \in Nat /\ MaxWaiting \in Nat
  BY Consts, LimitsAssumption
<1>4. SenderTypes(n)
  <2>1. Len(<< >>) = 0 /\ \A S : << >> \in Seq(S)
    OBVIOUS
  <2>2. numbers \in [reliable : 0..Numbers - 1, unreliable : 0..UnreliableLimit, group : Nat]
    BY <1>3 DEF Init
  <2>3. /\ submitted \in 0..n /\ inTransit \in 0..MaxTransit /\ inTransit = 0
        /\ windows \in [0..Windows - 1 -> Nat] /\ used \in SUBSET (0..Windows - 1)
    BY <1>3 DEF Init
  <2>4. stream = << >> /\ outgoing = << >> /\ sent = << >> /\ unreliable = << >>
    BY DEF Init
  <2>. QED BY <2>1, <2>2, <2>3, <2>4, Zenon DEF SenderTypes
<1>5. NetTypes(n)
  BY DEF NetTypes, Init
<1>6. ReceiverTypes(n)
  <2>1. in \in Chan(n)
    BY <1>3 DEF Init, Chan
  <2>2. dispatched = << >> /\ delivered = << >> /\ in.reliable = << >> /\ in.unreliable = << >>
    BY DEF Init
  <2>3. Len(<< >>) = 0 /\ \A S : << >> \in Seq(S)
    OBVIOUS
  <2>4. Waiting(in) = 0 + 0 + 0
    BY <2>2, <2>3, Zenon DEF Waiting
  <2>. QED BY <1>3, <2>1, <2>2, <2>3, <2>4 DEF ReceiverTypes
<1>. QED BY <1>1, <1>2, <1>4, <1>5, <1>6, Zenon DEF Types

\* What a new reliable packet adds to the outgoing commands.
NewCommands(pkt, n) ==
    [i \in 1..n |->
        [tried |-> FALSE,
         cmd |-> Command(IF n = 1 THEN "RELIABLE" ELSE "FRAGMENT",
                         (numbers.reliable + i) % Numbers, 0, Next16(numbers.reliable), i, pkt)]]

LEMMA SetupFacts ==
    ASSUME NEW pkt, NEW k, SetupReliable(pkt, k)
    PROVE  /\ outgoing' = outgoing \o NewCommands(pkt, k)
           /\ numbers' = [numbers EXCEPT !.reliable = (numbers.reliable + k) % Numbers, !.unreliable = 0]
           /\ stream' = Append(stream, pkt) /\ unreliable' = unreliable
BY DEF SetupReliable, NewCommands

LEMMA NewCommandsType ==
    ASSUME NEW n \in Nat, NEW pkt \in 1..n, NEW k \in {1, 2}, numbers.reliable \in 0..Numbers - 1
    PROVE  /\ NewCommands(pkt, k) \in Seq(Out(n)) /\ Len(NewCommands(pkt, k)) = k
           /\ (numbers.reliable + k) % Numbers \in 0..Numbers - 1
<1>1. Numbers \in Nat \ {0} /\ \A m \in Nat : m % Numbers \in 0..Numbers - 1
  <2>1. Numbers \in Nat \ {0}
    BY Consts
  <2>. QED BY <2>1
<1>2. \A i \in 1..k : (numbers.reliable + i) % Numbers \in 0..Numbers - 1
  BY <1>1
<1>3. Next16(numbers.reliable) \in 0..Numbers - 1
  BY <1>1 DEF Next16
<1>4. \A i \in 1..k : i \in 0..2
  OBVIOUS
<1> DEFINE kind == IF k = 1 THEN "RELIABLE" ELSE "FRAGMENT"
           e(i) == [tried |-> FALSE,
                    cmd |-> Command(kind, (numbers.reliable + i) % Numbers, 0,
                                    Next16(numbers.reliable), i, pkt)]
<1>5. kind \in Kinds
  BY DEF Kinds
<1> HIDE DEF kind
<1>6. \A i \in 1..k : e(i) \in Out(n)
  BY <1>2, <1>3, <1>4, <1>5 DEF Out, Cmd, Command
<1>7. NewCommands(pkt, k) = [i \in 1..k |-> e(i)]
  BY DEF NewCommands, kind
<1> HIDE DEF e
<1>8. [i \in 1..k |-> e(i)] \in Seq(Out(n)) /\ Len([i \in 1..k |-> e(i)]) = k
  BY <1>6
<1>9. (numbers.reliable + k) % Numbers \in 0..Numbers - 1
  BY <1>1
<1>. QED BY <1>7, <1>8, <1>9, Zenon

LEMMA TypesSend ==
    ASSUME Types, Send
    PROVE  Types'
<1>1. PICK n \in Nat : n = Len(script)
  BY ScriptLen DEF Types
<1>2. SenderTypes(n) /\ NetTypes(n) /\ ReceiverTypes(n) /\ script \in Scripts
  BY <1>1, Zenon DEF Types
<1>3. script' = script /\ NetTypes(n)' /\ ReceiverTypes(n)'
  BY <1>2 DEF Send, NetTypes, ReceiverTypes, receiver, Waiting
<1>4. submitted' = submitted + 1 /\ submitted' \in 1..n /\ submitted' \in 0..n
  BY <1>1, <1>2 DEF Send, SenderTypes
<1>5. UNCHANGED <<sent, windows, used, inTransit>>
  BY Zenon DEF Send
<1>6. \/ \E k \in {1, 2} : SetupReliable(submitted', k)
      \/ SetupUnsequenced(submitted')
      \/ numbers.unreliable < UnreliableLimit /\ SetupUnreliable(submitted')
  <2>1. 1 \in {1, 2} /\ 2 \in {1, 2}
    OBVIOUS
  <2>. QED BY <2>1, Zenon DEF Send
<1>7. /\ numbers.reliable \in 0..Numbers - 1 /\ numbers.unreliable \in 0..UnreliableLimit
      /\ numbers.group \in Nat /\ UnseqNumbers \in Nat \ {0}
      /\ numbers \in [reliable : 0..Numbers - 1, unreliable : 0..UnreliableLimit, group : Nat]
  <2>1. \A a, b \in Nat \ {0} : 2 * a * b \in Nat \ {0}
    <3>1. \A a, b \in Nat \ {0} : a * b \in Nat \ {0}
      OBVIOUS
    <3>2. \A a \in Nat \ {0} : 2 * a \in Nat \ {0}
      OBVIOUS
    <3>. QED BY <3>1, <3>2, Zenon
  <2>2. UnseqNumbers \in Nat \ {0}
    BY <2>1, LimitsAssumption DEF UnseqNumbers
  <2>. QED BY <1>2, <2>2 DEF SenderTypes
<1>8. CASE \E k \in {1, 2} : SetupReliable(submitted', k)
  <2>1. PICK k \in {1, 2} : SetupReliable(submitted', k)
    BY <1>8
  <2>2. /\ outgoing' = outgoing \o NewCommands(submitted', k)
        /\ numbers' = [numbers EXCEPT !.reliable = (numbers.reliable + k) % Numbers, !.unreliable = 0]
        /\ stream' = Append(stream, submitted') /\ unreliable' = unreliable
    BY <2>1, SetupFacts
  <2>3. /\ NewCommands(submitted', k) \in Seq(Out(n))
        /\ (numbers.reliable + k) % Numbers \in 0..Numbers - 1
    BY <1>4, <1>7, NewCommandsType
  <2>4. outgoing' \in Seq(Out(n))
    BY <1>2, <2>2, <2>3 DEF SenderTypes
  <2>5. numbers' \in [reliable : 0..Numbers - 1, unreliable : 0..UnreliableLimit, group : Nat]
    <3>1. PICK g \in 0..Numbers - 1 : g = (numbers.reliable + k) % Numbers
      BY <2>3
    <3>2. 0 \in 0..UnreliableLimit
      BY LimitsAssumption
    <3>3. numbers' = [numbers EXCEPT !.reliable = g, !.unreliable = 0]
      BY <2>2, <3>1
    <3>. QED BY <1>7, <3>2, <3>3
  <2>6. stream' \in Seq(1..n)
    BY <1>2, <1>4, <2>2 DEF SenderTypes
  <2>7. SenderTypes(n)'
    BY <1>2, <1>4, <1>5, <2>2, <2>4, <2>5, <2>6 DEF SenderTypes
  <2>. QED BY <1>1, <1>2, <1>3, <2>7 DEF Types
<1>9. CASE SetupUnsequenced(submitted')
  <2>1. (numbers.group + 1) % UnseqNumbers \in Nat
    BY <1>7
  <2>2. numbers' = [numbers EXCEPT !.group = (numbers.group + 1) % UnseqNumbers]
    BY <1>9 DEF SetupUnsequenced
  <2>3. /\ numbers' \in [reliable : 0..Numbers - 1, unreliable : 0..UnreliableLimit, group : Nat]
        /\ numbers'.group \in Nat
    BY <1>7, <2>1, <2>2
  <2>4. Command("UNSEQUENCED", 0, numbers'.group, 0, 0, submitted') \in Cmd(n)
    <3>1. 0 \in 0..Numbers - 1
      BY Consts
    <3>. QED BY <1>4, <2>3, <3>1 DEF Cmd, Command, Kinds
  <2>5. unreliable' \in Seq(Cmd(n)) /\ outgoing' = outgoing /\ stream' = stream
    BY <1>2, <1>9, <2>4 DEF SetupUnsequenced, SenderTypes
  <2>6. SenderTypes(n)'
    BY <1>2, <1>4, <1>5, <2>3, <2>5 DEF SenderTypes
  <2>. QED BY <1>1, <1>2, <1>3, <2>6 DEF Types
<1>10. CASE numbers.unreliable < UnreliableLimit /\ SetupUnreliable(submitted')
  <2>1. numbers.unreliable + 1 \in 0..UnreliableLimit /\ numbers.unreliable + 1 \in Nat
    BY <1>7, <1>10, LimitsAssumption
  <2>2. numbers' = [numbers EXCEPT !.unreliable = numbers.unreliable + 1]
    BY <1>10 DEF SetupUnreliable
  <2>3. numbers' \in [reliable : 0..Numbers - 1, unreliable : 0..UnreliableLimit, group : Nat]
    BY <1>7, <2>1, <2>2
  <2>4. Command("UNRELIABLE", numbers.reliable, numbers.unreliable + 1, 0, 0, submitted') \in Cmd(n)
    <3>1. 0 \in 0..Numbers - 1
      BY Consts
    <3>. QED BY <1>4, <1>7, <2>1, <3>1 DEF Cmd, Command, Kinds
  <2>5. unreliable' \in Seq(Cmd(n)) /\ outgoing' = outgoing /\ stream' = stream
    BY <1>2, <1>10, <2>4 DEF SetupUnreliable, SenderTypes
  <2>6. SenderTypes(n)'
    BY <1>2, <1>4, <1>5, <2>3, <2>5 DEF SenderTypes
  <2>. QED BY <1>1, <1>2, <1>3, <2>6 DEF Types
<1>. QED BY <1>6, <1>8, <1>9, <1>10

LEMMA HeadTail ==
    ASSUME NEW S, NEW s \in Seq(S), s # << >>
    PROVE  /\ Head(s) \in S /\ Head(s) = s[1] /\ Tail(s) \in Seq(S) /\ Len(Tail(s)) = Len(s) - 1
           /\ Len(s) \in Nat /\ Len(s) >= 1 /\ \A i \in 1..Len(s) - 1 : Tail(s)[i] = s[i + 1]
OBVIOUS

LEMMA TransmitType ==
    ASSUME NEW n \in Nat, net \in SUBSET Cmd(n), NEW c \in Cmd(n), Transmit(c)
    PROVE  net' \in SUBSET Cmd(n)
BY DEF Transmit

\* The window of a command.
LEMMA WindowType ==
    ASSUME NEW n \in 0..Numbers - 1
    PROVE  WindowOf(n) \in 0..Windows - 1
<1>1. n \in Nat /\ Numbers \in Nat \ {0}
  BY Consts
<1>2. NumOf(n) = n
  BY <1>1 DEF NumOf
<1>. QED BY <1>1, <1>2, Turns

LEMMA TypesSendReliable ==
    ASSUME Types, SendReliable
    PROVE  Types'
<1>1. PICK n \in Nat : n = Len(script)
  BY ScriptLen DEF Types
<1>2. SenderTypes(n) /\ NetTypes(n) /\ ReceiverTypes(n) /\ script \in Scripts
  BY <1>1, Zenon DEF Types
<1>3. script' = script /\ ReceiverTypes(n)'
  BY <1>2 DEF SendReliable, ReceiverTypes, receiver, Waiting
<1> DEFINE o == Head(outgoing)
           w == WindowOf(o.cmd.rseq)
<1>4. /\ outgoing # << >> /\ inTransit + 1 <= MaxTransit
      /\ \/ UNCHANGED <<windows, used>>
         \/ used' = used \cup {w} /\ windows' = [windows EXCEPT ![w] = windows[w] + 1]
      /\ outgoing' = Tail(outgoing) /\ sent' = Append(sent, o.cmd) /\ inTransit' = inTransit + 1
      /\ Transmit(o.cmd) /\ UNCHANGED <<submitted, stream, numbers, unreliable, acks>>
  BY DEF SendReliable
<1>5. o \in Out(n) /\ outgoing' \in Seq(Out(n))
  BY <1>2, <1>4, HeadTail DEF SenderTypes
<1>6. o.cmd \in Cmd(n) /\ o.cmd.rseq \in 0..Numbers - 1
  BY <1>5 DEF Out, Cmd
<1> HIDE DEF o
<1>7. w \in 0..Windows - 1
  BY <1>6, WindowType
<1> HIDE DEF w
<1>8. windows' \in [0..Windows - 1 -> Nat] /\ used' \in SUBSET (0..Windows - 1)
  <2>1. /\ windows \in [0..Windows - 1 -> Nat] /\ used \in SUBSET (0..Windows - 1)
        /\ windows[w] + 1 \in Nat
    <3>1. windows \in [0..Windows - 1 -> Nat] /\ used \in SUBSET (0..Windows - 1)
      BY <1>2, Zenon DEF SenderTypes
    <3>2. windows[w] \in Nat
      BY <1>7, <3>1
    <3>. QED BY <3>1, <3>2
  <2>2. CASE UNCHANGED <<windows, used>>
    <3>1. windows' = windows /\ used' = used
      BY <2>2
    <3>. QED BY <2>1, <3>1, Zenon
  <2>3. CASE used' = used \cup {w} /\ windows' = [windows EXCEPT ![w] = windows[w] + 1]
    <3>1. PICK k \in Nat : k = windows[w] + 1
      BY <2>1
    <3>2. windows' = [windows EXCEPT ![w] = k]
      BY <2>3, <3>1
    <3>3. windows' \in [0..Windows - 1 -> Nat]
      BY <1>7, <2>1, <3>2
    <3>4. used' \in SUBSET (0..Windows - 1)
      BY <1>7, <2>1, <2>3
    <3>. QED BY <3>3, <3>4
  <2>. QED BY <1>4, <2>2, <2>3
<1>9. sent' \in Seq(Cmd(n)) /\ Len(sent') = Len(sent) + 1
  BY <1>2, <1>4, <1>6 DEF SenderTypes
<1>10. inTransit' \in 0..MaxTransit /\ inTransit' = Len(sent')
  BY <1>2, <1>4, <1>9, LimitsAssumption DEF SenderTypes
<1>11. SenderTypes(n)'
  BY <1>2, <1>4, <1>5, <1>8, <1>9, <1>10 DEF SenderTypes
<1>12. NetTypes(n)'
  BY <1>2, <1>4, <1>6, TransmitType DEF NetTypes
<1>. QED BY <1>1, <1>2, <1>3, <1>11, <1>12 DEF Types

LEMMA TypesSendUnreliable ==
    ASSUME Types, SendUnreliable
    PROVE  Types'
<1>1. PICK n \in Nat : n = Len(script)
  BY ScriptLen DEF Types
<1>2. SenderTypes(n) /\ NetTypes(n) /\ ReceiverTypes(n) /\ script \in Scripts
  BY <1>1, Zenon DEF Types
<1>3. script' = script /\ ReceiverTypes(n)'
  BY <1>2 DEF SendUnreliable, ReceiverTypes, receiver, Waiting
<1>4. /\ unreliable # << >> /\ unreliable' = Tail(unreliable) /\ Transmit(Head(unreliable))
      /\ UNCHANGED <<submitted, stream, numbers, outgoing, sent, windows, used, inTransit, acks>>
  BY DEF SendUnreliable
<1>5. Head(unreliable) \in Cmd(n) /\ unreliable' \in Seq(Cmd(n))
  BY <1>2, <1>4, HeadTail DEF SenderTypes
<1>6. SenderTypes(n)'
  BY <1>2, <1>4, <1>5 DEF SenderTypes
<1>7. NetTypes(n)'
  BY <1>2, <1>4, <1>5, TransmitType DEF NetTypes
<1>. QED BY <1>1, <1>2, <1>3, <1>6, <1>7 DEF Types

\* The commands of list, all of them tried before.
Retried(list) == [i \in DOMAIN list |-> [tried |-> TRUE, cmd |-> list[i]]]

LEMMA RetriedFacts ==
    ASSUME NEW n \in Nat, NEW list \in Seq(Cmd(n))
    PROVE  /\ Retried(list) \in Seq(Out(n)) /\ Len(Retried(list)) = Len(list)
           /\ \A i \in 1..Len(list) : Retried(list)[i].tried = TRUE /\ Retried(list)[i].cmd = list[i]
<1>1. Len(list) \in Nat /\ DOMAIN list = 1..Len(list) /\ \A i \in 1..Len(list) : list[i] \in Cmd(n)
  BY SeqFacts
<1>2. \A i \in 1..Len(list) : [tried |-> TRUE, cmd |-> list[i]] \in Out(n)
  BY <1>1 DEF Out
<1>3. Retried(list) = [i \in 1..Len(list) |-> [tried |-> TRUE, cmd |-> list[i]]]
  BY <1>1, Zenon DEF Retried
<1>. QED BY <1>1, <1>2, <1>3

LEMMA TypesCheckTimeouts ==
    ASSUME Types, CheckTimeouts
    PROVE  Types'
<1>1. PICK n \in Nat : n = Len(script)
  BY ScriptLen DEF Types
<1>2. SenderTypes(n) /\ NetTypes(n) /\ ReceiverTypes(n) /\ script \in Scripts
  BY <1>1, Zenon DEF Types
<1>3. script' = script /\ ReceiverTypes(n)' /\ NetTypes(n)'
  BY <1>2 DEF CheckTimeouts, ReceiverTypes, NetTypes, receiver, Waiting
<1>4. UNCHANGED <<submitted, stream, numbers, unreliable, windows, used>>
  BY DEF CheckTimeouts
<1>5. /\ outgoing \in Seq(Out(n)) /\ sent \in Seq(Cmd(n)) /\ inTransit \in 0..MaxTransit
      /\ inTransit = Len(sent) /\ MaxTransit \in Nat
  BY <1>2, LimitsAssumption DEF SenderTypes
<1>6. CASE /\ outgoing' = Retried(sent) \o outgoing /\ sent' = << >> /\ inTransit' = 0
  <2>1. outgoing' \in Seq(Out(n))
    <3>1. PICK t \in Seq(Out(n)) : t = Retried(sent)
      BY <1>5, RetriedFacts
    <3>. QED BY <1>5, <1>6, <3>1
  <2>2. sent' \in Seq(Cmd(n)) /\ inTransit' = Len(sent') /\ inTransit' \in 0..MaxTransit
    BY <1>5, <1>6
  <2>3. SenderTypes(n)'
    BY <1>2, <1>4, <2>1, <2>2 DEF SenderTypes
  <2>. QED BY <1>1, <1>2, <1>3, <2>3 DEF Types
<1>7. CASE \E i \in DOMAIN sent :
             /\ outgoing' = <<[tried |-> TRUE, cmd |-> sent[i]]>> \o outgoing
             /\ sent' = RemoveAt(sent, i) /\ inTransit' = inTransit - 1
  <2>1. PICK i \in 1..Len(sent) :
             /\ outgoing' = <<[tried |-> TRUE, cmd |-> sent[i]]>> \o outgoing
             /\ sent' = RemoveAt(sent, i) /\ inTransit' = inTransit - 1
    BY <1>5, <1>7, SeqFacts
  <2>2. sent[i] \in Cmd(n)
    BY <1>5, <2>1
  <2>3. [tried |-> TRUE, cmd |-> sent[i]] \in Out(n)
    BY <2>2 DEF Out
  <2>4. outgoing' \in Seq(Out(n))
    BY <1>5, <2>1, <2>3
  <2>5. sent' \in Seq(Cmd(n)) /\ Len(sent') = Len(sent) - 1
    BY <1>5, <2>1, RemovedAt DEF IsRemoved
  <2>6. inTransit' = Len(sent') /\ inTransit' \in 0..MaxTransit
    BY <1>5, <2>1, <2>5
  <2>7. SenderTypes(n)'
    BY <1>2, <1>4, <2>4, <2>5, <2>6 DEF SenderTypes
  <2>. QED BY <1>1, <1>2, <1>3, <2>7 DEF Types
<1>. QED BY <1>6, <1>7, Zenon DEF CheckTimeouts, Retried

LEMMA ReleaseFacts ==
    ASSUME windows \in [0..Windows - 1 -> Nat], used \in SUBSET (0..Windows - 1),
           NEW w \in 0..Windows - 1, NEW n, w = WindowOf(n), ReleaseWindow(n)
    PROVE  /\ windows' \in [0..Windows - 1 -> Nat] /\ used' \in SUBSET (0..Windows - 1)
           /\ \A v \in 0..Windows - 1 : v # w => windows'[v] = windows[v]
           /\ windows[w] = 0 => windows' = windows /\ used' = used
           /\ windows[w] # 0 => /\ windows'[w] = windows[w] - 1
                                /\ used' = IF windows'[w] = 0 THEN used \ {w} ELSE used
<1>1. CASE windows[w] = 0
  <2>1. windows' = windows /\ used' = used
    BY <1>1, Zenon DEF ReleaseWindow
  <2>. QED BY <1>1, <2>1, Zenon
<1>2. CASE windows[w] # 0
  <2>1. /\ windows' = [windows EXCEPT ![w] = windows[w] - 1]
        /\ used' = IF windows'[w] = 0 THEN used \ {w} ELSE used
    BY <1>2, Zenon DEF ReleaseWindow
  <2>2. windows[w] \in Nat
    OBVIOUS
  <2>3. PICK k \in Nat : k = windows[w] - 1
    BY <1>2, <2>2
  <2>4. windows' = [windows EXCEPT ![w] = k]
    BY <2>1, <2>3, Zenon
  <2>5. /\ windows' \in [0..Windows - 1 -> Nat] /\ windows'[w] = k
        /\ \A v \in 0..Windows - 1 : v # w => windows'[v] = windows[v]
    BY <2>4
  <2>6. used' \in SUBSET (0..Windows - 1)
    BY <2>1
  <2>. QED BY <1>2, <2>1, <2>3, <2>5, <2>6, Zenon
<1>. QED BY <1>1, <1>2

\* The three cases of an acknowledgement: the command it names was sent, or
\* waits to be sent again, or is unknown.
AckSent(n, i) ==
    /\ i \in 1..Len(sent) /\ sent[i].rseq = n
    /\ sent' = RemoveAt(sent, i) /\ inTransit' = inTransit - 1 /\ outgoing' = outgoing
    /\ ReleaseWindow(n)
AckTried(n, i) ==
    /\ i \in 1..TriedCount /\ outgoing[i].cmd.rseq = n
    /\ outgoing' = RemoveAt(outgoing, i) /\ sent' = sent /\ inTransit' = inTransit
    /\ ReleaseWindow(n)

LEMMA AckFacts ==
    ASSUME NEW n, HandleAcknowledge(n), NEW S, sent \in Seq(S)
    PROVE  /\ acks' = acks \ {n}
           /\ UNCHANGED <<script, submitted, stream, numbers, unreliable, net, in, dispatched, delivered>>
           /\ \/ \E i \in 1..Len(sent) : AckSent(n, i)
              \/ \E i \in 1..TriedCount : AckTried(n, i)
              \/ /\ UNCHANGED <<sent, outgoing, inTransit, windows, used>>
                 /\ \A i \in 1..Len(sent) : sent[i].rseq # n
<1> DEFINE inSent == {i \in DOMAIN sent : sent[i].rseq = n}
           inOut  == {i \in 1..TriedCount : outgoing[i].cmd.rseq = n}
           a == CHOOSE i \in inSent : TRUE
           b == CHOOSE i \in inOut : TRUE
<1>1. DOMAIN sent = 1..Len(sent)
  BY SeqFacts
<1>2. inSent # {} => a \in 1..Len(sent) /\ sent[a].rseq = n
  BY <1>1
<1>3. inOut # {} => b \in 1..TriedCount /\ outgoing[b].cmd.rseq = n
  OBVIOUS
<1>4. \/ /\ inSent # {} /\ sent' = RemoveAt(sent, a) /\ inTransit' = inTransit - 1
         /\ ReleaseWindow(n) /\ outgoing' = outgoing
      \/ /\ inOut # {} /\ outgoing' = RemoveAt(outgoing, b) /\ ReleaseWindow(n)
         /\ sent' = sent /\ inTransit' = inTransit
      \/ inSent = {} /\ UNCHANGED <<sent, outgoing, inTransit, windows, used>>
  BY DEF HandleAcknowledge
<1>5. inSent = {} => \A i \in 1..Len(sent) : sent[i].rseq # n
  BY <1>1
<1>6. /\ acks' = acks \ {n}
      /\ UNCHANGED <<script, submitted, stream, numbers, unreliable, net, in, dispatched, delivered>>
  BY DEF HandleAcknowledge, receiver
<1> HIDE DEF inSent, inOut, a, b
<1>. QED BY <1>2, <1>3, <1>4, <1>5, <1>6, Zenon DEF AckSent, AckTried

LEMMA TypesHandleAcknowledge ==
    ASSUME Types, NEW m \in acks, HandleAcknowledge(m)
    PROVE  Types'
<1>1. PICK n \in Nat : n = Len(script)
  BY ScriptLen DEF Types
<1>2. SenderTypes(n) /\ NetTypes(n) /\ ReceiverTypes(n) /\ script \in Scripts
  BY <1>1, Zenon DEF Types
<1>3. /\ outgoing \in Seq(Out(n)) /\ sent \in Seq(Cmd(n)) /\ inTransit \in 0..MaxTransit
      /\ windows \in [0..Windows - 1 -> Nat] /\ used \in SUBSET (0..Windows - 1)
      /\ inTransit = Len(sent)
  BY <1>2 DEF SenderTypes
<1>4. /\ acks' = acks \ {m}
      /\ UNCHANGED <<script, submitted, stream, numbers, unreliable, net, in, dispatched, delivered>>
      /\ \/ \E i \in 1..Len(sent) : AckSent(m, i)
         \/ \E i \in 1..TriedCount : AckTried(m, i)
         \/ UNCHANGED <<sent, outgoing, inTransit, windows, used>>
  BY <1>3, AckFacts, Zenon
<1>5. script' = script /\ NetTypes(n)' /\ ReceiverTypes(n)'
  BY <1>2, <1>4 DEF NetTypes, ReceiverTypes, Waiting
<1>6. PICK w \in 0..Windows - 1 : w = WindowOf(m)
  <2>1. m \in 0..Numbers - 1
    BY <1>2 DEF NetTypes
  <2>. QED BY <2>1, WindowType
<1>7. CASE \E i \in 1..Len(sent) : AckSent(m, i)
  <2>1. PICK i \in 1..Len(sent) : AckSent(m, i)
    BY <1>7
  <2>2. sent' = RemoveAt(sent, i) /\ inTransit' = inTransit - 1 /\ outgoing' = outgoing
        /\ ReleaseWindow(m)
    BY <2>1, Zenon DEF AckSent
  <2>3. sent' \in Seq(Cmd(n)) /\ Len(sent') = Len(sent) - 1
    BY <1>3, <2>2, RemovedAt DEF IsRemoved
  <2>4. inTransit' = Len(sent') /\ inTransit' \in 0..MaxTransit
    BY <1>3, <2>2, <2>3, LimitsAssumption
  <2>5. windows' \in [0..Windows - 1 -> Nat] /\ used' \in SUBSET (0..Windows - 1)
    BY <1>3, <1>6, <2>2, ReleaseFacts
  <2>6. SenderTypes(n)'
    BY <1>2, <1>4, <2>2, <2>3, <2>4, <2>5 DEF SenderTypes
  <2>. QED BY <1>1, <1>2, <1>5, <2>6 DEF Types
<1>8. CASE \E i \in 1..TriedCount : AckTried(m, i)
  <2>1. PICK i \in 1..TriedCount : AckTried(m, i)
    BY <1>8
  <2>2. sent' = sent /\ inTransit' = inTransit /\ outgoing' = RemoveAt(outgoing, i)
        /\ ReleaseWindow(m)
    BY <2>1, Zenon DEF AckTried
  <2>3. i \in 1..Len(outgoing)
    <3>1. TriedCount \in 0..Len(outgoing) /\ Len(outgoing) \in Nat
      BY <1>3, TriedFacts, SeqFacts
    <3>. QED BY <3>1
  <2>4. outgoing' \in Seq(Out(n))
    BY <1>3, <2>2, <2>3, RemovedAt DEF IsRemoved
  <2>5. windows' \in [0..Windows - 1 -> Nat] /\ used' \in SUBSET (0..Windows - 1)
    BY <1>3, <1>6, <2>2, ReleaseFacts
  <2>6. SenderTypes(n)'
    BY <1>2, <1>4, <2>2, <2>4, <2>5 DEF SenderTypes
  <2>. QED BY <1>1, <1>2, <1>5, <2>6 DEF Types
<1>9. CASE UNCHANGED <<sent, outgoing, inTransit, windows, used>>
  <2>1. SenderTypes(n)'
    BY <1>2, <1>4, <1>9 DEF SenderTypes
  <2>. QED BY <1>1, <1>2, <1>5, <2>1 DEF Types
<1>. QED BY <1>4, <1>7, <1>8, <1>9

LEMMA TypesHandleCommand ==
    ASSUME Types, NEW c \in net, HandleCommand(c)
    PROVE  Types'
<1>1. PICK n \in Nat : n = Len(script)
  BY ScriptLen DEF Types
<1>2. SenderTypes(n) /\ NetTypes(n) /\ ReceiverTypes(n) /\ script \in Scripts
  BY <1>1, Zenon DEF Types
<1>3. c \in Cmd(n) /\ c.rseq \in 0..Numbers - 1
  BY <1>2 DEF NetTypes, Cmd
<1> DEFINE h == Handle(in, c)
<1>4. /\ net' = net \ {c} /\ in' = h.r /\ dispatched' = dispatched \o h.out
      /\ acks' \in {acks, acks \cup {c.rseq}} /\ script' = script /\ delivered' = delivered
      /\ UNCHANGED sender
  BY DEF HandleCommand
<1>5. Fits(n, h) /\ dispatched \in Seq(1..n)
  BY <1>2, <1>3, HandleFits DEF ReceiverTypes
<1> HIDE DEF h
<1>6. SenderTypes(n)'
  BY <1>2, <1>4 DEF SenderTypes, sender
<1>7. NetTypes(n)'
  BY <1>2, <1>3, <1>4 DEF NetTypes
<1>8. h \in Res(n) /\ h.r \in Chan(n) /\ h.out \in Seq(1..n)
  BY <1>5 DEF Fits, Res
<1>9. dispatched' \in Seq(1..n) /\ Len(dispatched') = Len(dispatched) + Len(h.out)
  BY <1>4, <1>5, <1>8
<1>10. Waiting(in)' <= MaxWaiting
  <2>1. PICK a \in Nat, b \in Nat, o \in Nat, d \in Nat :
            a = Len(h.r.reliable) /\ b = Len(h.r.unreliable) /\ o = Len(h.out) /\ d = Len(dispatched)
    <3>1. Len(dispatched) \in Nat
      BY <1>5, SeqFacts
    <3>. QED BY <1>8, <3>1, SizeType, Zenon
  <2>2. (a + b + o) + d <= MaxWaiting
    BY <1>5, <2>1, Zenon DEF Fits, Size
  <2>3. Waiting(in)' = a + b + (d + o)
    BY <1>4, <1>9, <2>1, Zenon DEF Waiting
  <2>. QED BY <2>2, <2>3
<1>11. ReceiverTypes(n)'
  BY <1>2, <1>4, <1>8, <1>9, <1>10 DEF ReceiverTypes
<1>. QED BY <1>1, <1>2, <1>4, <1>6, <1>7, <1>11 DEF Types

LEMMA TypesReceive ==
    ASSUME Types, Receive
    PROVE  Types'
<1>1. PICK n \in Nat : n = Len(script)
  BY ScriptLen DEF Types
<1>2. SenderTypes(n) /\ NetTypes(n) /\ ReceiverTypes(n) /\ script \in Scripts
  BY <1>1, Zenon DEF Types
<1>3. /\ dispatched # << >> /\ delivered' = Append(delivered, Head(dispatched))
      /\ dispatched' = Tail(dispatched) /\ script' = script /\ UNCHANGED <<sender, net, acks, in>>
  BY DEF Receive
<1>4. SenderTypes(n)' /\ NetTypes(n)'
  BY <1>2, <1>3 DEF SenderTypes, NetTypes, sender
<1>5. /\ in \in Chan(n) /\ dispatched \in Seq(1..n) /\ delivered \in Seq(1..n)
      /\ Waiting(in) <= MaxWaiting /\ MaxWaiting \in Nat
  BY <1>2, LimitsAssumption DEF ReceiverTypes
<1>6. /\ Head(dispatched) \in 1..n /\ dispatched' \in Seq(1..n)
      /\ Len(dispatched') = Len(dispatched) - 1 /\ Len(dispatched) \in Nat
  BY <1>3, <1>5, HeadTail
<1>7. delivered' \in Seq(1..n)
  BY <1>3, <1>5, <1>6
<1>8. Waiting(in)' <= MaxWaiting
  <2>1. PICK a \in Nat, b \in Nat, d \in Nat :
            a = Len(in.reliable) /\ b = Len(in.unreliable) /\ d = Len(dispatched)
    BY <1>5, <1>6, ChanFacts, Zenon
  <2>2. a + b + d <= MaxWaiting
    BY <1>5, <2>1, Zenon DEF Waiting
  <2>3. Waiting(in)' = a + b + (d - 1)
    BY <1>3, <1>6, <2>1, Zenon DEF Waiting
  <2>. QED BY <1>5, <2>2, <2>3
<1>9. ReceiverTypes(n)'
  BY <1>3, <1>5, <1>6, <1>7, <1>8 DEF ReceiverTypes
<1>. QED BY <1>1, <1>2, <1>3, <1>4, <1>9 DEF Types

LEMMA TypesKept ==
    ASSUME Types, [Next]_vars
    PROVE  Types'
<1>1. CASE Next
  BY <1>1, TypesSend, TypesSendReliable, TypesSendUnreliable, TypesCheckTimeouts, TypesReceive,
     TypesHandleAcknowledge, TypesHandleCommand, Zenon DEF Next
<1>2. CASE UNCHANGED vars
  BY <1>2 DEF vars, sender, receiver, Types, SenderTypes, NetTypes, ReceiverTypes, Waiting
<1>. QED BY <1>1, <1>2

LEMMA TypesGive ==
    ASSUME Types
    PROVE  TypeOK
<1>1. PICK n \in Nat : n = Len(script)
  BY ScriptLen DEF Types
<1>2. SenderTypes(n) /\ NetTypes(n) /\ ReceiverTypes(n) /\ script \in Scripts
  BY <1>1, Zenon DEF Types
<1>3. in.rseq \in 0..Numbers - 1
  BY <1>2 DEF ReceiverTypes, Chan
<1>4. numbers.reliable \in 0..Numbers - 1 /\ numbers.unreliable \in 0..UnreliableLimit
  BY <1>2 DEF SenderTypes
<1>. QED BY <1>1, <1>2, <1>3, <1>4, Zenon DEF TypeOK, SenderTypes, NetTypes, ReceiverTypes, Cmd, Kinds

\* Every variable keeps to its type: numbers wrap within their range, the data
\* in transit never exceeds the flow window, and what waits at the receiver
\* (peer.c, enet_peer_queue_incoming_command) never exceeds its bound.
THEOREM TypeCorrect == Spec => []TypeOK
<1>1. Init => Types
  BY TypesInit
<1>2. Types /\ [Next]_vars => Types'
  BY TypesKept
<1>3. Types => TypeOK
  BY TypesGive
<1>. QED BY <1>1, <1>2, <1>3, PTL DEF Spec

-----------------------------------------------------------------------------
(***************************************************************************)
(* The counters of the sender.                                             *)
(***************************************************************************)
TriedOf(n, w) == {o \in Out(n) : o.tried /\ WindowOf(o.cmd.rseq) = w}
CmdsOf(n, w) == {c \in Cmd(n) : WindowOf(c.rseq) = w}
InWindowOf(n, w) == Count(outgoing, TriedOf(n, w)) + Count(sent, CmdsOf(n, w))
Counters(n) ==
    /\ \A w \in 0..Windows - 1 : windows[w] = InWindowOf(n, w)
    /\ used = {w \in 0..Windows - 1 : windows[w] > 0}

LEMMA CountAppend ==
    ASSUME NEW S, NEW s \in Seq(S), NEW e \in S, NEW Q
    PROVE  Count(Append(s, e), Q) = Count(s, Q) + (IF e \in Q THEN 1 ELSE 0)
<1>1. <<e>> \in Seq(S) /\ s \o <<e>> = Append(s, e)
  OBVIOUS
<1>2. PICK t \in Seq(S) : t = <<e>>
  BY <1>1, Zenon
<1>3. PICK u : u = s \o t
  OBVIOUS
<1>4. IsJoin(S, s, t, u)
  BY <1>3, Joined
<1>5. Count(u, Q) = Count(s, Q) + Count(t, Q)
  BY <1>4, CountJoin
<1>. QED BY <1>1, <1>2, <1>3, <1>5, CountOne, Zenon

LEMMA CountFront ==
    ASSUME NEW S, NEW s \in Seq(S), NEW e \in S, NEW Q
    PROVE  Count(<<e>> \o s, Q) = (IF e \in Q THEN 1 ELSE 0) + Count(s, Q)
<1>1. <<e>> \in Seq(S)
  OBVIOUS
<1>2. PICK t \in Seq(S) : t = <<e>>
  BY <1>1, Zenon
<1>3. PICK u : u = t \o s
  OBVIOUS
<1>4. IsJoin(S, t, s, u)
  BY <1>3, Joined
<1>5. Count(u, Q) = Count(t, Q) + Count(s, Q)
  BY <1>4, CountJoin
<1>. QED BY <1>2, <1>3, <1>5, CountOne, Zenon

LEMMA CountersGive ==
    ASSUME Types, Counters(Len(script))
    PROVE  CountersAgree
<1>1. PICK n \in Nat : n = Len(script)
  BY ScriptLen DEF Types
<1>2. SenderTypes(n) /\ Counters(n)
  BY <1>1, Zenon DEF Types
<1>3. /\ inTransit = Len(sent) /\ outgoing \in Seq(Out(n)) /\ sent \in Seq(Cmd(n))
  BY <1>2 DEF SenderTypes
<1>4. /\ DOMAIN outgoing = 1..Len(outgoing) /\ \A i \in 1..Len(outgoing) : outgoing[i] \in Out(n)
      /\ DOMAIN sent = 1..Len(sent) /\ \A i \in 1..Len(sent) : sent[i] \in Cmd(n)
  BY <1>3, SeqFacts
<1> DEFINE tried == {i \in DOMAIN outgoing : outgoing[i].tried}
<1>5. ASSUME NEW w \in 0..Windows - 1
      PROVE  /\ {i \in tried : WindowOf(outgoing[i].cmd.rseq) = w} = Places(outgoing, TriedOf(n, w))
             /\ {i \in DOMAIN sent : WindowOf(sent[i].rseq) = w} = Places(sent, CmdsOf(n, w))
  <2>1. {i \in tried : WindowOf(outgoing[i].cmd.rseq) = w} = Places(outgoing, TriedOf(n, w))
    BY <1>4 DEF Places, TriedOf
  <2>2. {i \in DOMAIN sent : WindowOf(sent[i].rseq) = w} = Places(sent, CmdsOf(n, w))
    BY <1>4 DEF Places, CmdsOf
  <2>. QED BY <2>1, <2>2
<1> HIDE DEF tried
<1>6. \A w \in 0..Windows - 1 :
          windows[w] = Cardinality({i \in tried : WindowOf(outgoing[i].cmd.rseq) = w})
                     + Cardinality({i \in DOMAIN sent : WindowOf(sent[i].rseq) = w})
  BY <1>2, <1>5, Zenon DEF Counters, InWindowOf, Count
<1>7. used = {w \in 0..Windows - 1 : windows[w] > 0}
  BY <1>2, Zenon DEF Counters
<1>. QED BY <1>3, <1>6, <1>7, Zenon DEF CountersAgree, tried

LEMMA CountersInit ==
    ASSUME Init
    PROVE  Counters(Len(script))
<1>1. \A w \in 0..Windows - 1 : windows[w] = 0 /\ InWindowOf(Len(script), w) = 0
  <2>1. \A w \in 0..Windows - 1 : windows[w] = 0
    BY DEF Init
  <2>2. outgoing = << >> /\ sent = << >>
    BY DEF Init
  <2>3. ASSUME NEW w PROVE InWindowOf(Len(script), w) = 0 + 0
    <3>1. Count(<< >>, TriedOf(Len(script), w)) = 0 /\ Count(<< >>, CmdsOf(Len(script), w)) = 0
      BY CountEmpty
    <3>. QED BY <2>2, <3>1, Zenon DEF InWindowOf
  <2>. QED BY <2>1, <2>3
<1>2. used = {}
  BY DEF Init
<1>3. {w \in 0..Windows - 1 : windows[w] > 0} = {}
  BY <1>1
<1>. QED BY <1>1, <1>2, <1>3, Zenon DEF Counters

\* The window counts do not change when the counters do not.
LEMMA CountersSame ==
    ASSUME NEW n, Counters(n), UNCHANGED <<windows, used>>,
           \A w \in 0..Windows - 1 : InWindowOf(n, w)' = InWindowOf(n, w)
    PROVE  Counters(n)'
<1>1. windows' = windows /\ used' = used
  OBVIOUS
<1>. QED BY <1>1 DEF Counters

LEMMA CountTypes ==
    ASSUME NEW n, outgoing \in Seq(Out(n)), sent \in Seq(Cmd(n)), NEW w
    PROVE  Count(outgoing, TriedOf(n, w)) \in Nat /\ Count(sent, CmdsOf(n, w)) \in Nat
BY PlacesFinite, Zenon

LEMMA CountersSend ==
    ASSUME NEW n \in Nat, n = Len(script), SenderTypes(n), Counters(n), Send
    PROVE  Counters(n)'
<1>1. /\ outgoing \in Seq(Out(n)) /\ sent \in Seq(Cmd(n)) /\ numbers.reliable \in 0..Numbers - 1
  BY DEF SenderTypes
<1>2. UNCHANGED <<sent, windows, used, inTransit>> /\ submitted' \in 1..n
  BY DEF Send, SenderTypes
<1>3. outgoing' = outgoing \/ \E k \in {1, 2} : SetupReliable(submitted', k)
  <2>1. 1 \in {1, 2} /\ 2 \in {1, 2}
    OBVIOUS
  <2>2. \/ \E k \in {1, 2} : SetupReliable(submitted', k)
        \/ SetupUnsequenced(submitted')
        \/ SetupUnreliable(submitted')
    BY <2>1, Zenon DEF Send
  <2>. QED BY <2>2 DEF SetupUnsequenced, SetupUnreliable
<1>4. CASE outgoing' = outgoing
  <2>1. \A w \in 0..Windows - 1 : InWindowOf(n, w)' = InWindowOf(n, w)
    BY <1>2, <1>4 DEF InWindowOf
  <2>. QED BY <1>2, <2>1, CountersSame
<1>5. CASE \E k \in {1, 2} : SetupReliable(submitted', k)
  <2>1. PICK k \in {1, 2} : SetupReliable(submitted', k)
    BY <1>5
  <2>2. PICK t \in Seq(Out(n)) : t = NewCommands(submitted', k) /\ Len(t) = k
    BY <1>1, <1>2, NewCommandsType
  <2>3. outgoing' = outgoing \o t
    BY <2>1, <2>2, SetupFacts, Zenon
  <2>4. \A i \in 1..Len(t) : ~t[i].tried
    BY <2>2 DEF NewCommands
  <2>5. ASSUME NEW w \in 0..Windows - 1 PROVE InWindowOf(n, w)' = InWindowOf(n, w)
    <3>1. Count(t, TriedOf(n, w)) = 0
      <4>1. \A i \in 1..Len(t) : t[i] \notin TriedOf(n, w)
        BY <2>4 DEF TriedOf
      <4>. QED BY <4>1, CountNone
    <3>2. Count(outgoing \o t, TriedOf(n, w)) = Count(outgoing, TriedOf(n, w)) + Count(t, TriedOf(n, w))
      <4>1. IsJoin(Out(n), outgoing, t, outgoing \o t)
        BY <1>1, Joined
      <4>. QED BY <1>1, <4>1, CountJoin
    <3>3. Count(outgoing, TriedOf(n, w)) \in Nat
      BY <1>1, CountTypes
    <3>4. Count(outgoing, TriedOf(n, w))' = Count(outgoing, TriedOf(n, w))
      BY <2>3, <3>1, <3>2, <3>3
    <3>5. Count(sent, CmdsOf(n, w))' = Count(sent, CmdsOf(n, w))
      BY <1>2
    <3>. QED BY <3>4, <3>5 DEF InWindowOf
  <2>. QED BY <1>2, <2>5, CountersSame
<1>. QED BY <1>3, <1>4, <1>5

LEMMA CountersSendReliable ==
    ASSUME NEW n \in Nat, SenderTypes(n), Counters(n), SendReliable
    PROVE  Counters(n)'
<1>1. /\ outgoing \in Seq(Out(n)) /\ sent \in Seq(Cmd(n))
      /\ windows \in [0..Windows - 1 -> Nat]
  BY DEF SenderTypes
<1> DEFINE o == Head(outgoing)
           v == WindowOf(o.cmd.rseq)
<1>2. /\ outgoing # << >> /\ outgoing' = Tail(outgoing) /\ sent' = Append(sent, o.cmd)
      /\ o.tried => windows' = windows /\ used' = used
      /\ ~o.tried => used' = used \cup {v} /\ windows' = [windows EXCEPT ![v] = windows[v] + 1]
  BY DEF SendReliable
<1>3. o \in Out(n) /\ o.cmd \in Cmd(n) /\ o.cmd.rseq \in 0..Numbers - 1 /\ o.tried \in BOOLEAN
  <2>1. o \in Out(n)
    BY <1>1, <1>2, HeadTail
  <2> HIDE DEF o
  <2>. QED BY <2>1 DEF Out, Cmd
<1>4. v \in 0..Windows - 1
  <2> HIDE DEF o
  <2>. QED BY <1>3, WindowType
<1> DEFINE T(w) == Count(outgoing, TriedOf(n, w))
           C(w) == Count(sent, CmdsOf(n, w))
<1>5. ASSUME NEW w \in 0..Windows - 1
      PROVE  /\ T(w)' \in Nat /\ C(w) \in Nat /\ windows[w] = T(w) + C(w)
             /\ T(w) = (IF o.tried /\ v = w THEN 1 ELSE 0) + T(w)'
             /\ C(w)' = C(w) + (IF v = w THEN 1 ELSE 0)
  <2>1. Tail(outgoing) \in Seq(Out(n))
    BY <1>1, <1>2, HeadTail
  <2>2. Count(outgoing, TriedOf(n, w)) =
            (IF o \in TriedOf(n, w) THEN 1 ELSE 0) + Count(Tail(outgoing), TriedOf(n, w))
    BY <1>1, <1>2, CountTail
  <2>3. Count(Append(sent, o.cmd), CmdsOf(n, w)) =
            Count(sent, CmdsOf(n, w)) + (IF o.cmd \in CmdsOf(n, w) THEN 1 ELSE 0)
    <3> HIDE DEF o
    <3>. QED BY <1>1, <1>3, CountAppend
  <2>4. o \in TriedOf(n, w) <=> o.tried /\ v = w
    <3> HIDE DEF o
    <3>. QED BY <1>3 DEF TriedOf
  <2>5. o.cmd \in CmdsOf(n, w) <=> v = w
    <3> HIDE DEF o
    <3>. QED BY <1>3 DEF CmdsOf
  <2>6. Count(Tail(outgoing), TriedOf(n, w)) \in Nat /\ C(w) \in Nat
    BY <1>1, <2>1, PlacesFinite, Zenon
  <2>7. windows[w] = T(w) + C(w)
    BY Zenon DEF Counters, InWindowOf
  <2> HIDE DEF o, v
  <2>. QED BY <1>2, <2>2, <2>3, <2>4, <2>5, <2>6, <2>7
<1> HIDE DEF o, v, T, C
<1>6. ASSUME NEW w \in 0..Windows - 1
      PROVE  /\ windows'[w] = T(w)' + C(w)'
             /\ windows'[w] \in Nat
             /\ v = w /\ ~o.tried => windows'[w] > 0
             /\ ~(v = w /\ ~o.tried) => windows'[w] = windows[w]
  <2>1. /\ T(w)' \in Nat /\ C(w) \in Nat /\ windows[w] = T(w) + C(w)
        /\ T(w) = (IF o.tried /\ v = w THEN 1 ELSE 0) + T(w)'
        /\ C(w)' = C(w) + (IF v = w THEN 1 ELSE 0)
    BY <1>5
  <2>2. CASE o.tried
    BY <1>2, <1>3, <2>1, <2>2
  <2>3. CASE ~o.tried
    <3>1. windows'[w] = windows[w] + (IF v = w THEN 1 ELSE 0)
      <4>1. windows' = [windows EXCEPT ![v] = windows[v] + 1]
        BY <1>2, <2>3, Zenon
      <4>2. windows'[w] = IF w = v THEN windows[v] + 1 ELSE windows[w]
        BY <1>1, <4>1, Zenon
      <4>3. windows[w] \in Nat
        BY <1>1
      <4>. QED BY <4>2, <4>3
    <3>. QED BY <2>1, <2>3, <3>1
  <2>. QED BY <1>3, <2>2, <2>3
<1>7. used' = {w \in 0..Windows - 1 : windows'[w] > 0}
  <2>1. used = {w \in 0..Windows - 1 : windows[w] > 0}
    BY DEF Counters
  <2>2. used' = IF o.tried THEN used ELSE used \cup {v}
    BY <1>2, <1>3
  <2>. QED BY <1>3, <1>4, <1>6, <2>1, <2>2
<1>8. \A w \in 0..Windows - 1 : windows'[w] = InWindowOf(n, w)'
  BY <1>6, Zenon DEF InWindowOf, T, C
<1>. QED BY <1>7, <1>8, Zenon DEF Counters

LEMMA CountersCheckTimeouts ==
    ASSUME NEW n \in Nat, SenderTypes(n), Counters(n), CheckTimeouts
    PROVE  Counters(n)'
<1>1. /\ outgoing \in Seq(Out(n)) /\ sent \in Seq(Cmd(n))
  BY DEF SenderTypes
<1>2. UNCHANGED <<windows, used>>
  BY DEF CheckTimeouts
<1>3. CASE outgoing' = Retried(sent) \o outgoing /\ sent' = << >>
  <2>1. PICK t \in Seq(Out(n)) : t = Retried(sent) /\ Len(t) = Len(sent)
                 /\ \A i \in 1..Len(sent) : t[i].tried = TRUE /\ t[i].cmd = sent[i] /\ t[i] \in Out(n)
    <3>1. /\ Retried(sent) \in Seq(Out(n)) /\ Len(Retried(sent)) = Len(sent)
          /\ \A i \in 1..Len(sent) : Retried(sent)[i].tried = TRUE /\ Retried(sent)[i].cmd = sent[i]
      BY <1>1, RetriedFacts
    <3>2. \A i \in 1..Len(sent) : Retried(sent)[i] \in Out(n)
      BY <3>1, SeqFacts, Zenon
    <3>. QED BY <3>1, <3>2, Zenon
  <2>2. ASSUME NEW w \in 0..Windows - 1 PROVE InWindowOf(n, w)' = InWindowOf(n, w)
    <3>1. \A i \in 1..Len(t) : t[i] \in TriedOf(n, w) <=> sent[i] \in CmdsOf(n, w)
      <4>1. \A i \in 1..Len(sent) : sent[i] \in Cmd(n)
        BY <1>1, SeqFacts
      <4>. QED BY <2>1, <4>1 DEF TriedOf, CmdsOf
    <3>2. Count(t, TriedOf(n, w)) = Count(sent, CmdsOf(n, w))
      BY <1>1, <2>1, <3>1, CountSame
    <3>3. IsJoin(Out(n), t, outgoing, t \o outgoing)
      BY <1>1, Joined
    <3>4. PICK u : u = t \o outgoing
      OBVIOUS
    <3>5. Count(u, TriedOf(n, w)) = Count(t, TriedOf(n, w)) + Count(outgoing, TriedOf(n, w))
      <4>1. IsJoin(Out(n), t, outgoing, u)
        BY <3>3, <3>4
      <4>. QED BY <1>1, <4>1, CountJoin
    <3>6. Count(<< >>, CmdsOf(n, w)) = 0
      BY CountEmpty
    <3>7. PICK a \in Nat, b \in Nat : a = Count(outgoing, TriedOf(n, w)) /\ b = Count(sent, CmdsOf(n, w))
      BY <1>1, CountTypes
    <3>8. InWindowOf(n, w) = a + b
      BY <3>7, Zenon DEF InWindowOf
    <3>9. InWindowOf(n, w)' = (b + a) + 0
      <4>1. Count(outgoing, TriedOf(n, w))' = b + a
        BY <1>3, <2>1, <3>2, <3>4, <3>5, <3>7, Zenon
      <4>2. Count(sent, CmdsOf(n, w))' = 0
        BY <1>3, <3>6, Zenon
      <4>. QED BY <4>1, <4>2, Zenon DEF InWindowOf
    <3>. QED BY <3>8, <3>9
  <2>. QED BY <1>2, <2>2, CountersSame
<1>4. CASE \E i \in DOMAIN sent :
             /\ outgoing' = <<[tried |-> TRUE, cmd |-> sent[i]]>> \o outgoing
             /\ sent' = RemoveAt(sent, i)
  <2>1. PICK i \in 1..Len(sent) :
             /\ outgoing' = <<[tried |-> TRUE, cmd |-> sent[i]]>> \o outgoing
             /\ sent' = RemoveAt(sent, i)
    BY <1>1, <1>4, SeqFacts
  <2>2. sent[i] \in Cmd(n)
    BY <1>1, <2>1
  <2>3. PICK o \in Out(n) : o = [tried |-> TRUE, cmd |-> sent[i]] /\ o.tried /\ o.cmd = sent[i]
    <3>1. [tried |-> TRUE, cmd |-> sent[i]] \in Out(n)
      BY <2>2 DEF Out
    <3>2. [tried |-> TRUE, cmd |-> sent[i]].tried /\ [tried |-> TRUE, cmd |-> sent[i]].cmd = sent[i]
      OBVIOUS
    <3>. QED BY <3>1, <3>2
  <2>4. ASSUME NEW w \in 0..Windows - 1 PROVE InWindowOf(n, w)' = InWindowOf(n, w)
    <3>1. o \in TriedOf(n, w) <=> sent[i] \in CmdsOf(n, w)
      BY <2>2, <2>3 DEF TriedOf, CmdsOf
    <3>2. Count(<<o>> \o outgoing, TriedOf(n, w))
              = (IF o \in TriedOf(n, w) THEN 1 ELSE 0) + Count(outgoing, TriedOf(n, w))
      BY <1>1, CountFront
    <3>3. Count(sent, CmdsOf(n, w))
              = (IF sent[i] \in CmdsOf(n, w) THEN 1 ELSE 0) + Count(RemoveAt(sent, i), CmdsOf(n, w))
      BY <1>1, CountRemoved
    <3>4. RemoveAt(sent, i) \in Seq(Cmd(n))
      BY <1>1, RemovedAt DEF IsRemoved
    <3>5. PICK a \in Nat, b \in Nat : a = Count(outgoing, TriedOf(n, w))
                                      /\ b = Count(RemoveAt(sent, i), CmdsOf(n, w))
      BY <1>1, <3>4, PlacesFinite, Zenon
    <3>6. PICK x \in Nat : x = IF sent[i] \in CmdsOf(n, w) THEN 1 ELSE 0
      OBVIOUS
    <3>7. InWindowOf(n, w) = a + (x + b)
      BY <3>3, <3>5, <3>6, Zenon DEF InWindowOf
    <3>8. InWindowOf(n, w)' = (x + a) + b
      <4>1. Count(outgoing, TriedOf(n, w))' = x + a
        BY <2>1, <2>3, <3>1, <3>2, <3>5, <3>6
      <4>2. Count(sent, CmdsOf(n, w))' = b
        BY <2>1, <3>5
      <4>. QED BY <4>1, <4>2, Zenon DEF InWindowOf
    <3>. QED BY <3>7, <3>8
  <2>. QED BY <1>2, <2>4, CountersSame
<1>. QED BY <1>3, <1>4, Zenon DEF CheckTimeouts, Retried

\* What is acknowledged leaves one list and its window.
LEMMA CountersRelease ==
    ASSUME NEW n \in Nat, SenderTypes(n), Counters(n), NEW m, NEW v \in 0..Windows - 1,
           v = WindowOf(m), ReleaseWindow(m),
           outgoing' \in Seq(Out(n)), sent' \in Seq(Cmd(n)),
           \A w \in 0..Windows - 1 :
               InWindowOf(n, w) = (IF w = v THEN 1 ELSE 0) + InWindowOf(n, w)'
    PROVE  Counters(n)'
<1>1. windows \in [0..Windows - 1 -> Nat] /\ used \in SUBSET (0..Windows - 1)
  BY DEF SenderTypes
<1>2. /\ windows' \in [0..Windows - 1 -> Nat] /\ used' \in SUBSET (0..Windows - 1)
      /\ \A w \in 0..Windows - 1 : w # v => windows'[w] = windows[w]
      /\ windows[v] # 0 => /\ windows'[v] = windows[v] - 1
                           /\ used' = IF windows'[v] = 0 THEN used \ {v} ELSE used
  BY <1>1, ReleaseFacts
<1>3. ASSUME NEW w \in 0..Windows - 1
      PROVE  /\ InWindowOf(n, w)' \in Nat
             /\ windows[w] = (IF w = v THEN 1 ELSE 0) + InWindowOf(n, w)'
  <2>1. Count(outgoing, TriedOf(n, w))' \in Nat /\ Count(sent, CmdsOf(n, w))' \in Nat
    BY PlacesFinite, Zenon
  <2>2. windows[w] = InWindowOf(n, w)
    BY Zenon DEF Counters
  <2>3. \A a, b \in Nat : a + b \in Nat
    OBVIOUS
  <2>. QED BY <2>1, <2>2, <2>3, Zenon DEF InWindowOf
<1>4. windows[v] # 0
  <2>1. PICK a \in Nat : a = InWindowOf(n, v)'
    BY <1>3, Zenon
  <2>2. windows[v] = 1 + a
    BY <1>3, <2>1
  <2>. QED BY <2>2
<1>5. ASSUME NEW w \in 0..Windows - 1 PROVE windows'[w] = InWindowOf(n, w)'
  <2>1. PICK a \in Nat : a = InWindowOf(n, w)'
    BY <1>3, Zenon
  <2>2. windows[w] = (IF w = v THEN 1 ELSE 0) + a
    BY <1>3, <2>1
  <2>3. windows'[w] = a
    BY <1>2, <1>4, <2>2
  <2>. QED BY <2>1, <2>3
<1>6. used' = {w \in 0..Windows - 1 : windows'[w] > 0}
  <2>1. used = {w \in 0..Windows - 1 : windows[w] > 0}
    BY DEF Counters
  <2>2. \A w \in 0..Windows - 1 : windows'[w] \in Nat /\ windows[w] \in Nat
    BY <1>1, <1>2
  <2>. QED BY <1>2, <1>4, <2>1, <2>2
<1>. QED BY <1>5, <1>6, Zenon DEF Counters

LEMMA CountersHandleAcknowledge ==
    ASSUME NEW n \in Nat, SenderTypes(n), NetTypes(n), Counters(n), NEW m \in acks, HandleAcknowledge(m)
    PROVE  Counters(n)'
<1>1. /\ outgoing \in Seq(Out(n)) /\ sent \in Seq(Cmd(n))
  BY DEF SenderTypes
<1>2. \/ \E i \in 1..Len(sent) : AckSent(m, i)
      \/ \E i \in 1..TriedCount : AckTried(m, i)
      \/ UNCHANGED <<sent, outgoing, inTransit, windows, used>>
  BY <1>1, AckFacts, Zenon
<1>3. PICK v \in 0..Windows - 1 : v = WindowOf(m)
  <2>1. m \in 0..Numbers - 1
    BY DEF NetTypes
  <2>. QED BY <2>1, WindowType
<1>4. CASE \E i \in 1..Len(sent) : AckSent(m, i)
  <2>1. PICK i \in 1..Len(sent) : AckSent(m, i)
    BY <1>4
  <2>2. sent' = RemoveAt(sent, i) /\ outgoing' = outgoing /\ ReleaseWindow(m) /\ sent[i].rseq = m
    BY <2>1, Zenon DEF AckSent
  <2>3. sent' \in Seq(Cmd(n)) /\ outgoing' \in Seq(Out(n))
    BY <1>1, <2>2, RemovedAt DEF IsRemoved
  <2>4. ASSUME NEW w \in 0..Windows - 1
        PROVE  InWindowOf(n, w) = (IF w = v THEN 1 ELSE 0) + InWindowOf(n, w)'
    <3>1. Count(sent, CmdsOf(n, w))
              = (IF sent[i] \in CmdsOf(n, w) THEN 1 ELSE 0) + Count(RemoveAt(sent, i), CmdsOf(n, w))
      BY <1>1, CountRemoved
    <3>2. sent[i] \in CmdsOf(n, w) <=> w = v
      <4>1. sent[i] \in Cmd(n)
        BY <1>1
      <4>. QED BY <1>3, <2>2, <4>1 DEF CmdsOf
    <3>3. PICK a \in Nat, b \in Nat : a = Count(outgoing, TriedOf(n, w))
                                      /\ b = Count(RemoveAt(sent, i), CmdsOf(n, w))
      <4>1. RemoveAt(sent, i) \in Seq(Cmd(n))
        BY <2>2, <2>3
      <4>. QED BY <1>1, <4>1, PlacesFinite, Zenon
    <3>4. PICK x \in Nat : x = IF w = v THEN 1 ELSE 0
      OBVIOUS
    <3>5. InWindowOf(n, w) = a + (x + b)
      BY <3>1, <3>2, <3>3, <3>4 DEF InWindowOf
    <3>6. InWindowOf(n, w)' = a + b
      BY <2>2, <3>3 DEF InWindowOf
    <3>. QED BY <3>4, <3>5, <3>6
  <2>. QED BY <1>3, <2>2, <2>3, <2>4, CountersRelease
<1>5. CASE \E i \in 1..TriedCount : AckTried(m, i)
  <2>1. PICK i \in 1..TriedCount : AckTried(m, i)
    BY <1>5
  <2>2. outgoing' = RemoveAt(outgoing, i) /\ sent' = sent /\ ReleaseWindow(m) /\ outgoing[i].cmd.rseq = m
    BY <2>1, Zenon DEF AckTried
  <2>3. i \in 1..Len(outgoing) /\ outgoing[i].tried
    <3>1. TriedCount \in 0..Len(outgoing) /\ Len(outgoing) \in Nat
          /\ \A j \in 1..TriedCount : outgoing[j].tried
      BY <1>1, TriedFacts, SeqFacts
    <3>. QED BY <3>1
  <2>4. sent' \in Seq(Cmd(n)) /\ outgoing' \in Seq(Out(n))
    BY <1>1, <2>2, <2>3, RemovedAt DEF IsRemoved
  <2>5. ASSUME NEW w \in 0..Windows - 1
        PROVE  InWindowOf(n, w) = (IF w = v THEN 1 ELSE 0) + InWindowOf(n, w)'
    <3>1. Count(outgoing, TriedOf(n, w))
              = (IF outgoing[i] \in TriedOf(n, w) THEN 1 ELSE 0) + Count(RemoveAt(outgoing, i), TriedOf(n, w))
      BY <1>1, <2>3, CountRemoved
    <3>2. outgoing[i] \in TriedOf(n, w) <=> w = v
      <4>1. outgoing[i] \in Out(n)
        BY <1>1, <2>3
      <4>. QED BY <1>3, <2>2, <2>3, <4>1 DEF TriedOf
    <3>3. PICK a \in Nat, b \in Nat : a = Count(RemoveAt(outgoing, i), TriedOf(n, w))
                                      /\ b = Count(sent, CmdsOf(n, w))
      <4>1. RemoveAt(outgoing, i) \in Seq(Out(n))
        BY <2>2, <2>4
      <4>. QED BY <1>1, <4>1, PlacesFinite, Zenon
    <3>4. PICK x \in Nat : x = IF w = v THEN 1 ELSE 0
      OBVIOUS
    <3>5. InWindowOf(n, w) = (x + a) + b
      BY <3>1, <3>2, <3>3, <3>4 DEF InWindowOf
    <3>6. InWindowOf(n, w)' = a + b
      BY <2>2, <3>3 DEF InWindowOf
    <3>. QED BY <3>4, <3>5, <3>6
  <2>. QED BY <1>3, <2>2, <2>4, <2>5, CountersRelease
<1>6. CASE UNCHANGED <<sent, outgoing, inTransit, windows, used>>
  <2>1. \A w \in 0..Windows - 1 : InWindowOf(n, w)' = InWindowOf(n, w)
    BY <1>6 DEF InWindowOf
  <2>. QED BY <1>6, <2>1, CountersSame
<1>. QED BY <1>2, <1>4, <1>5, <1>6

LEMMA CountersKept ==
    ASSUME Types, Counters(Len(script)), [Next]_vars
    PROVE  Counters(Len(script))'
<1>1. PICK n \in Nat : n = Len(script)
  BY ScriptLen DEF Types
<1>2. SenderTypes(n) /\ NetTypes(n) /\ Counters(n)
  BY <1>1, Zenon DEF Types
<1>3. script' = script
  BY DEF Next, vars, Send, SendReliable, SendUnreliable, CheckTimeouts, Receive, HandleAcknowledge, HandleCommand
<1>4. CASE UNCHANGED <<outgoing, sent, windows, used>>
  <2>1. \A w \in 0..Windows - 1 : InWindowOf(n, w)' = InWindowOf(n, w)
    BY <1>4 DEF InWindowOf
  <2>2. Counters(n)'
    BY <1>2, <1>4, <2>1, CountersSame
  <2>. QED BY <1>1, <1>3, <2>2
<1>5. SendUnreliable \/ Receive \/ (\E c \in net : HandleCommand(c)) \/ UNCHANGED vars
      => UNCHANGED <<outgoing, sent, windows, used>>
  BY DEF SendUnreliable, Receive, HandleCommand, vars, sender
<1>6. CASE Send
  BY <1>1, <1>2, <1>3, <1>6, CountersSend
<1>7. CASE SendReliable
  BY <1>1, <1>2, <1>3, <1>7, CountersSendReliable
<1>8. CASE CheckTimeouts
  BY <1>1, <1>2, <1>3, <1>8, CountersCheckTimeouts
<1>9. CASE \E m \in acks : HandleAcknowledge(m)
  BY <1>1, <1>2, <1>3, <1>9, CountersHandleAcknowledge
<1>. QED BY <1>4, <1>5, <1>6, <1>7, <1>8, <1>9, Zenon DEF Next

\* The counters that hold the sender back never drift from its queues: neither
\* timeouts, nor acknowledgements that come twice or for a command that waits
\* to be sent again, ever release a window twice or leave one in use (peer.c
\* and protocol.c, reliableWindows, usedReliableWindows, reliableDataInTransit).
THEOREM CountersHold == Spec => []CountersAgree
<1>1. Init => Types /\ Counters(Len(script))
  BY TypesInit, CountersInit
<1>2. Types /\ Counters(Len(script)) /\ [Next]_vars => (Types /\ Counters(Len(script)))'
  BY TypesKept, CountersKept
<1>3. Types /\ Counters(Len(script)) => CountersAgree
  BY CountersGive
<1>. QED BY <1>1, <1>2, <1>3, PTL DEF Spec

-----------------------------------------------------------------------------
(***************************************************************************)
(* The receiver's queue, when the first k packets of the stream st have    *)
(* been taken from it: Delivered(f, k) is the last position of the k-th.   *)
(***************************************************************************)
Delivered(f, k) == f[k + 1] - 1
Known(f, st) == st \in Seq(Nat) /\ Firsts(f, st) /\ Ascends(st)

\* e is an entry of the queue for packet q of the stream.
EntryOf(f, st, e, q) ==
    /\ q \in 1..Len(st) /\ e.pkt = st[q] /\ e.rseq = NumOf(f[q])
    /\ e.count = (IF Parts(f, q) = 1 THEN 0 ELSE 2)
    /\ e.kind = (IF Parts(f, q) = 1 THEN "RELIABLE" ELSE "FRAGMENT")
    /\ e.got \subseteq {1, 2}

\* A packet that the queue accepts: a later one, not too many windows ahead.
Acceptable(f, k, q) ==
    k < q /\ WindowOf(f[q]) <= WindowOf(Delivered(f, k)) + FreeWindows - 2

\* The entries of list are for the packets g[1], g[2] and so on.
Slots(f, st, k, list, g) ==
    /\ g \in [1..Len(list) -> 1..Len(st)]
    /\ \A j \in 1..Len(list) : EntryOf(f, st, list[j], g[j]) /\ Acceptable(f, k, g[j])
    /\ \A i, j \in 1..Len(list) : i < j => g[i] < g[j]

Queue(f, st, k, r) ==
    /\ k \in 0..Len(st) /\ r.rseq = NumOf(Delivered(f, k))
    /\ \E g : Slots(f, st, k, r.reliable, g)

\* The receiver has part i of packet q.
Has(st, k, r, q, i) ==
    \/ q <= k
    \/ \E j \in 1..Len(r.reliable) :
           /\ r.reliable[j].pkt = st[q]
           /\ r.reliable[j].count = 0 \/ i \in r.reliable[j].got

\* Nothing in the queue continues the stream.
Blocked(r) == Len(r.reliable) > 0 => ~Continues(r, 1)

LEMMA DeliveredFacts ==
    ASSUME NEW f, NEW st, Known(f, st), NEW k \in 0..Len(st)
    PROVE  /\ Len(st) \in Nat /\ Delivered(f, k) \in Nat /\ f[k + 1] = Delivered(f, k) + 1
           /\ Start <= Delivered(f, k) /\ Delivered(f, k) <= Newest(f, st)
           /\ \A q \in 1..Len(st) : f[q] \in Nat /\ (k < q <=> Delivered(f, k) < f[q])
           /\ \A q \in 1..Len(st), i \in {1, 2} :
                  IsPart(f, st, q, i) => (q <= k <=> Pos(f, q, i) <= Delivered(f, k))
<1>1. st \in Seq(Nat) /\ Firsts(f, st)
  BY DEF Known
<1>2. /\ Len(st) \in Nat /\ Start \in Nat
      /\ \A q \in 1 .. Len(st) + 1 : f[q] \in Nat /\ f[q] > Start
      /\ \A q, r \in 1 .. Len(st) + 1 : q < r => f[q] < f[r]
      /\ f[Len(st) + 1] = Newest(f, st) + 1 /\ Newest(f, st) \in Nat
  BY <1>1, FirstsFacts
<1>3. k + 1 \in 1 .. Len(st) + 1
  BY <1>2
<1>4. PICK g \in Nat : g = f[k + 1] /\ g > Start
  BY <1>2, <1>3
<1>5. Delivered(f, k) \in Nat /\ f[k + 1] = Delivered(f, k) + 1 /\ Start <= Delivered(f, k)
  BY <1>2, <1>4 DEF Delivered
<1>6. Delivered(f, k) <= Newest(f, st)
  <2>1. k + 1 < Len(st) + 1 => f[k + 1] < f[Len(st) + 1]
    BY <1>2, <1>3
  <2>2. k + 1 = Len(st) + 1 \/ k + 1 < Len(st) + 1
    BY <1>2
  <2>. QED BY <1>2, <1>4, <1>5, <2>1, <2>2
<1>7. ASSUME NEW q \in 1..Len(st)
      PROVE  f[q] \in Nat /\ (k < q <=> Delivered(f, k) < f[q])
  <2>1. q \in 1 .. Len(st) + 1
    BY <1>2
  <2>2. f[q] \in Nat /\ (k + 1 < q => f[k + 1] < f[q]) /\ (q < k + 1 => f[q] < f[k + 1])
    BY <1>2, <1>3, <2>1
  <2>3. CASE k < q
    <3>1. k + 1 = q \/ k + 1 < q
      BY <1>2, <2>3
    <3>. QED BY <1>4, <1>5, <2>2, <2>3, <3>1
  <2>4. CASE q <= k
    <3>1. q < k + 1
      BY <1>2, <2>4
    <3>. QED BY <1>4, <1>5, <2>2, <2>4, <3>1
  <2>. QED BY <1>2, <2>3, <2>4
<1>8. ASSUME NEW q \in 1..Len(st), NEW i \in {1, 2}, IsPart(f, st, q, i)
      PROVE  q <= k <=> Pos(f, q, i) <= Delivered(f, k)
  <2>1. \A s \in 0..Len(st) : q <= s <=> Pos(f, q, i) <= f[s + 1] - 1
    BY <1>1, <1>8, PosFacts
  <2>. QED BY <2>1 DEF Delivered
<1>. QED BY <1>2, <1>5, <1>6, <1>7, <1>8

LEMMA Ascending ==
    ASSUME NEW f, NEW st, Known(f, st), NEW p \in 1..Len(st), NEW q \in 1..Len(st)
    PROVE  /\ st[p] \in Nat /\ st[q] \in Nat
           /\ p < q <=> st[p] < st[q]
           /\ p = q <=> st[p] = st[q]
           /\ p <= q <=> st[p] <= st[q]
<1>1. st \in Seq(Nat) /\ Ascends(st) /\ DOMAIN st = 1..Len(st) /\ Len(st) \in Nat
  BY SeqFacts DEF Known
<1>2. (p < q => st[p] < st[q]) /\ (q < p => st[q] < st[p])
  BY <1>1 DEF Ascends
<1>3. st[p] \in Nat /\ st[q] \in Nat
  BY <1>1
<1>4. p < q \/ q < p \/ p = q
  BY <1>1
<1>. QED BY <1>1, <1>2, <1>3, <1>4

\* A number of a position near the last one delivered, ahead or behind.
Near(f, k, x) ==
    /\ x \in Nat
    /\ WindowOf(x) <= WindowOf(Delivered(f, k)) + FreeWindows
    /\ WindowOf(Delivered(f, k)) <= WindowOf(x) + FreeWindows + 1

LEMMA NearNumber ==
    ASSUME NEW f, NEW st, Known(f, st), NEW k \in 0..Len(st), NEW r, r.rseq = NumOf(Delivered(f, k)),
           NEW x, Near(f, k, x)
    PROVE  /\ InWindow(r, NumOf(x)) <=>
                  /\ Delivered(f, k) <= x
                  /\ WindowOf(x) <= WindowOf(Delivered(f, k)) + FreeWindows - 2
           /\ Delivered(f, k) <= x /\ Acknowledged(r, NumOf(x)) => InWindow(r, NumOf(x))
           /\ NumOf(x) = r.rseq => x = Delivered(f, k)
<1>1. PICK d \in Nat : d = Delivered(f, k)
  BY DeliveredFacts
<1>2. /\ FreeWindows \in Nat /\ FreeWindows >= 3 /\ Windows = 2 * FreeWindows /\ Windows \in Nat
  BY Consts
<1>3. x \in Nat /\ WindowOf(x) <= WindowOf(d) + FreeWindows
      /\ WindowOf(d) <= WindowOf(x) + FreeWindows + 1
  BY <1>1 DEF Near
<1>4. WindowOf(x) \in Nat /\ WindowOf(d) \in Nat
  BY <1>3, WinBounds
<1>5. WindowOf(x) - WindowOf(d) < Windows /\ WindowOf(d) - WindowOf(x) < Windows
  BY <1>2, <1>3, <1>4
<1>6. Ahead(r, NumOf(x)) = WindowOf(x) - WindowOf(d) + (IF x < d THEN Windows ELSE 0)
  BY <1>1, <1>3, <1>5, AheadOf
<1>7. PICK a \in Int : a = Ahead(r, NumOf(x))
  BY <1>2, <1>4, <1>6
<1>8. InWindow(r, NumOf(x)) <=> d <= x /\ WindowOf(x) <= WindowOf(d) + FreeWindows - 2
  <2>1. a \in 0..FreeWindows - 2 <=> d <= x /\ WindowOf(x) <= WindowOf(d) + FreeWindows - 2
    <3>1. CASE x < d
      <4>1. a = WindowOf(x) - WindowOf(d) + Windows
        BY <1>6, <1>7, <3>1
      <4>. QED BY <1>2, <1>3, <1>4, <3>1, <4>1
    <3>2. CASE d <= x
      <4>1. a = WindowOf(x) - WindowOf(d)
        BY <1>3, <1>4, <1>6, <1>7, <3>2
      <4>2. WindowOf(d) <= WindowOf(x)
        BY <1>3, <3>2, WinMono
      <4>. QED BY <1>2, <1>3, <1>4, <3>2, <4>1, <4>2
    <3>. QED BY <1>3, <3>1, <3>2
  <2>. QED BY <1>7, <2>1 DEF InWindow
<1>9. d <= x /\ Acknowledged(r, NumOf(x)) => InWindow(r, NumOf(x))
  <2>1. SUFFICES ASSUME d <= x, a \notin {FreeWindows - 1, FreeWindows} PROVE a \in 0..FreeWindows - 2
    BY <1>7 DEF Acknowledged, InWindow
  <2>2. a = WindowOf(x) - WindowOf(d)
    BY <1>3, <1>4, <1>6, <1>7, <2>1
  <2>3. WindowOf(d) <= WindowOf(x)
    BY <1>3, <2>1, WinMono
  <2>. QED BY <1>2, <1>3, <1>4, <2>1, <2>2, <2>3
<1>10. NumOf(x) = r.rseq => x = d
  <2>1. x - d < Numbers /\ d - x < Numbers
    BY <1>3, <1>5, WinNear
  <2>. QED BY <1>1, <1>3, <2>1, NumsDiffer
<1>. QED BY <1>1, <1>8, <1>9, <1>10

\* The packets that are accepted are less than a turn ahead.
LEMMA AcceptableNear ==
    ASSUME NEW f, NEW st, Known(f, st), NEW k \in 0..Len(st), NEW q \in 1..Len(st),
           Acceptable(f, k, q)
    PROVE  /\ Delivered(f, k) \in Nat /\ f[q] \in Nat
           /\ Delivered(f, k) < f[q] /\ f[q] < Delivered(f, k) + Numbers
           /\ Near(f, k, f[q])
<1>1. PICK d \in Nat : d = Delivered(f, k)
  BY DeliveredFacts
<1>2. PICK x \in Nat : x = f[q] /\ d < x
  BY <1>1, DeliveredFacts DEF Acceptable
<1>3. FreeWindows \in Nat /\ FreeWindows >= 3 /\ Windows = 2 * FreeWindows /\ Numbers \in Nat
  BY Consts
<1>4. WindowOf(x) \in Nat /\ WindowOf(d) \in Nat /\ WindowOf(d) <= WindowOf(x)
  <2>1. d <= x
    BY <1>2
  <2>. QED BY <2>1, WinBounds, WinMono, Zenon
<1>5. WindowOf(x) <= WindowOf(d) + FreeWindows - 2
  BY <1>1, <1>2 DEF Acceptable
<1>6. WindowOf(x) - WindowOf(d) < Windows
  BY <1>3, <1>4, <1>5
<1>7. x - d < Numbers
  BY <1>6, WinNear
<1>8. Near(f, k, x)
  <2>1. WindowOf(x) <= WindowOf(d) + FreeWindows /\ WindowOf(d) <= WindowOf(x) + FreeWindows + 1
    BY <1>3, <1>4, <1>5
  <2>. QED BY <1>1, <2>1 DEF Near
<1>. QED BY <1>1, <1>2, <1>3, <1>7, <1>8

\* What an entry of the queue is known by.
LEMMA SlotFacts ==
    ASSUME NEW f, NEW st, Known(f, st), NEW k \in 0..Len(st), NEW list, Len(list) \in Nat,
           NEW g, Slots(f, st, k, list, g), NEW j \in 1..Len(list)
    PROVE  /\ g[j] \in 1..Len(st) /\ EntryOf(f, st, list[j], g[j]) /\ Acceptable(f, k, g[j])
           /\ k < g[j]
           /\ \A q \in 1..Len(st) : list[j].pkt = st[q] <=> g[j] = q
           /\ \A i \in 1..Len(list) : i < j => g[i] < g[j]
           /\ \A i \in 1..Len(list) : i <= j => g[i] <= g[j]
<1>1. /\ g[j] \in 1..Len(st) /\ EntryOf(f, st, list[j], g[j]) /\ Acceptable(f, k, g[j])
      /\ \A i \in 1..Len(list) : i < j => g[i] < g[j]
  BY DEF Slots
<1>2. k < g[j] /\ list[j].pkt = st[g[j]]
  BY <1>1 DEF Acceptable, EntryOf
<1>3. ASSUME NEW q \in 1..Len(st)
      PROVE  list[j].pkt = st[q] <=> g[j] = q
  <2>1. g[j] = q <=> st[g[j]] = st[q]
    BY <1>1, Ascending
  <2>. QED BY <1>2, <2>1
<1>4. ASSUME NEW i \in 1..Len(list), i <= j
      PROVE  g[i] <= g[j]
  <2>1. i < j \/ i = j
    BY <1>4
  <2>2. Len(st) \in Nat
    BY DeliveredFacts
  <2>3. g[i] \in 1..Len(st)
    BY DEF Slots
  <2>. QED BY <1>1, <2>1, <2>2, <2>3
<1>. QED BY <1>1, <1>2, <1>3, <1>4

\* p is where packet q belongs, whose number is m.
IsPlace(p, r, g, q, m) ==
    /\ p = Place(r, m) /\ p \in 0..Len(r.reliable)
    /\ \A j \in 1..Len(r.reliable) : j <= p <=> g[j] <= q
    /\ Holds(r, m) <=> p > 0 /\ g[p] = q

\* The search in the reliable list finds the place of a packet's entry, or
\* the one that it belongs behind.
LEMMA PlaceOf ==
    ASSUME NEW f, NEW st, Known(f, st), NEW n \in Nat, NEW r \in Chan(n),
           NEW k \in 0..Len(st), r.rseq = NumOf(Delivered(f, k)),
           NEW g, Slots(f, st, k, r.reliable, g),
           NEW q \in 1..Len(st), Acceptable(f, k, q)
    PROVE  IsPlace(Place(r, NumOf(f[q])), r, g, q, NumOf(f[q]))
<1> DEFINE m == NumOf(f[q])
           stops(e) == IF m >= r.rseq THEN e.rseq >= r.rseq /\ e.rseq <= m
                                      ELSE e.rseq >= r.rseq \/ e.rseq <= m
           T == {i \in DOMAIN r.reliable : stops(r.reliable[i])}
<1>1. PICK N \in Nat : N = Len(r.reliable) /\ DOMAIN r.reliable = 1..N
  BY ChanFacts
<1>2. PICK d \in Nat : d = Delivered(f, k) /\ r.rseq = NumOf(d)
  BY DeliveredFacts
<1>3. PICK x \in Nat : x = f[q] /\ d < x /\ x < d + Numbers
  BY <1>2, AcceptableNear
<1>4. Numbers \in Nat
  BY Consts
<1>5. ASSUME NEW j \in 1..N
      PROVE  /\ stops(r.reliable[j]) <=> g[j] <= q
             /\ r.reliable[j].rseq = m <=> g[j] = q
  <2>1. g[j] \in 1..Len(st) /\ EntryOf(f, st, r.reliable[j], g[j]) /\ Acceptable(f, k, g[j])
    BY <1>1, SlotFacts
  <2>2. PICK y \in Nat : y = f[g[j]] /\ d < y /\ y < d + Numbers
    BY <1>2, <2>1, AcceptableNear
  <2>3. PICK c : c = r.reliable[j].rseq /\ c = NumOf(y)
    BY <2>1, <2>2 DEF EntryOf
  <2>4. (IF NumOf(x) >= NumOf(d) THEN NumOf(y) >= NumOf(d) /\ NumOf(y) <= NumOf(x)
         ELSE NumOf(y) >= NumOf(d) \/ NumOf(y) <= NumOf(x)) <=> y <= x
    BY <1>2, <1>3, <2>2, UpTo
  <2>5. stops(r.reliable[j]) <=> y <= x
    BY <1>2, <1>3, <2>3, <2>4
  <2>6. c = m <=> y = x
    <3>1. x - y < Numbers /\ y - x < Numbers
      BY <1>2, <1>3, <1>4, <2>2, SMTT(30)
    <3>2. NumOf(x) = NumOf(y) => x = y
      BY <1>3, <2>2, <3>1, NumsDiffer
    <3>. QED BY <1>3, <2>3, <3>2
  <2>7. /\ g[j] <= q <=> y <= x
        /\ g[j] = q <=> y = x
    <3>1. Len(st) \in Nat /\ \A a, b \in 1 .. Len(st) + 1 : a < b => f[a] < f[b]
      BY FirstsFacts DEF Known
    <3>2. /\ g[j] < q => y < x
          /\ q < g[j] => x < y
      BY <1>3, <2>1, <2>2, <3>1, SMTT(30)
    <3>3. g[j] \in Int /\ q \in Int
      BY <2>1, <3>1
    <3>. QED BY <1>3, <2>2, <3>2, <3>3, SMTT(30)
  <2> HIDE DEF stops, m
  <2>. QED BY <2>3, <2>5, <2>6, <2>7
<1>6. T \in SUBSET (1..N)
  BY <1>1
<1>7. Place(r, m) = Max({0} \cup T)
  BY DEF Place
<1>8. \A j \in 1..N : j \in T <=> g[j] <= q
  BY <1>1, <1>5
<1> HIDE DEF T, m, stops
<1>9. {0} \cup T \in SUBSET (0..N)
  <2>1. \A i \in {0} \cup T : i \in 0..N
    BY <1>6
  <2>. QED BY <2>1
<1>10. PICK p \in 0..N : p = Place(r, m) /\ p \in {0} \cup T /\ \A i \in {0} \cup T : i <= p
  BY <1>7, <1>9, MaxIn
<1>11. ASSUME NEW j \in 1..N
       PROVE  j <= p <=> g[j] <= q
  <2>1. CASE g[j] <= q
    BY <1>8, <1>10, <2>1
  <2>2. CASE ~(g[j] <= q)
    <3>1. SUFFICES ASSUME j <= p PROVE FALSE
      BY <2>2
    <3>2. p \in 1..N /\ g[p] <= q
      BY <1>8, <1>10, <3>1
    <3>3. g[j] <= g[p] /\ g[j] \in 1..Len(st) /\ g[p] \in 1..Len(st) /\ Len(st) \in Nat
      BY <1>1, <3>1, <3>2, SlotFacts, DeliveredFacts
    <3>. QED BY <2>2, <3>2, <3>3
  <2>. QED BY <2>1, <2>2
<1>12. Holds(r, m) <=> p > 0 /\ g[p] = q
  <2>1. Holds(r, m) <=> p > 0 /\ r.reliable[p].rseq = m
    BY <1>10 DEF Holds
  <2>2. p > 0 => p \in 1..N
    BY <1>10
  <2>. QED BY <1>5, <2>1, <2>2
<1>13. IsPlace(p, r, g, q, m)
  BY <1>1, <1>10, <1>11, <1>12 DEF IsPlace
<1>. QED BY <1>10, <1>13 DEF m

\* The entry for number m is the j-th.
HoldsAt(r, m, j) == Place(r, m) = j /\ Holds(r, m)

LEMMA PlaceHeld ==
    ASSUME NEW f, NEW st, Known(f, st), NEW n \in Nat, NEW r \in Chan(n),
           NEW k \in 0..Len(st), r.rseq = NumOf(Delivered(f, k)),
           NEW g, Slots(f, st, k, r.reliable, g),
           NEW j \in 1..Len(r.reliable), NEW q, q = g[j]
    PROVE  HoldsAt(r, NumOf(f[q]), j)
<1>1. PICK N \in Nat : N = Len(r.reliable)
  BY ChanFacts
<1>2. q \in 1..Len(st) /\ Acceptable(f, k, q) /\ Len(st) \in Nat
  BY <1>1, SlotFacts, DeliveredFacts
<1>3. PICK p \in 0..N : /\ p = Place(r, NumOf(f[q]))
                        /\ \A i \in 1..N : i <= p <=> g[i] <= q
                        /\ Holds(r, NumOf(f[q])) <=> p > 0 /\ g[p] = q
  <2>1. IsPlace(Place(r, NumOf(f[q])), r, g, q, NumOf(f[q]))
    BY <1>2, PlaceOf, Zenon
  <2>. QED BY <1>1, <2>1 DEF IsPlace
<1>4. j <= p
  BY <1>1, <1>2, <1>3
<1>5. p \in 1..N /\ g[p] <= q
  BY <1>1, <1>3, <1>4
<1>6. ~(j < p)
  <2>1. SUFFICES ASSUME j < p PROVE FALSE
    OBVIOUS
  <2>2. g[j] < g[p] /\ g[p] \in 1..Len(st)
    BY <1>1, <1>5, <2>1, SlotFacts
  <2>. QED BY <1>2, <1>5, <2>2
<1>7. j = p
  BY <1>1, <1>3, <1>4, <1>6
<1>. QED BY <1>3, <1>5, <1>7 DEF HoldsAt

\* A new entry at its place.
LEMMA SlotsInsert ==
    ASSUME NEW f, NEW st, Known(f, st), NEW n \in Nat, NEW r \in Chan(n),
           NEW k \in 0..Len(st), r.rseq = NumOf(Delivered(f, k)),
           NEW g, Slots(f, st, k, r.reliable, g),
           NEW q \in 1..Len(st), Acceptable(f, k, q), ~Holds(r, NumOf(f[q])),
           NEW e, EntryOf(f, st, e, q), NEW S,
           NEW u, IsInserted(S, r.reliable, Place(r, NumOf(f[q])) + 1, e, u)
    PROVE  \E h : Slots(f, st, k, u, h)
<1>1. PICK N \in Nat : N = Len(r.reliable)
  BY ChanFacts
<1>2. PICK p \in 0..N : /\ p = Place(r, NumOf(f[q]))
                        /\ \A i \in 1..N : i <= p <=> g[i] <= q
                        /\ Holds(r, NumOf(f[q])) <=> p > 0 /\ g[p] = q
  <2>1. IsPlace(Place(r, NumOf(f[q])), r, g, q, NumOf(f[q]))
    BY PlaceOf, Zenon
  <2>. QED BY <1>1, <2>1 DEF IsPlace
<1>3. /\ Len(u) = N + 1 /\ u[p + 1] = e
      /\ \A i \in 1..p : u[i] = r.reliable[i]
      /\ \A i \in p + 2 .. N + 1 : u[i] = r.reliable[i - 1]
  <2>1. /\ Len(u) = Len(r.reliable) + 1 /\ u[p + 1] = e
        /\ \A i \in 1 .. p + 1 - 1 : u[i] = r.reliable[i]
        /\ \A i \in p + 1 + 1 .. Len(r.reliable) + 1 : u[i] = r.reliable[i - 1]
    <3>1. IsInserted(S, r.reliable, p + 1, e, u)
      BY <1>2, Zenon
    <3>. QED BY <3>1 DEF IsInserted
  <2>2. p + 1 - 1 = p /\ p + 1 + 1 = p + 2
    OBVIOUS
  <2>. QED BY <1>1, <2>1, <2>2
<1>4. Len(st) \in Nat
  BY DeliveredFacts
<1>5. \A i \in 1..N : /\ g[i] \in 1..Len(st) /\ EntryOf(f, st, r.reliable[i], g[i])
                      /\ Acceptable(f, k, g[i])
                      /\ \A j \in 1..N : j < i => g[j] < g[i]
  BY <1>1 DEF Slots
<1>6. \A i \in 1..p : g[i] < q
  <2>1. TAKE i \in 1..p
  <2>2. i \in 1..N /\ g[i] <= q
    BY <1>2
  <2>3. g[i] # q
    <3>1. SUFFICES ASSUME g[i] = q PROVE FALSE
      OBVIOUS
    <3>2. Holds(r, NumOf(f[q]))
      <4>1. HoldsAt(r, NumOf(f[q]), i)
        BY <1>1, <2>2, <3>1, PlaceHeld, Zenon
      <4>. QED BY <4>1 DEF HoldsAt
    <3>. QED BY <3>2
  <2>. QED BY <1>4, <1>5, <2>2, <2>3
<1>7. \A i \in p + 1 .. N : q < g[i]
  <2>1. TAKE i \in p + 1 .. N
  <2>2. i \in 1..N /\ ~(i <= p)
    BY <1>2
  <2>. QED BY <1>2, <1>4, <1>5, <2>2
<1> DEFINE h == [i \in 1..N + 1 |-> IF i <= p THEN g[i] ELSE IF i = p + 1 THEN q ELSE g[i - 1]]
<1>8. /\ \A i \in 1..p : h[i] = g[i]
      /\ h[p + 1] = q
      /\ \A i \in p + 2 .. N + 1 : h[i] = g[i - 1]
      /\ DOMAIN h = 1..N + 1 /\ h = [i \in 1..N + 1 |-> h[i]]
  BY <1>2
<1> HIDE DEF h
<1>9. ASSUME NEW i \in 1..N + 1
      PROVE  h[i] \in 1..Len(st) /\ EntryOf(f, st, u[i], h[i]) /\ Acceptable(f, k, h[i])
  <2>1. CASE i <= p
    <3>1. i \in 1..p /\ i \in 1..N
      BY <1>2, <2>1
    <3>. QED BY <1>3, <1>5, <1>8, <3>1
  <2>2. CASE i = p + 1
    BY <1>3, <1>8, <2>2
  <2>3. CASE i > p + 1
    <3>1. i \in p + 2 .. N + 1 /\ i - 1 \in 1..N
      BY <1>2, <2>3
    <3>. QED BY <1>3, <1>5, <1>8, <3>1
  <2>. QED BY <1>2, <2>1, <2>2, <2>3
<1>10. ASSUME NEW i \in 1..N + 1, NEW j \in 1..N + 1, i < j
       PROVE  h[i] < h[j]
  <2>1. CASE j <= p
    <3>1. i \in 1..p /\ j \in 1..p /\ i \in 1..N /\ j \in 1..N
      BY <1>2, <1>10, <2>1
    <3>. QED BY <1>5, <1>8, <1>10, <3>1
  <2>2. CASE j = p + 1
    <3>1. i \in 1..p
      BY <1>2, <1>10, <2>2
    <3>. QED BY <1>6, <1>8, <2>2, <3>1
  <2>3. CASE j > p + 1
    <3>1. j \in p + 2 .. N + 1 /\ j - 1 \in p + 1 .. N /\ j - 1 \in 1..N
      BY <1>2, <2>3
    <3>2. h[j] = g[j - 1]
      BY <1>8, <3>1
    <3>3. CASE i <= p
      <4>1. i \in 1..p /\ i \in 1..N /\ i < j - 1
        BY <1>2, <2>3, <3>3
      <4>. QED BY <1>5, <1>8, <3>1, <3>2, <4>1
    <3>4. CASE i = p + 1
      BY <1>7, <1>8, <3>1, <3>2, <3>4
    <3>5. CASE i > p + 1
      <4>1. i \in p + 2 .. N + 1 /\ i - 1 \in 1..N /\ i - 1 < j - 1
        BY <1>2, <1>10, <3>5
      <4>. QED BY <1>5, <1>8, <3>1, <3>2, <4>1
    <3>. QED BY <1>2, <3>3, <3>4, <3>5
  <2>. QED BY <1>2, <2>1, <2>2, <2>3
<1>11. h \in [1..Len(u) -> 1..Len(st)]
  BY <1>3, <1>8, <1>9
<1>12. Slots(f, st, k, u, h)
  BY <1>3, <1>9, <1>10, <1>11 DEF Slots
<1>. QED BY <1>12

\* The numbers of a packet's parts end with that before the next packet.
LEMMA LastOfEntry ==
    ASSUME NEW f, NEW st, Known(f, st), NEW q \in 1..Len(st), NEW e, EntryOf(f, st, e, q)
    PROVE  LastNumber(e) = NumOf(Delivered(f, q)) /\ e.rseq = NumOf(f[q])
<1>1. PICK x \in Nat, p \in {1, 2} : x = f[q] /\ p = Parts(f, q) /\ f[q + 1] = x + p
  <2>1. st \in Seq(Nat) /\ Firsts(f, st)
    BY DEF Known
  <2>2. f[q] \in Nat /\ Parts(f, q) \in {1, 2} /\ f[q + 1] = f[q] + Parts(f, q)
    BY <2>1, FirstsFacts
  <2>. QED BY <2>2
<1>2. e.rseq = NumOf(x) /\ e.count = (IF p = 1 THEN 0 ELSE 2)
  BY <1>1 DEF EntryOf
<1>3. PICK d \in {0, 1} : d = p - 1 /\ (IF e.count = 0 THEN 0 ELSE e.count - 1) = d
  BY <1>2
<1>4. LastNumber(e) = (NumOf(x) + d) % Numbers
  BY <1>2, <1>3 DEF LastNumber
<1>5. LastNumber(e) = NumOf(x + d)
  BY <1>4, NextNum
<1>6. Delivered(f, q) = x + d
  BY <1>1, <1>3 DEF Delivered
<1>. QED BY <1>1, <1>2, <1>5, <1>6

LEMMA NextOfDelivered ==
    ASSUME NEW f, NEW st, Known(f, st), NEW k \in 0..Len(st)
    PROVE  Next16(NumOf(Delivered(f, k))) = NumOf(f[k + 1])
<1>1. PICK d \in Nat : d = Delivered(f, k) /\ f[k + 1] = d + 1
  BY DeliveredFacts
<1>2. (NumOf(d) + 1) % Numbers = NumOf(d + 1)
  BY NextNum
<1>. QED BY <1>1, <1>2 DEF Next16

LEMMA DeliveredMono ==
    ASSUME NEW f, NEW st, Known(f, st), NEW k \in 0..Len(st), NEW j \in 0..Len(st), k <= j
    PROVE  Delivered(f, k) <= Delivered(f, j)
<1>1. Len(st) \in Nat /\ \A q, r \in 1 .. Len(st) + 1 : q < r => f[q] < f[r]
  BY FirstsFacts DEF Known
<1>2. PICK a \in Nat, b \in Nat : /\ a = Delivered(f, k) /\ f[k + 1] = a + 1
                                  /\ b = Delivered(f, j) /\ f[j + 1] = b + 1
  BY DeliveredFacts
<1>3. k + 1 \in 1 .. Len(st) + 1 /\ j + 1 \in 1 .. Len(st) + 1
  BY <1>1
<1>4. k < j \/ k = j
  BY <1>1
<1>5. k < j => f[k + 1] < f[j + 1]
  <2>1. k < j => k + 1 < j + 1
    BY <1>1
  <2>. QED BY <1>1, <1>3, <2>1
<1>. QED BY <1>2, <1>4, <1>5

\* A whole packet has all of its parts.
LEMMA CompleteHas ==
    ASSUME NEW f, NEW st, NEW q, NEW e, EntryOf(f, st, e, q), Complete(e), NEW i \in {1, 2}
    PROVE  e.count = 0 \/ i \in e.got
<1>1. e.count \in {0, 2} /\ e.got \subseteq {1, 2}
  BY DEF EntryOf
<1>2. SUFFICES ASSUME e.count = 2, i \notin e.got PROVE FALSE
  BY <1>1
<1>3. Cardinality(e.got) = 2
  BY <1>2 DEF Complete
<1>4. e.got = {} \/ e.got = {1} \/ e.got = {2}
  BY <1>1, <1>2
<1>5. Cardinality({}) = 0 /\ Cardinality({1}) = 1 /\ Cardinality({2}) = 1
  BY FS_EmptySet, FS_Singleton
<1>. QED BY <1>3, <1>4, <1>5

\* The first m of the packets g[1], g[2] and so on follow packet k.
Follow(g, k, m) == \A i \in 1..m : g[i] = k + i

\* The entries that continue the stream are the next packets, one by one.
LEMMA ReadyAre ==
    ASSUME NEW f, NEW st, Known(f, st), NEW n \in Nat, NEW r \in Chan(n),
           NEW k \in 0..Len(st), r.rseq = NumOf(Delivered(f, k)),
           NEW g, Slots(f, st, k, r.reliable, g), NEW m \in 0..Len(r.reliable),
           \A i \in 1..m : Continues(r, i)
    PROVE  Follow(g, k, m)
<1>1. PICK N \in Nat : N = Len(r.reliable) /\ m \in 0..N
  BY ChanFacts
<1>2. PICK M \in Nat : M = Len(st) /\ k \in 0..M
  BY DeliveredFacts
<1> DEFINE S == {i \in Nat : \A a \in 1..m : a <= i => g[a] = k + a}
<1>3. 0 \in S
  BY <1>1
<1>4. ASSUME NEW i \in S
      PROVE  i + 1 \in S
  <2>1. i \in Nat /\ \A a \in 1..m : a <= i => g[a] = k + a
    BY <1>4
  <2>2. SUFFICES ASSUME i + 1 <= m PROVE g[i + 1] = k + (i + 1)
    <3>1. \A a \in 1..m : a <= i + 1 => a <= i \/ a = i + 1
      BY <2>1
    <3>2. i + 1 \in Nat
      BY <2>1
    <3>3. i + 1 \in 1..m => i + 1 <= m
      BY <1>1
    <3>. QED BY <2>1, <3>1, <3>2, <3>3
  <2> HIDE DEF S
  <2>3. i + 1 \in 1..m /\ i + 1 \in 1..N
    BY <1>1, <2>1, <2>2
  <2>4. /\ g[i + 1] \in 1..M /\ EntryOf(f, st, r.reliable[i + 1], g[i + 1])
        /\ Acceptable(f, k, g[i + 1]) /\ k < g[i + 1]
    BY <1>1, <1>2, <2>3, SlotFacts
  <2>5. i # 0 => i \in 1..m /\ i \in 1..N /\ g[i] = k + i /\ g[i] < g[i + 1] /\ g[i] \in 1..M
                 /\ EntryOf(f, st, r.reliable[i], g[i])
    <3>1. SUFFICES ASSUME i # 0
                   PROVE  i \in 1..m /\ i \in 1..N /\ g[i] = k + i /\ g[i] < g[i + 1]
                          /\ g[i] \in 1..M /\ EntryOf(f, st, r.reliable[i], g[i])
      BY Zenon
    <3>2. i \in 1..m /\ i \in 1..N /\ i < i + 1
      BY <1>1, <2>1, <2>3, <3>1
    <3>3. g[i] = k + i
      BY <2>1, <3>2
    <3>4. g[i] < g[i + 1] /\ g[i] \in 1..M /\ EntryOf(f, st, r.reliable[i], g[i])
      BY <1>1, <1>2, <2>3, <3>2, SlotFacts
    <3>. QED BY <3>2, <3>3, <3>4
  <2>6. k + i \in 0..Len(st) /\ k + i + 1 \in 1..Len(st) /\ k + i + 1 <= g[i + 1]
    BY <1>2, <2>1, <2>4, <2>5
  <2> DEFINE before == IF i + 1 = 1 THEN r.rseq ELSE LastNumber(r.reliable[(i + 1) - 1])
  <2>7. before = NumOf(Delivered(f, k + i))
    <3>1. CASE i = 0
      <4>1. i + 1 = 1 /\ k + i = k
        BY <1>2, <3>1
      <4>. QED BY <4>1
    <3>2. CASE i # 0
      <4>1. i + 1 # 1 /\ i + 1 - 1 = i
        BY <2>1, <3>2
      <4>2. LastNumber(r.reliable[i]) = NumOf(Delivered(f, g[i]))
        BY <1>2, <2>5, <3>2, LastOfEntry
      <4>3. g[i] = k + i
        BY <2>5, <3>2
      <4>4. before = LastNumber(r.reliable[i])
        <5>1. PICK c \in Nat : c = i + 1 /\ c # 1 /\ c - 1 = i
          BY <2>1, <4>1
        <5>2. before = IF c = 1 THEN r.rseq ELSE LastNumber(r.reliable[c - 1])
          BY <5>1, Zenon
        <5> HIDE DEF before
        <5>. QED BY <5>1, <5>2
      <4> HIDE DEF before
      <4>. QED BY <4>2, <4>3, <4>4
    <3>. QED BY <3>1, <3>2
  <2>8. r.reliable[i + 1].rseq = Next16(before)
    <3>1. Continues(r, i + 1)
      BY <2>3
    <3>. QED BY <3>1 DEF Continues
  <2> HIDE DEF before
  <2>9. r.reliable[i + 1].rseq = NumOf(f[k + i + 1])
    <3>1. Next16(NumOf(Delivered(f, k + i))) = NumOf(f[k + i + 1])
      BY <2>6, NextOfDelivered
    <3>. QED BY <2>7, <2>8, <3>1
  <2>10. r.reliable[i + 1].rseq = NumOf(f[g[i + 1]])
    BY <2>4 DEF EntryOf
  <2>11. PICK y \in Nat, d \in Nat : y = f[g[i + 1]] /\ d = Delivered(f, k) /\ d < y /\ y < d + Numbers
    BY <1>2, <2>4, AcceptableNear
  <2>12. PICK x \in Nat : x = f[k + i + 1] /\ d < x
    <3>1. f[k + i + 1] \in Nat /\ (k < k + i + 1 <=> Delivered(f, k) < f[k + i + 1])
      BY <2>6, DeliveredFacts
    <3>2. k < k + i + 1
      BY <1>2, <2>1
    <3>. QED BY <2>11, <3>1, <3>2
  <2>13. \A a, b \in 1 .. Len(st) + 1 : a < b => f[a] < f[b]
    BY FirstsFacts DEF Known
  <2>14. PICK a \in 1..M, b \in 1..M :
            /\ a = k + i + 1 /\ b = g[i + 1] /\ a <= b /\ x = f[a] /\ y = f[b]
            /\ a < b => x < y
    <3>1. PICK a \in 1..M : a = k + i + 1
      BY <1>2, <2>6
    <3>2. PICK b \in 1..M : b = g[i + 1]
      BY <2>4
    <3>3. a \in 1 .. Len(st) + 1 /\ b \in 1 .. Len(st) + 1
      BY <1>2
    <3>4. a < b => f[a] < f[b]
      BY <2>13, <3>3
    <3>. QED BY <2>6, <2>11, <2>12, <3>1, <3>2, <3>4
  <2>15. x = y
    <3>0. x <= y
      <4>1. a < b \/ a = b
        BY <1>2, <2>14
      <4>. QED BY <2>14, <4>1
    <3>1. PICK T \in Nat : T = Numbers
      BY Consts
    <3>2. x - y < Numbers /\ y - x < Numbers
      BY <2>11, <2>12, <3>0, <3>1
    <3>. QED BY <2>9, <2>10, <2>11, <2>12, <3>2, NumsDiffer
  <2>16. a = b
    BY <1>2, <2>14, <2>15
  <2>. QED BY <1>2, <2>1, <2>14, <2>16
<1>5. S = Nat
  <2>1. S \in SUBSET Nat
    OBVIOUS
  <2> HIDE DEF S
  <2>. QED BY <1>3, <1>4, <2>1, NatSet
<1>6. m \in S
  BY <1>1, <1>5
<1>. QED BY <1>1, <1>6 DEF Follow

\* What was delivered and what is queued, after the first m entries of the
\* queue went out.
LeftBy(f, st, k, m, g, s, t) ==
    /\ k + m \in 0..Len(st)
    /\ t.r.rseq = NumOf(Delivered(f, k + m))
    /\ Slots(f, st, k + m, t.r.reliable, [j \in 1..Len(t.r.reliable) |-> g[j + m]])
    /\ \A i \in 1..m : t.out[i] = st[k + i] /\ g[i] = k + i /\ Complete(s.r.reliable[i])
    /\ Blocked(t.r)

LEMMA QueueAfter ==
    ASSUME NEW f, NEW st, Known(f, st), NEW n \in Nat, NEW s \in Res(n),
           NEW k \in 0..Len(st), s.r.rseq = NumOf(Delivered(f, k)),
           NEW g, Slots(f, st, k, s.r.reliable, g), NEW m, NEW t, TookOut(n, s, m, t)
    PROVE  LeftBy(f, st, k, m, g, s, t)
<1>1. s.r \in Chan(n) /\ t.r \in Chan(n)
  BY DEF TookOut, Res
<1>2. PICK N \in Nat : N = Len(s.r.reliable)
  BY <1>1, ChanFacts
<1>3. PICK M \in Nat : M = Len(st) /\ k \in 0..M
  BY DeliveredFacts
<1>4. /\ m \in 0..N
      /\ \A i \in 1..m : Continues(s.r, i)
      /\ m < N => ~Continues(s.r, m + 1)
      /\ t.r.rseq = IF m = 0 THEN s.r.rseq ELSE LastNumber(s.r.reliable[m])
      /\ Len(t.r.reliable) = N - m
      /\ \A j \in 1..Len(t.r.reliable) : t.r.reliable[j] = s.r.reliable[j + m]
      /\ \A j \in 1..m : t.out[j] = s.r.reliable[j].pkt
  BY <1>2 DEF TookOut
<1>5. \A i \in 1..m : g[i] = k + i
  <2>1. m \in 0..Len(s.r.reliable) /\ \A i \in 1..m : Continues(s.r, i)
    BY <1>2, <1>4
  <2>2. Follow(g, k, m)
    BY <1>1, <2>1, ReadyAre, Zenon
  <2>. QED BY <2>2 DEF Follow
<1>6. \A j \in 1..N : /\ g[j] \in 1..M /\ EntryOf(f, st, s.r.reliable[j], g[j])
                      /\ Acceptable(f, k, g[j]) /\ k < g[j]
                      /\ \A i \in 1..N : i < j => g[i] < g[j]
  BY <1>2, <1>3, SlotFacts
<1>7. \A i \in 1..m : t.out[i] = st[k + i] /\ Complete(s.r.reliable[i])
  <2>1. TAKE i \in 1..m
  <2>2. i \in 1..N /\ g[i] = k + i
    BY <1>4, <1>5
  <2>3. s.r.reliable[i].pkt = st[g[i]]
    BY <1>6, <2>2 DEF EntryOf
  <2>4. Complete(s.r.reliable[i])
    BY <1>4 DEF Continues
  <2>. QED BY <1>4, <2>2, <2>3, <2>4
<1>8. m # 0 => m \in 1..m /\ m \in 1..N /\ g[m] = k + m /\ g[m] \in 1..M
  BY <1>4, <1>5, <1>6
<1>9. k + m \in 0..M
  BY <1>3, <1>4, <1>8
<1>10. t.r.rseq = NumOf(Delivered(f, k + m))
  <2>1. CASE m = 0
    <3>1. k + m = k
      BY <1>3, <2>1
    <3>. QED BY <1>4, <2>1, <3>1
  <2>2. CASE m # 0
    <3>1. LastNumber(s.r.reliable[m]) = NumOf(Delivered(f, g[m]))
      BY <1>3, <1>6, <1>8, <2>2, LastOfEntry
    <3>. QED BY <1>4, <1>8, <2>2, <3>1
  <2>. QED BY <2>1, <2>2
<1> DEFINE h == [j \in 1..Len(t.r.reliable) |-> g[j + m]]
<1>11. \A j \in 1 .. N - m : j + m \in 1..N /\ h[j] = g[j + m] /\ j + m > m
  BY <1>4
<1>12. ASSUME NEW j \in 1 .. N - m
       PROVE  /\ h[j] \in 1..M /\ EntryOf(f, st, t.r.reliable[j], h[j])
              /\ Acceptable(f, k + m, h[j])
  <2>1. j + m \in 1..N /\ h[j] = g[j + m] /\ t.r.reliable[j] = s.r.reliable[j + m]
    BY <1>4, <1>11
  <2> HIDE DEF h
  <2>2. PICK q \in 1..M : q = h[j] /\ Acceptable(f, k, q) /\ k < q /\ EntryOf(f, st, t.r.reliable[j], q)
    BY <1>6, <2>1
  <2>3. k + m < q
    <3>1. CASE m = 0
      BY <1>3, <2>2, <3>1
    <3>2. CASE m # 0
      <4>1. g[m] < g[j + m]
        BY <1>6, <1>8, <1>11, <2>1, <3>2
      <4>. QED BY <1>8, <2>1, <2>2, <3>2, <4>1
    <3>. QED BY <3>1, <3>2
  <2>4. Acceptable(f, k + m, q)
    <3>1. Delivered(f, k) <= Delivered(f, k + m)
      <4>1. k <= k + m
        BY <1>3, <1>4
      <4>. QED BY <1>3, <1>9, <4>1, DeliveredMono
    <3>2. Delivered(f, k) \in Nat /\ Delivered(f, k + m) \in Nat
      BY <1>3, <1>9, DeliveredFacts
    <3>3. PICK a \in Nat, b \in Nat : a = WindowOf(Delivered(f, k)) /\ b = WindowOf(Delivered(f, k + m))
      BY <3>2, WinBounds, Zenon
    <3>4. a <= b
      <4>1. WindowOf(Delivered(f, k)) <= WindowOf(Delivered(f, k + m))
        BY <3>1, <3>2, WinMono, Zenon
      <4>. QED BY <3>3, <4>1
    <3>5. WindowOf(f[q]) <= a + FreeWindows - 2
      BY <2>2, <3>3 DEF Acceptable
    <3>6. WindowOf(f[q]) \in Nat
      <4>1. f[q] \in Nat
        BY <1>3, <2>2, DeliveredFacts
      <4>. QED BY <4>1, WinBounds, Zenon
    <3>7. FreeWindows \in Nat
      BY Consts
    <3>8. WindowOf(f[q]) <= b + FreeWindows - 2
      BY <3>4, <3>5, <3>6, <3>7
    <3>. QED BY <2>3, <3>3, <3>8 DEF Acceptable
  <2>. QED BY <2>2, <2>4
<1>13. \A i, j \in 1..Len(t.r.reliable) : i < j => h[i] < h[j]
  <2>1. TAKE i, j \in 1..Len(t.r.reliable)
  <2>2. HAVE i < j
  <2>3. i + m < j + m /\ i + m \in 1..N /\ j + m \in 1..N /\ h[i] = g[i + m] /\ h[j] = g[j + m]
    BY <1>4, <1>11, <2>2
  <2> HIDE DEF h
  <2>. QED BY <1>6, <2>3
<1>14. h \in [1..Len(t.r.reliable) -> 1..M]
  BY <1>4, <1>12
<1> HIDE DEF h
<1>15. Slots(f, st, k + m, t.r.reliable, h)
  BY <1>3, <1>4, <1>12, <1>13, <1>14 DEF Slots
<1>16. Blocked(t.r)
  <2>1. SUFFICES ASSUME Len(t.r.reliable) > 0, Continues(t.r, 1) PROVE FALSE
    BY DEF Blocked
  <2>2. m < N /\ 1 \in 1..Len(t.r.reliable)
    BY <1>4, <2>1
  <2>3. t.r.reliable[1] = s.r.reliable[m + 1]
    <3>1. t.r.reliable[1] = s.r.reliable[1 + m] /\ 1 + m = m + 1
      BY <1>4, <2>2
    <3>. QED BY <3>1
  <2>4. Complete(t.r.reliable[1]) /\ t.r.reliable[1].rseq = Next16(t.r.rseq)
    BY <2>1 DEF Continues
  <2>5. t.r.rseq = IF m + 1 = 1 THEN s.r.rseq ELSE LastNumber(s.r.reliable[(m + 1) - 1])
    <3>1. (m = 0 <=> m + 1 = 1) /\ (m + 1) - 1 = m
      BY <1>4
    <3>. QED BY <1>4, <3>1
  <2>6. Continues(s.r, m + 1)
    BY <2>3, <2>4, <2>5 DEF Continues
  <2>. QED BY <1>4, <2>2, <2>6
<1>. QED BY <1>3, <1>5, <1>7, <1>9, <1>10, <1>15, <1>16 DEF h, LeftBy

SameHas(st, k, r, j, s, q, i) == Has(st, j, s, q, i) <=> Has(st, k, r, q, i)

LEMMA HasAfter ==
    ASSUME NEW f, NEW st, Known(f, st), NEW n \in Nat, NEW s \in Res(n),
           NEW k \in 0..Len(st), s.r.rseq = NumOf(Delivered(f, k)),
           NEW g, Slots(f, st, k, s.r.reliable, g), NEW m, NEW t, TookOut(n, s, m, t),
           NEW q \in 1..Len(st), NEW i \in {1, 2}
    PROVE  SameHas(st, k, s.r, k + m, t.r, q, i)
<1>1. s.r \in Chan(n)
  BY DEF Res
<1>2. PICK N \in Nat : N = Len(s.r.reliable)
  BY <1>1, ChanFacts
<1>3. PICK M \in Nat : M = Len(st) /\ k \in 0..M
  BY DeliveredFacts
<1>4. /\ m \in 0..N /\ Len(t.r.reliable) = N - m
      /\ \A j \in 1..Len(t.r.reliable) : t.r.reliable[j] = s.r.reliable[j + m]
  BY <1>2 DEF TookOut
<1>5. \A a \in 1..m : g[a] = k + a /\ Complete(s.r.reliable[a])
  <2>1. LeftBy(f, st, k, m, g, s, t)
    BY QueueAfter, Zenon
  <2>. QED BY <2>1 DEF LeftBy
<1>6. \A j \in 1..N : /\ EntryOf(f, st, s.r.reliable[j], g[j])
                      /\ s.r.reliable[j].pkt = st[q] <=> g[j] = q
  BY <1>2, SlotFacts
<1>7. ASSUME Has(st, k + m, t.r, q, i)
      PROVE  Has(st, k, s.r, q, i)
  <2>1. CASE q <= k
    BY <2>1 DEF Has
  <2>2. CASE q > k /\ q <= k + m
    <3>1. PICK a \in 1..m : q = k + a
      <4>1. q - k \in 1..m /\ q = k + (q - k)
        BY <1>3, <1>4, <2>2
      <4>. QED BY <4>1
    <3>2. a \in 1..N /\ g[a] = q /\ Complete(s.r.reliable[a])
      BY <1>4, <1>5, <3>1
    <3>3. s.r.reliable[a].count = 0 \/ i \in s.r.reliable[a].got
      BY <1>6, <3>2, CompleteHas
    <3>4. s.r.reliable[a].pkt = st[q]
      BY <1>6, <3>2
    <3>. QED BY <1>2, <3>2, <3>3, <3>4 DEF Has
  <2>3. CASE ~(q <= k + m)
    <3>1. PICK j \in 1..Len(t.r.reliable) :
              /\ t.r.reliable[j].pkt = st[q]
              /\ t.r.reliable[j].count = 0 \/ i \in t.r.reliable[j].got
      BY <1>7, <2>3, Zenon DEF Has
    <3>2. j + m \in 1..N /\ t.r.reliable[j] = s.r.reliable[j + m]
      BY <1>4, <3>1
    <3>3. /\ s.r.reliable[j + m].pkt = st[q]
          /\ s.r.reliable[j + m].count = 0 \/ i \in s.r.reliable[j + m].got
      BY <3>1, <3>2
    <3>. QED BY <1>2, <3>2, <3>3 DEF Has
  <2>. QED BY <1>3, <1>4, <2>1, <2>2, <2>3
<1>8. ASSUME Has(st, k, s.r, q, i)
      PROVE  Has(st, k + m, t.r, q, i)
  <2>1. CASE q <= k
    <3>1. q <= k + m
      BY <1>3, <1>4, <2>1
    <3>. QED BY <3>1 DEF Has
  <2>2. CASE ~(q <= k)
    <3>1. PICK j \in 1..N :
              /\ s.r.reliable[j].pkt = st[q]
              /\ s.r.reliable[j].count = 0 \/ i \in s.r.reliable[j].got
      BY <1>2, <1>8, <2>2, Zenon DEF Has
    <3>2. CASE j <= m
      <4>1. j \in 1..m /\ g[j] = q
        BY <1>4, <1>6, <3>1, <3>2
      <4>2. q <= k + m
        BY <1>3, <1>4, <1>5, <4>1
      <4>. QED BY <4>2 DEF Has
    <3>3. CASE j > m
      <4>1. PICK a \in 1..Len(t.r.reliable) : j = a + m
        <5>1. j - m \in 1..Len(t.r.reliable) /\ j = (j - m) + m
          BY <1>4, <3>3
        <5>. QED BY <5>1
      <4>2. t.r.reliable[a] = s.r.reliable[j]
        BY <1>4, <4>1
      <4>. QED BY <3>1, <4>1, <4>2 DEF Has
    <3>. QED BY <1>4, <3>2, <3>3
  <2>. QED BY <2>1, <2>2
<1>. QED BY <1>7, <1>8 DEF SameHas

-----------------------------------------------------------------------------
(***************************************************************************)
(* What the handlers of the receiver do to its queue.                      *)
(***************************************************************************)
\* p is one of the first b packets of the script and not in the stream.
Loose(st, b, p) == p \in 1..b /\ \A q \in 1..Len(st) : st[q] # p
LooseOnly(st, b, list) == \A j \in 1..Len(list) : Loose(st, b, list[j].pkt)

\* The queue of the receiver, and what waits beside it.
Receiver(f, st, b, k, r) ==
    /\ Known(f, st) /\ Queue(f, st, k, r) /\ Blocked(r) /\ LooseOnly(st, b, r.unreliable)

\* The result h of a handler leaves j packets delivered, of which it has
\* delivered those behind the k-th.
Serves(f, st, b, k, j, h) ==
    /\ Receiver(f, st, b, j, h.r)
    /\ k <= j /\ j - k <= Len(h.out)
    /\ \A i \in 1..j - k : h.out[i] = st[k + i]
    /\ \A i \in j - k + 1 .. Len(h.out) : Loose(st, b, h.out[i])

\* The receiver has the same parts of packets before and after, or also part
\* i of packet q after.
SameParts(f, st, k, r, j, s) ==
    \A p, a : IsPart(f, st, p, a) => (Has(st, j, s, p, a) <=> Has(st, k, r, p, a))
MoreParts(f, st, k, r, j, s, q, i) ==
    \A p, a : IsPart(f, st, p, a) =>
        (Has(st, j, s, p, a) <=> Has(st, k, r, p, a) \/ (p = q /\ a = i))

\* The result h takes nothing from its command, or part i of packet q.
Passes(f, st, b, k, r, h) ==
    \E j \in k..Len(st) : Serves(f, st, b, k, j, h) /\ SameParts(f, st, k, r, j, h.r)
LEMMA DispatchServes ==
    ASSUME NEW f, NEW st, NEW b, Known(f, st), NEW n \in Nat, NEW q \in Chan(n),
           NEW k, Queue(f, st, k, q), LooseOnly(st, b, q.unreliable)
    PROVE  Passes(f, st, b, k, q, DispatchReliable(Done(q))) /\ DispatchReliable(Done(q)).ok
<1> DEFINE s == Done(q)
           t == DispatchReliable(s)
<1>1. s \in Res(n) /\ s.out = << >> /\ s.r = q /\ s.ok
  BY DEF Done, Res
<1> HIDE DEF s
<1>2. PICK m : TookOut(n, s, m, t)
  BY <1>1, DispatchReliableFacts
<1> HIDE DEF t
<1>3. PICK g : Slots(f, st, k, q.reliable, g)
  BY DEF Queue
<1>4. k \in 0..Len(st) /\ q.rseq = NumOf(Delivered(f, k)) /\ Len(st) \in Nat
  BY DeliveredFacts DEF Queue
<1>5. /\ k + m \in 0..Len(st) /\ t.r.rseq = NumOf(Delivered(f, k + m))
      /\ \E h : Slots(f, st, k + m, t.r.reliable, h)
      /\ \A i \in 1..m : t.out[i] = st[k + i]
      /\ Blocked(t.r)
  <2>1. LeftBy(f, st, k, m, g, s, t)
    BY <1>1, <1>2, <1>3, <1>4, QueueAfter, Zenon
  <2>. QED BY <1>4, <2>1 DEF LeftBy
<1>6. m \in Nat
  BY <1>2, <1>1, ChanFacts DEF TookOut
<1>7. LooseOnly(st, b, t.r.unreliable)
  <2>1. EntriesFrom(t.r.unreliable, q.unreliable)
    BY <1>1, <1>2 DEF TookOut
  <2>. QED BY <2>1 DEF EntriesFrom, LooseOnly
<1>8. Receiver(f, st, b, k + m, t.r)
  BY <1>5, <1>7 DEF Receiver, Queue
<1>9. PICK j \in k..Len(st) : j = k + m /\ j - k = m
  BY <1>4, <1>5, <1>6
<1>10. /\ m <= Len(t.out)
       /\ \A i \in m + 1 .. Len(t.out) : Loose(st, b, t.out[i])
  BY <1>1, <1>2 DEF TookOut, LooseOnly
<1>11. Serves(f, st, b, k, j, t)
  <2>1. k <= j
    BY <1>4, <1>6, <1>9
  <2>. QED BY <1>5, <1>8, <1>9, <1>10, <2>1 DEF Serves
<1>12. SameParts(f, st, k, q, j, t.r)
  <2>1. SUFFICES ASSUME NEW p, NEW a, IsPart(f, st, p, a)
                 PROVE  Has(st, j, t.r, p, a) <=> Has(st, k, q, p, a)
    BY DEF SameParts
  <2>2. p \in 1..Len(st) /\ a \in {1, 2}
    BY <2>1 DEF IsPart
  <2>3. SameHas(st, k, s.r, k + m, t.r, p, a)
    <3>1. s.r.rseq = NumOf(Delivered(f, k)) /\ Slots(f, st, k, s.r.reliable, g) /\ k \in 0..Len(st)
      BY <1>1, <1>3, <1>4
    <3>. QED BY <1>1, <1>2, <2>2, <3>1, HasAfter, Zenon
  <2>. QED BY <1>1, <1>9, <2>3 DEF SameHas
<1>13. t.ok
  BY <1>1, <1>2 DEF TookOut
<1>14. Passes(f, st, b, k, q, t) /\ t.ok
  BY <1>11, <1>12, <1>13, Zenon DEF Passes
<1>15. t = DispatchReliable(Done(q))
  BY DEF t, s
<1>. QED BY <1>14, <1>15, Zenon

\* q is r with the entry e behind the p-th of its reliable list.
Extended(n, r, p, e, q) ==
    /\ q \in Chan(n) /\ q.rseq = r.rseq /\ q.unreliable = r.unreliable
    /\ p \in 0..Len(r.reliable)
    /\ IsInserted(Entry(n), r.reliable, p + 1, e, q.reliable)

LEMMA ExtendedFacts ==
    ASSUME NEW n \in Nat, NEW r \in Chan(n), NEW p \in 0..Len(r.reliable), NEW e \in Entry(n)
    PROVE  Extended(n, r, p, e, [r EXCEPT !.reliable = Insert(r.reliable, p, e)])
<1> DEFINE list == Insert(r.reliable, p, e)
           q == [r EXCEPT !.reliable = list]
<1>1. r.reliable \in Seq(Entry(n))
  BY ChanFacts
<1>2. list \in Seq(Entry(n))
  BY <1>1, InsertType, Zenon
<1>3. IsInserted(Entry(n), r.reliable, p + 1, e, list)
  BY <1>1, InsertFacts, Zenon
<1> HIDE DEF list
<1>4. q \in Chan(n) /\ q.rseq = r.rseq /\ q.unreliable = r.unreliable /\ q.reliable = list
  BY <1>2 DEF Chan
<1> HIDE DEF q
<1>5. Extended(n, r, p, e, q)
  BY <1>3, <1>4, Zenon DEF Extended
<1>. QED BY <1>5 DEF q, list

LEMMA HasInserted ==
    ASSUME NEW n \in Nat, NEW r \in Chan(n), NEW p, NEW e, NEW s, Extended(n, r, p, e, s),
           NEW st, NEW k, NEW q, NEW i
    PROVE  Has(st, k, s, q, i) <=>
               Has(st, k, r, q, i) \/ (e.pkt = st[q] /\ (e.count = 0 \/ i \in e.got))
<1>1. PICK N \in Nat : N = Len(r.reliable)
  BY ChanFacts
<1>2. /\ p \in 0..N /\ Len(s.reliable) = N + 1 /\ s.reliable[p + 1] = e
      /\ \A j \in 1..p : s.reliable[j] = r.reliable[j]
      /\ \A j \in p + 2 .. N + 1 : s.reliable[j] = r.reliable[j - 1]
  <2>1. /\ p \in 0..N /\ Len(s.reliable) = N + 1 /\ s.reliable[p + 1] = e
        /\ \A j \in 1 .. (p + 1) - 1 : s.reliable[j] = r.reliable[j]
        /\ \A j \in (p + 1) + 1 .. N + 1 : s.reliable[j] = r.reliable[j - 1]
    BY <1>1 DEF Extended, IsInserted
  <2>2. (p + 1) - 1 = p /\ (p + 1) + 1 = p + 2
    BY <2>1
  <2>. QED BY <2>1, <2>2
<1> DEFINE Got(x) == x.pkt = st[q] /\ (x.count = 0 \/ i \in x.got)
<1>3. Has(st, k, s, q, i) <=> q <= k \/ \E j \in 1..N + 1 : Got(s.reliable[j])
  BY <1>2, Zenon DEF Has
<1>4. Has(st, k, r, q, i) <=> q <= k \/ \E j \in 1..N : Got(r.reliable[j])
  BY <1>1, Zenon DEF Has
<1> HIDE DEF Got
<1>5. ASSUME NEW j \in 1..N + 1, Got(s.reliable[j])
      PROVE  Got(e) \/ \E a \in 1..N : Got(r.reliable[a])
  <2>1. CASE j <= p
    <3>1. j \in 1..p /\ j \in 1..N
      BY <1>2, <2>1
    <3>. QED BY <1>2, <1>5, <3>1
  <2>2. CASE j = p + 1
    BY <1>2, <1>5, <2>2
  <2>3. CASE j > p + 1
    <3>1. j \in p + 2 .. N + 1 /\ j - 1 \in 1..N
      BY <1>2, <2>3
    <3>. QED BY <1>2, <1>5, <3>1
  <2>. QED BY <1>2, <2>1, <2>2, <2>3
<1>6. ASSUME NEW j \in 1..N, Got(r.reliable[j])
      PROVE  \E a \in 1..N + 1 : Got(s.reliable[a])
  <2>1. CASE j <= p
    <3>1. j \in 1..p /\ j \in 1..N + 1
      BY <1>2, <2>1
    <3>. QED BY <1>2, <1>6, <3>1
  <2>2. CASE j > p
    <3>1. j + 1 \in p + 2 .. N + 1 /\ j + 1 \in 1..N + 1 /\ (j + 1) - 1 = j
      BY <1>2, <2>2
    <3>2. s.reliable[j + 1] = r.reliable[j]
      BY <1>2, <3>1
    <3>. QED BY <1>6, <3>1, <3>2
  <2>. QED BY <1>2, <2>1, <2>2
<1>7. Got(e) => \E a \in 1..N + 1 : Got(s.reliable[a])
  <2>1. p + 1 \in 1..N + 1
    BY <1>2
  <2>. QED BY <1>2, <2>1
<1>8. Has(st, k, s, q, i) <=> Has(st, k, r, q, i) \/ Got(e)
  BY <1>3, <1>4, <1>5, <1>6, <1>7
<1>. QED BY <1>8 DEF Got

\* An entry that waits for all its fragments leaves the queue blocked.
LEMMA BlockedInserted ==
    ASSUME NEW n \in Nat, NEW r \in Chan(n), NEW p, NEW e, NEW s, Extended(n, r, p, e, s),
           Blocked(r), ~Complete(e)
    PROVE  Blocked(s)
<1>1. PICK N \in Nat : N = Len(r.reliable)
  BY ChanFacts
<1>2. /\ p \in 0..N /\ s.reliable[p + 1] = e /\ s.rseq = r.rseq
      /\ \A j \in 1 .. (p + 1) - 1 : s.reliable[j] = r.reliable[j]
  BY <1>1 DEF Extended, IsInserted
<1>3. CASE p = 0
  <2>1. s.reliable[1] = e
    BY <1>2, <1>3
  <2>. QED BY <2>1 DEF Blocked, Continues
<1>4. CASE p # 0
  <2>1. s.reliable[1] = r.reliable[1] /\ N > 0
    BY <1>2, <1>4
  <2>. QED BY <1>1, <1>2, <2>1 DEF Blocked, Continues
<1>. QED BY <1>3, <1>4

LEMMA QueueInserted ==
    ASSUME NEW f, NEW st, Known(f, st), NEW n \in Nat, NEW r \in Chan(n),
           NEW k, Queue(f, st, k, r),
           NEW q \in 1..Len(st), Acceptable(f, k, q), ~Holds(r, NumOf(f[q])),
           NEW e, EntryOf(f, st, e, q), NEW s, Extended(n, r, Place(r, NumOf(f[q])), e, s)
    PROVE  Queue(f, st, k, s) /\ Holds(s, NumOf(f[q]))
<1>1. k \in 0..Len(st) /\ r.rseq = NumOf(Delivered(f, k)) /\ s.rseq = NumOf(Delivered(f, k))
  BY DEF Queue, Extended
<1>2. PICK g : Slots(f, st, k, r.reliable, g)
  BY DEF Queue
<1>3. IsInserted(Entry(n), r.reliable, Place(r, NumOf(f[q])) + 1, e, s.reliable)
  BY DEF Extended
<1>4. PICK h : Slots(f, st, k, s.reliable, h)
  BY <1>1, <1>2, <1>3, SlotsInsert, Zenon
<1>5. Queue(f, st, k, s)
  BY <1>1, <1>4, Zenon DEF Queue
<1>6. PICK j \in 1..Len(s.reliable) : s.reliable[j] = e
  <2>1. Place(r, NumOf(f[q])) \in 0..Len(r.reliable) /\ Len(r.reliable) \in Nat
    BY ChanFacts DEF Extended
  <2>2. Place(r, NumOf(f[q])) + 1 \in 1..Len(s.reliable)
    BY <1>3, <2>1 DEF IsInserted
  <2>. QED BY <1>3, <2>2 DEF IsInserted
<1>7. s \in Chan(n) /\ Len(s.reliable) \in Nat
  BY ChanFacts DEF Extended
<1>8. q = h[j]
  <2>1. s.reliable[j].pkt = st[q] <=> h[j] = q
    BY <1>1, <1>4, <1>7, SlotFacts
  <2>. QED BY <1>6, <2>1 DEF EntryOf
<1>9. HoldsAt(s, NumOf(f[q]), j)
  BY <1>1, <1>4, <1>7, <1>8, PlaceHeld, Zenon
<1>. QED BY <1>5, <1>9 DEF HoldsAt

\* What the handler of a command c, part i of packet q, may do: it queues the
\* part or not, and if it lets c be acknowledged the receiver has that part.
Answers(f, st, b, k, r, c, q, i, h) ==
    \E j \in k..Len(st) :
        /\ Serves(f, st, b, k, j, h)
        /\ SameParts(f, st, k, r, j, h.r) \/ MoreParts(f, st, k, r, j, h.r, q, i)
        /\ h.ok /\ Acknowledged(h.r, c.rseq) => Has(st, j, h.r, q, i)

LEMMA ServesItself ==
    ASSUME NEW f, NEW st, NEW b, NEW k, NEW r, Receiver(f, st, b, k, r),
           NEW h, h.r = r, h.out = << >>
    PROVE  Serves(f, st, b, k, k, h) /\ k \in k..Len(st)
<1>1. k \in Nat /\ k \in k..Len(st)
  BY DeliveredFacts DEF Receiver, Queue
<1>2. k <= k /\ k - k = 0 /\ 1..0 = {} /\ 0 + 1 .. 0 = {} /\ Len(h.out) = 0
  BY <1>1
<1>. QED BY <1>1, <1>2 DEF Serves

LEMMA AnswerRefused ==
    ASSUME NEW f, NEW st, NEW b, NEW k, NEW r, Receiver(f, st, b, k, r), NEW c, NEW q, NEW i
    PROVE  /\ Answers(f, st, b, k, r, c, q, i, Failed(r))
           /\ (Acknowledged(r, c.rseq) => Has(st, k, r, q, i))
                  => Answers(f, st, b, k, r, c, q, i, Done(r))
<1>1. /\ Done(r).r = r /\ Done(r).out = << >>
      /\ Failed(r).r = r /\ Failed(r).out = << >> /\ ~Failed(r).ok
  BY DEF Done, Failed
<1>2. Serves(f, st, b, k, k, Done(r)) /\ Serves(f, st, b, k, k, Failed(r)) /\ k \in k..Len(st)
  BY <1>1, ServesItself, Zenon
<1>3. SameParts(f, st, k, r, k, Done(r).r) /\ SameParts(f, st, k, r, k, Failed(r).r)
  BY <1>1, Zenon DEF SameParts
<1>. QED BY <1>1, <1>2, <1>3, Zenon DEF Answers

\* The queue with the part in it, before and after it is looked through for
\* what continues the stream.
LEMMA AnswerQueued ==
    ASSUME NEW f, NEW st, NEW b, Known(f, st), NEW n \in Nat, NEW s \in Chan(n), NEW k, NEW r,
           Queue(f, st, k, s), LooseOnly(st, b, s.unreliable),
           NEW c, NEW q, NEW i, IsPart(f, st, q, i), MoreParts(f, st, k, r, k, s, q, i)
    PROVE  /\ Answers(f, st, b, k, r, c, q, i, DispatchReliable(Done(s)))
           /\ Blocked(s) => Answers(f, st, b, k, r, c, q, i, Done(s))
<1> DEFINE h == DispatchReliable(Done(s))
<1>1. Passes(f, st, b, k, s, h)
  BY DispatchServes, Zenon
<1> HIDE DEF h
<1>2. PICK j \in k..Len(st) : Serves(f, st, b, k, j, h) /\ SameParts(f, st, k, s, j, h.r)
  BY <1>1, Zenon DEF Passes
<1>3. MoreParts(f, st, k, r, j, h.r, q, i)
  BY <1>2, Zenon DEF SameParts, MoreParts
<1>4. Has(st, j, h.r, q, i) /\ Has(st, k, s, q, i)
  BY <1>3, Zenon DEF MoreParts
<1>5. Answers(f, st, b, k, r, c, q, i, h)
  BY <1>2, <1>3, <1>4, Zenon DEF Answers
<1>6. ASSUME Blocked(s) PROVE Answers(f, st, b, k, r, c, q, i, Done(s))
  <2>1. Done(s).r = s /\ Done(s).out = << >>
    BY DEF Done
  <2>2. Receiver(f, st, b, k, s)
    BY <1>6 DEF Receiver
  <2>3. Serves(f, st, b, k, k, Done(s)) /\ k \in k..Len(st)
    BY <2>1, <2>2, ServesItself, Zenon
  <2>4. MoreParts(f, st, k, r, k, Done(s).r, q, i) /\ Has(st, k, Done(s).r, q, i)
    BY <1>4, <2>1
  <2>. QED BY <2>3, <2>4, Zenon DEF Answers
<1>. QED BY <1>5, <1>6 DEF h

\* A packet whose number is in the windows that are accepted, and not that of
\* the last one delivered, is acceptable.
LEMMA NumberAccepted ==
    ASSUME NEW f, NEW st, Known(f, st), NEW k \in 0..Len(st), NEW r, r.rseq = NumOf(Delivered(f, k)),
           NEW q \in 1..Len(st), Near(f, k, f[q]),
           InWindow(r, NumOf(f[q])), NumOf(f[q]) # r.rseq
    PROVE  Acceptable(f, k, q)
<1>1. /\ Delivered(f, k) <= f[q]
      /\ WindowOf(f[q]) <= WindowOf(Delivered(f, k)) + FreeWindows - 2
  BY NearNumber
<1>2. Delivered(f, k) \in Nat /\ f[q] \in Nat /\ (k < q <=> Delivered(f, k) < f[q])
  BY DeliveredFacts
<1>3. Delivered(f, k) # f[q]
  BY DEF NumOf
<1>. QED BY <1>1, <1>2, <1>3 DEF Acceptable

\* What is acknowledged although it is not in the windows that are accepted,
\* or has the number of the last packet delivered, was delivered before.
LEMMA NumberPassed ==
    ASSUME NEW f, NEW st, Known(f, st), NEW k \in 0..Len(st), NEW r, r.rseq = NumOf(Delivered(f, k)),
           NEW q, NEW i, IsPart(f, st, q, i), Near(f, k, Pos(f, q, i)),
           Acknowledged(r, NumOf(Pos(f, q, i))),
           ~InWindow(r, NumOf(Pos(f, q, i))) \/ NumOf(Pos(f, q, i)) = r.rseq
    PROVE  q <= k
<1>1. Pos(f, q, i) \in Nat /\ q \in 1..Len(st) /\ i \in {1, 2} /\ st \in Seq(Nat) /\ Firsts(f, st)
  BY PosFacts DEF Known
<1>2. Delivered(f, k) \in Nat /\ (q <= k <=> Pos(f, q, i) <= Delivered(f, k))
  BY <1>1, DeliveredFacts, SMTT(30)
<1>3. ~(Delivered(f, k) <= Pos(f, q, i)) \/ Pos(f, q, i) = Delivered(f, k)
  BY NearNumber
<1>. QED BY <1>1, <1>2, <1>3

\* The entry that a packet's number finds.
LEMMA HoldsFacts ==
    ASSUME NEW f, NEW st, Known(f, st), NEW n \in Nat, NEW r \in Chan(n),
           NEW k, Queue(f, st, k, r), NEW q \in 1..Len(st), Acceptable(f, k, q),
           Holds(r, NumOf(f[q]))
    PROVE  /\ Place(r, NumOf(f[q])) \in 1..Len(r.reliable)
           /\ EntryOf(f, st, r.reliable[Place(r, NumOf(f[q]))], q)
<1>1. PICK g : Slots(f, st, k, r.reliable, g)
  BY DEF Queue
<1>2. k \in 0..Len(st) /\ r.rseq = NumOf(Delivered(f, k)) /\ Len(r.reliable) \in Nat
  BY ChanFacts DEF Queue
<1>3. IsPlace(Place(r, NumOf(f[q])), r, g, q, NumOf(f[q]))
  BY <1>1, <1>2, PlaceOf, Zenon
<1>4. PICK p \in 1..Len(r.reliable) : p = Place(r, NumOf(f[q])) /\ g[p] = q
  BY <1>2, <1>3 DEF IsPlace
<1>5. EntryOf(f, st, r.reliable[p], g[p])
  BY <1>1, <1>2, SlotFacts
<1>. QED BY <1>4, <1>5

\* The fields of a command of the stream.
LEMMA CommandFields ==
    ASSUME NEW f, NEW st, NEW q, NEW i
    PROVE  LET c == CommandOf(f, st, q, i) IN
           /\ c.rseq = NumOf(Pos(f, q, i)) /\ c.start = NumOf(f[q]) /\ c.num = i
           /\ c.pkt = st[q] /\ c.useq = 0
           /\ c.kind = IF Parts(f, q) = 1 THEN "RELIABLE" ELSE "FRAGMENT"
  BY DEF CommandOf, Command

\* A whole packet arrives.
LEMMA ReliableServes ==
    ASSUME NEW f, NEW st, NEW b, NEW n \in Nat, NEW r \in Chan(n), NEW k, Receiver(f, st, b, k, r),
           NEW q, IsPart(f, st, q, 1), Parts(f, q) = 1, Near(f, k, f[q]),
           NEW c \in Cmd(n), c = CommandOf(f, st, q, 1)
    PROVE  Answers(f, st, b, k, r, c, q, 1, HandleSendReliable(r, c))
<1> DEFINE m == NumOf(f[q])
           e == Incoming(c.kind, c, m, 0)
           s == [r EXCEPT !.reliable = Insert(r.reliable, Place(r, m), e)]
<1>1. Known(f, st) /\ Queue(f, st, k, r) /\ k \in 0..Len(st) /\ r.rseq = NumOf(Delivered(f, k))
      /\ LooseOnly(st, b, r.unreliable)
  BY DEF Receiver, Queue
<1>2. q \in 1..Len(st) /\ f[q] \in Nat /\ Pos(f, q, 1) = f[q]
  <2>1. q \in 1..Len(st)
    BY DEF IsPart
  <2>2. f[q] \in Nat
    BY <1>1, <2>1, DeliveredFacts
  <2>. QED BY <2>1, <2>2 DEF Pos
<1>3. c.rseq = m /\ c.pkt = st[q] /\ c.kind = "RELIABLE"
  BY <1>2, CommandFields
<1>4. \/ /\ ~InWindow(r, m) \/ m = r.rseq \/ Holds(r, m)
         /\ HandleSendReliable(r, c) = Done(r)
      \/ HandleSendReliable(r, c) = Failed(r)
      \/ /\ InWindow(r, m) /\ m # r.rseq /\ ~Holds(r, m)
         /\ HandleSendReliable(r, c) = DispatchReliable(Done(s))
  BY <1>3 DEF HandleSendReliable, QueueReliable
<1>5. InWindow(r, m) /\ m # r.rseq => Acceptable(f, k, q)
  BY <1>1, <1>2, NumberAccepted
<1>6. m \in 0..Numbers - 1
  BY <1>2, Turns DEF NumOf
<1> HIDE DEF m, s
<1>7. CASE (~InWindow(r, m) \/ m = r.rseq \/ Holds(r, m)) /\ HandleSendReliable(r, c) = Done(r)
  <2>1. Acknowledged(r, c.rseq) => Has(st, k, r, q, 1)
    <3>1. SUFFICES ASSUME Acknowledged(r, m) PROVE Has(st, k, r, q, 1)
      BY <1>3
    <3>2. CASE ~InWindow(r, m) \/ m = r.rseq
      <4>1. q <= k
        BY <1>1, <1>2, <3>1, <3>2, NumberPassed DEF m
      <4>. QED BY <4>1 DEF Has
    <3>3. CASE InWindow(r, m) /\ m # r.rseq /\ Holds(r, m)
      <4>1. /\ Place(r, m) \in 1..Len(r.reliable)
            /\ EntryOf(f, st, r.reliable[Place(r, m)], q)
        BY <1>1, <1>2, <1>5, <3>3, HoldsFacts DEF m
      <4>2. PICK j \in 1..Len(r.reliable) : EntryOf(f, st, r.reliable[j], q)
        BY <4>1
      <4>3. r.reliable[j].pkt = st[q] /\ r.reliable[j].count = 0
        BY <4>2 DEF EntryOf
      <4>. QED BY <4>3 DEF Has
    <3>. QED BY <1>7, <3>2, <3>3
  <2>. QED BY <1>7, <2>1, AnswerRefused
<1>8. CASE /\ InWindow(r, m) /\ m # r.rseq /\ ~Holds(r, m)
           /\ HandleSendReliable(r, c) = DispatchReliable(Done(s))
  <2>1. Acceptable(f, k, q)
    BY <1>5, <1>8
  <2>2. e \in Entry(n) /\ e.pkt = st[q] /\ e.rseq = m /\ e.count = 0 /\ e.kind = "RELIABLE" /\ e.got = {}
    <3>1. e \in Entry(n)
      BY <1>3, <1>6, IncomingType DEF Kinds
    <3>. QED BY <1>3, <3>1 DEF Incoming
  <2> HIDE DEF e
  <2>3. EntryOf(f, st, e, q)
    BY <1>2, <2>2 DEF EntryOf, m
  <2>4. Extended(n, r, Place(r, m), e, s)
    <3>1. Place(r, m) \in 0..Len(r.reliable)
      BY PlaceType
    <3>. QED BY <2>2, <3>1, ExtendedFacts DEF s
  <2>5. Queue(f, st, k, s)
    BY <1>1, <1>2, <1>8, <2>1, <2>3, <2>4, QueueInserted DEF m
  <2>6. MoreParts(f, st, k, r, k, s, q, 1)
    <3>1. SUFFICES ASSUME NEW p, NEW a, IsPart(f, st, p, a)
                   PROVE  Has(st, k, s, p, a) <=> Has(st, k, r, p, a) \/ (p = q /\ a = 1)
      BY DEF MoreParts
    <3>2. Has(st, k, s, p, a) <=> Has(st, k, r, p, a) \/ (e.pkt = st[p] /\ (e.count = 0 \/ a \in e.got))
      BY <2>4, HasInserted
    <3>3. p \in 1..Len(st) /\ (st[q] = st[p] <=> p = q)
      <4>1. p \in 1..Len(st)
        BY <3>1 DEF IsPart
      <4>. QED BY <1>1, <1>2, <4>1, Ascending
    <3>4. p = q => a = 1
      BY <3>1 DEF IsPart
    <3>. QED BY <2>2, <3>2, <3>3, <3>4
  <2>7. s \in Chan(n) /\ LooseOnly(st, b, s.unreliable)
    BY <1>1, <2>4 DEF Extended
  <2>8. Answers(f, st, b, k, r, c, q, 1, DispatchReliable(Done(s)))
    BY <1>1, <2>5, <2>6, <2>7, AnswerQueued, Zenon
  <2>. QED BY <1>8, <2>8
<1>9. CASE HandleSendReliable(r, c) = Failed(r)
  BY <1>9, AnswerRefused
<1>. QED BY <1>4, <1>7, <1>8, <1>9

\* The entry e of r with part i in it; the others stay.
IsTaken(n, r, p, i, s) ==
    /\ s \in Chan(n) /\ s.rseq = r.rseq /\ s.unreliable = r.unreliable
    /\ Len(s.reliable) = Len(r.reliable)
    /\ s.reliable[p] = [r.reliable[p] EXCEPT !.got = r.reliable[p].got \cup {i}]
    /\ \A j \in 1..Len(r.reliable) : j # p => s.reliable[j] = r.reliable[j]

LEMMA TakenFacts ==
    ASSUME NEW n \in Nat, NEW r \in Chan(n), NEW p \in 1..Len(r.reliable), NEW i \in 0..2
    PROVE  IsTaken(n, r, p, i, [r EXCEPT !.reliable[p].got = @ \cup {i}])
<1> DEFINE s == [r EXCEPT !.reliable[p].got = @ \cup {i}]
           list == [r.reliable EXCEPT ![p] = [r.reliable[p] EXCEPT !.got = r.reliable[p].got \cup {i}]]
<1>1. r.reliable \in Seq(Entry(n)) /\ Len(r.reliable) \in Nat
      /\ \A j \in 1..Len(r.reliable) : r.reliable[j] \in Entry(n)
  BY ChanFacts
<1>2. /\ list \in Seq(Entry(n)) /\ Len(list) = Len(r.reliable)
      /\ list[p] = [r.reliable[p] EXCEPT !.got = r.reliable[p].got \cup {i}]
      /\ \A j \in 1..Len(r.reliable) : j # p => list[j] = r.reliable[j]
  <2>1. \A e \in Entry(n) : [e EXCEPT !.got = e.got \cup {i}] \in Entry(n)
    BY DEF Entry
  <2>. QED BY <1>1, <2>1
<1>3. s \in Chan(n) /\ s.reliable = list /\ s.unreliable = r.unreliable /\ s.rseq = r.rseq
  <2>1. s = [r EXCEPT !.reliable = list]
    BY DEF Chan
  <2> HIDE DEF list
  <2>. QED BY <1>2, <2>1 DEF Chan
<1> HIDE DEF s, list
<1>4. IsTaken(n, r, p, i, s)
  BY <1>2, <1>3 DEF IsTaken
<1>. QED BY <1>4 DEF s

LEMMA TakenQueue ==
    ASSUME NEW f, NEW st, Known(f, st), NEW n \in Nat, NEW r \in Chan(n), NEW k, Queue(f, st, k, r),
           NEW q \in 1..Len(st), NEW p \in 1..Len(r.reliable),
           EntryOf(f, st, r.reliable[p], q), Parts(f, q) = 2, NEW i \in {1, 2},
           NEW s, IsTaken(n, r, p, i, s)
    PROVE  /\ Queue(f, st, k, s)
           /\ MoreParts(f, st, k, r, k, s, q, i)
           /\ Blocked(r) /\ (i \in r.reliable[p].got \/ ~Complete(s.reliable[p])) => Blocked(s)
<1>1. PICK g : Slots(f, st, k, r.reliable, g)
  BY DEF Queue
<1>2. PICK N \in Nat : N = Len(r.reliable)
  BY ChanFacts
<1>3. /\ Len(s.reliable) = N /\ s.rseq = r.rseq
      /\ \A j \in 1..N : j # p => s.reliable[j] = r.reliable[j]
  BY <1>2 DEF IsTaken
<1>4. \A j \in 1..N : r.reliable[j] \in Entry(n)
  BY <1>2, ChanFacts
<1>5. /\ s.reliable[p].pkt = r.reliable[p].pkt /\ s.reliable[p].rseq = r.reliable[p].rseq
      /\ s.reliable[p].count = r.reliable[p].count /\ s.reliable[p].kind = r.reliable[p].kind
      /\ s.reliable[p].got = r.reliable[p].got \cup {i}
  BY <1>2, <1>4 DEF IsTaken, Entry
<1>6. Queue(f, st, k, s)
  <2>1. \A j \in 1..N : EntryOf(f, st, r.reliable[j], g[j]) => EntryOf(f, st, s.reliable[j], g[j])
    <3>1. TAKE j \in 1..N
    <3>2. CASE j = p
      BY <1>5, <3>2 DEF EntryOf
    <3>3. CASE j # p
      BY <1>3, <3>3
    <3>. QED BY <3>2, <3>3
  <2>2. Slots(f, st, k, s.reliable, g)
    BY <1>1, <1>2, <1>3, <2>1 DEF Slots
  <2>. QED BY <1>3, <2>2 DEF Queue
<1>7. r.reliable[p].pkt = st[q] /\ r.reliable[p].count = 2
  BY DEF EntryOf
<1>8. MoreParts(f, st, k, r, k, s, q, i)
  <2>1. SUFFICES ASSUME NEW x, NEW a, IsPart(f, st, x, a)
                 PROVE  Has(st, k, s, x, a) <=> Has(st, k, r, x, a) \/ (x = q /\ a = i)
    BY DEF MoreParts
  <2>2. x \in 1..Len(st) /\ (st[q] = st[x] <=> x = q)
    <3>1. x \in 1..Len(st)
      BY <2>1 DEF IsPart
    <3>. QED BY <3>1, Ascending
  <2> DEFINE Got(y) == y.pkt = st[x] /\ (y.count = 0 \/ a \in y.got)
  <2>3. Has(st, k, s, x, a) <=> x <= k \/ \E j \in 1..N : Got(s.reliable[j])
    BY <1>3, Zenon DEF Has
  <2>4. Has(st, k, r, x, a) <=> x <= k \/ \E j \in 1..N : Got(r.reliable[j])
    BY <1>2, Zenon DEF Has
  <2>5. Got(s.reliable[p]) <=> Got(r.reliable[p]) \/ (x = q /\ a = i)
    BY <1>5, <1>7, <2>2
  <2>6. \A j \in 1..N : j # p => (Got(s.reliable[j]) <=> Got(r.reliable[j]))
    BY <1>3
  <2> HIDE DEF Got
  <2>. QED BY <1>2, <2>3, <2>4, <2>5, <2>6
<1>9. ASSUME Blocked(r), i \in r.reliable[p].got \/ ~Complete(s.reliable[p])
      PROVE  Blocked(s)
  <2>1. SUFFICES ASSUME Len(s.reliable) > 0, Continues(s, 1) PROVE FALSE
    BY DEF Blocked
  <2>2. Complete(s.reliable[1]) /\ s.reliable[1].rseq = Next16(s.rseq)
    BY <2>1 DEF Continues
  <2>3. Complete(r.reliable[1]) /\ r.reliable[1].rseq = Next16(r.rseq)
    <3>1. CASE p = 1
      <4>1. i \in r.reliable[1].got
        BY <1>9, <2>2, <3>1
      <4>2. s.reliable[1].got = r.reliable[1].got
        BY <1>5, <3>1, <4>1
      <4>. QED BY <1>3, <1>5, <2>2, <3>1, <4>2 DEF Complete
    <3>2. CASE p # 1
      <4>1. s.reliable[1] = r.reliable[1]
        BY <1>2, <1>3, <2>1, <3>2
      <4>. QED BY <1>3, <2>2, <4>1
    <3>. QED BY <3>1, <3>2
  <2>4. Continues(r, 1)
    BY <2>3 DEF Continues
  <2>. QED BY <1>2, <1>3, <1>9, <2>1, <2>4 DEF Blocked
<1>. QED BY <1>6, <1>8, <1>9

LEMMA TakeServes ==
    ASSUME NEW f, NEW st, NEW b, NEW n \in Nat, NEW r \in Chan(n), NEW k, Receiver(f, st, b, k, r),
           NEW q, NEW i, IsPart(f, st, q, i), NEW p \in 1..Len(r.reliable),
           EntryOf(f, st, r.reliable[p], q), Parts(f, q) = 2,
           NEW c \in Cmd(n), c.num = i, NEW r0, SameParts(f, st, k, r0, k, r)
    PROVE  Answers(f, st, b, k, r0, c, q, i, TakeFragment(r, p, c))
<1> DEFINE s == [r EXCEPT !.reliable[p].got = @ \cup {c.num}]
<1>1. Known(f, st) /\ Queue(f, st, k, r) /\ Blocked(r) /\ LooseOnly(st, b, r.unreliable)
  BY DEF Receiver
<1>2. \/ /\ i \in r.reliable[p].got \/ ~Complete(s.reliable[p])
         /\ TakeFragment(r, p, c) = Done(s)
      \/ TakeFragment(r, p, c) = DispatchReliable(Done(s))
  BY DEF TakeFragment
<1>3. IsTaken(n, r, p, i, s)
  <2>1. c.num \in 0..2
    BY DEF Cmd
  <2>2. IsTaken(n, r, p, c.num, s)
    BY <2>1, TakenFacts
  <2>. QED BY <2>2
<1> HIDE DEF s
<1>4. q \in 1..Len(st) /\ i \in {1, 2}
  BY DEF IsPart
<1>5. /\ Queue(f, st, k, s) /\ MoreParts(f, st, k, r, k, s, q, i)
      /\ (i \in r.reliable[p].got \/ ~Complete(s.reliable[p])) => Blocked(s)
  BY <1>1, <1>3, <1>4, TakenQueue
<1>6. MoreParts(f, st, k, r0, k, s, q, i)
  BY <1>5, Zenon DEF SameParts, MoreParts
<1>7. s \in Chan(n) /\ LooseOnly(st, b, s.unreliable)
  BY <1>1, <1>3 DEF IsTaken
<1>8. /\ Answers(f, st, b, k, r0, c, q, i, DispatchReliable(Done(s)))
      /\ Blocked(s) => Answers(f, st, b, k, r0, c, q, i, Done(s))
  BY <1>1, <1>5, <1>6, <1>7, AnswerQueued, Zenon
<1>. QED BY <1>2, <1>5, <1>8

LEMMA BlockedStays ==
    ASSUME NEW n \in Nat, NEW s \in Chan(n), Blocked(s)
    PROVE  DispatchReliable(Done(s)) = Done(s)
<1>1. Done(s).r = s
  BY DEF Done
<1>2. PICK m \in 0..Len(s.reliable) : m = Ready(s) /\ \A i \in 1..m : Continues(s, i)
  BY ReadyFacts
<1>3. Len(s.reliable) \in Nat
  BY ChanFacts
<1>4. m = 0
  <2>1. SUFFICES ASSUME m # 0 PROVE FALSE
    OBVIOUS
  <2>2. 1 \in 1..m /\ Len(s.reliable) > 0
    BY <1>2, <1>3, <2>1
  <2>. QED BY <1>2, <2>2 DEF Blocked
<1>5. Ready(Done(s).r) = 0
  BY <1>1, <1>2, <1>4
<1>. QED BY <1>5, Zenon DEF DispatchReliable

\* The first fragment of a packet to come makes an entry for it.
LEMMA FirstFragment ==
    ASSUME NEW f, NEW st, NEW b, NEW n \in Nat, NEW r \in Chan(n), NEW k, Receiver(f, st, b, k, r),
           NEW q \in 1..Len(st), Parts(f, q) = 2, Acceptable(f, k, q), ~Holds(r, NumOf(f[q])),
           NEW e \in Entry(n), EntryOf(f, st, e, q), e.got = {},
           NEW s, Extended(n, r, Place(r, NumOf(f[q])), e, s)
    PROVE  /\ s \in Chan(n) /\ Receiver(f, st, b, k, s) /\ SameParts(f, st, k, r, k, s)
           /\ Place(s, NumOf(f[q])) \in 1..Len(s.reliable)
           /\ EntryOf(f, st, s.reliable[Place(s, NumOf(f[q]))], q)
<1>1. Known(f, st) /\ Queue(f, st, k, r) /\ Blocked(r) /\ LooseOnly(st, b, r.unreliable)
  BY DEF Receiver
<1>2. e.count = 2 /\ ~Complete(e)
  <2>1. e.count = 2
    BY DEF EntryOf
  <2>2. Cardinality({}) = 0
    BY FS_EmptySet
  <2>. QED BY <2>1, <2>2 DEF Complete
<1>3. Queue(f, st, k, s) /\ Holds(s, NumOf(f[q]))
  BY <1>1, QueueInserted, Zenon
<1>4. Blocked(s)
  BY <1>1, <1>2, BlockedInserted, Zenon
<1>5. s \in Chan(n) /\ s.unreliable = r.unreliable
  BY DEF Extended
<1>6. Receiver(f, st, b, k, s)
  BY <1>1, <1>3, <1>4, <1>5 DEF Receiver
<1>7. SameParts(f, st, k, r, k, s)
  <2>1. \A p, a : Has(st, k, s, p, a) <=>
                      Has(st, k, r, p, a) \/ (e.pkt = st[p] /\ (e.count = 0 \/ a \in e.got))
    BY HasInserted
  <2>. QED BY <1>2, <2>1 DEF SameParts
<1>8. /\ Place(s, NumOf(f[q])) \in 1..Len(s.reliable)
      /\ EntryOf(f, st, s.reliable[Place(s, NumOf(f[q]))], q)
  BY <1>1, <1>3, <1>5, HoldsFacts
<1>. QED BY <1>5, <1>6, <1>7, <1>8

\* One fragment of two arrives.
LEMMA FragmentServes ==
    ASSUME NEW f, NEW st, NEW b, NEW n \in Nat, NEW r \in Chan(n), NEW k, Receiver(f, st, b, k, r),
           NEW q, NEW i, IsPart(f, st, q, i), Parts(f, q) = 2,
           Near(f, k, f[q]), Near(f, k, Pos(f, q, i)),
           NEW c \in Cmd(n), c = CommandOf(f, st, q, i)
    PROVE  Answers(f, st, b, k, r, c, q, i, HandleSendFragment(r, c))
<1> DEFINE m == NumOf(f[q])
           x == Pos(f, q, i)
           e == Incoming(c.kind, c, m, 2)
           s == [r EXCEPT !.reliable = Insert(r.reliable, Place(r, m), e)]
<1>1. Known(f, st) /\ Queue(f, st, k, r) /\ k \in 0..Len(st) /\ r.rseq = NumOf(Delivered(f, k))
      /\ LooseOnly(st, b, r.unreliable) /\ Blocked(r)
  BY DEF Receiver, Queue
<1>2. /\ q \in 1..Len(st) /\ f[q] \in Nat /\ x \in Nat /\ f[q] <= x /\ i \in {1, 2}
      /\ st \in Seq(Nat) /\ Firsts(f, st)
  <2>1. q \in 1..Len(st)
    BY DEF IsPart
  <2>2. f[q] \in Nat
    BY <1>1, <2>1, DeliveredFacts
  <2>. QED BY <1>1, <2>1, <2>2, PosFacts DEF Known
<1>3. c.rseq = NumOf(x) /\ c.start = m /\ c.num = i /\ c.pkt = st[q] /\ c.kind = "FRAGMENT"
  BY <1>2, CommandFields
<1>4. m \in 0..Numbers - 1
  BY <1>2, Turns
<1>5. Delivered(f, k) \in Nat /\ (q <= k <=> f[q] <= Delivered(f, k)) /\ Delivered(f, k) # f[q]
  <2>1. IsPart(f, st, q, 1) /\ IsPart(f, st, q, 2)
    BY <1>2 DEF IsPart
  <2>2. /\ Delivered(f, k) \in Nat
        /\ q <= k <=> Pos(f, q, 1) <= Delivered(f, k)
        /\ q <= k <=> Pos(f, q, 2) <= Delivered(f, k)
    BY <1>1, <1>2, <2>1, DeliveredFacts
  <2>3. Pos(f, q, 1) = f[q] /\ Pos(f, q, 2) = f[q] + 1
    BY <1>2 DEF Pos
  <2>. QED BY <1>2, <2>2, <2>3
<1>6. InWindow(r, m) <=> /\ Delivered(f, k) <= f[q]
                         /\ WindowOf(f[q]) <= WindowOf(Delivered(f, k)) + FreeWindows - 2
  BY <1>1, NearNumber
<1>7. m # r.rseq
  BY <1>1, <1>5, NearNumber
<1>8. InWindow(r, m) => Acceptable(f, k, q)
  BY <1>1, <1>2, <1>7, NumberAccepted
<1> HIDE DEF m, s
<1>9. CASE ~InWindow(r, m)
  <2>1. Acknowledged(r, c.rseq) => Has(st, k, r, q, i)
    <3>1. SUFFICES ASSUME Acknowledged(r, NumOf(x)) PROVE Has(st, k, r, q, i)
      BY <1>3
    <3>2. CASE InWindow(r, NumOf(x))
      <4>1. WindowOf(x) <= WindowOf(Delivered(f, k)) + FreeWindows - 2
        BY <1>1, <3>2, NearNumber
      <4>2. WindowOf(f[q]) <= WindowOf(x)
        BY <1>2, WinMono, Zenon
      <4>3. PICK u \in Nat, v \in Nat, w \in Nat :
                u = WindowOf(f[q]) /\ v = WindowOf(x) /\ w = WindowOf(Delivered(f, k))
        BY <1>2, <1>5, WinBounds, Zenon
      <4>4. u <= w + FreeWindows - 2
        BY <4>1, <4>2, <4>3, Consts
      <4>5. ~(Delivered(f, k) <= f[q])
        BY <1>6, <1>9, <4>3, <4>4
      <4>6. q <= k
        BY <1>2, <1>5, <4>5
      <4>. QED BY <4>6 DEF Has
    <3>3. CASE ~InWindow(r, NumOf(x))
      <4>1. q <= k
        BY <1>1, <3>1, <3>3, NumberPassed
      <4>. QED BY <4>1 DEF Has
    <3>. QED BY <3>2, <3>3
  <2>2. HandleSendFragment(r, c) = Done(r)
    BY <1>3, <1>9 DEF HandleSendFragment
  <2>. QED BY <2>1, <2>2, AnswerRefused
<1>10. CASE InWindow(r, m) /\ Holds(r, m)
  <2>1. PICK p \in 1..Len(r.reliable) : p = Place(r, m) /\ EntryOf(f, st, r.reliable[p], q)
    BY <1>1, <1>2, <1>8, <1>10, HoldsFacts DEF m
  <2>2. r.reliable[p].kind = "FRAGMENT"
    BY <2>1 DEF EntryOf
  <2>3. HandleSendFragment(r, c) = TakeFragment(r, p, c)
    BY <1>3, <1>10, <2>1, <2>2 DEF HandleSendFragment
  <2>4. SameParts(f, st, k, r, k, r)
    BY DEF SameParts
  <2>5. Answers(f, st, b, k, r, c, q, i, TakeFragment(r, p, c))
    BY <1>3, <2>1, <2>4, TakeServes, Zenon
  <2>. QED BY <2>3, <2>5
<1>11. CASE InWindow(r, m) /\ ~Holds(r, m)
  <2>1. e \in Entry(n) /\ e.pkt = st[q] /\ e.rseq = m /\ e.count = 2 /\ e.kind = "FRAGMENT" /\ e.got = {}
    <3>1. e \in Entry(n)
      BY <1>3, <1>4, IncomingType DEF Kinds
    <3>. QED BY <1>3, <3>1 DEF Incoming
  <2> HIDE DEF e
  <2>2. EntryOf(f, st, e, q)
    BY <1>2, <2>1 DEF EntryOf, m
  <2>3. Extended(n, r, Place(r, m), e, s)
    <3>1. Place(r, m) \in 0..Len(r.reliable)
      BY PlaceType
    <3>. QED BY <2>1, <3>1, ExtendedFacts DEF s
  <2>4. /\ s \in Chan(n) /\ Receiver(f, st, b, k, s) /\ SameParts(f, st, k, r, k, s)
        /\ Place(s, m) \in 1..Len(s.reliable) /\ EntryOf(f, st, s.reliable[Place(s, m)], q)
    <3>1. Acceptable(f, k, q) /\ ~Holds(r, NumOf(f[q])) /\ e \in Entry(n) /\ e.got = {}
      BY <1>8, <1>11, <2>1 DEF m
    <3>2. Extended(n, r, Place(r, NumOf(f[q])), e, s)
      BY <2>3 DEF m
    <3>. QED BY <1>2, <2>2, <3>1, <3>2, FirstFragment DEF m
  <2>5. QueueReliable(r, c, m, 2) \in {Failed(r), Done(s)}
    <3>1. DispatchReliable(Done(s)) = Done(s)
      BY <2>4, BlockedStays DEF Receiver
    <3>2. QueueReliable(r, c, m, 2) \in {Failed(r), DispatchReliable(Done(s))}
      BY <1>7, <1>11 DEF QueueReliable, s, e
    <3>. QED BY <3>1, <3>2
  <2>6. Done(s).r = s /\ Done(s).ok /\ ~Failed(r).ok
    BY DEF Done, Failed
  <2>7. HandleSendFragment(r, c) \in {Failed(r), TakeFragment(s, Place(s, m), c)}
    BY <1>3, <1>11, <2>5, <2>6 DEF HandleSendFragment
  <2>8. Answers(f, st, b, k, r, c, q, i, TakeFragment(s, Place(s, m), c))
    BY <1>3, <2>4, TakeServes, Zenon
  <2>9. Answers(f, st, b, k, r, c, q, i, Failed(r))
    BY AnswerRefused
  <2>. QED BY <2>7, <2>8, <2>9
<1>. QED BY <1>9, <1>10, <1>11

\* A packet that is not of the stream leaves the reliable list alone.
Beside(st, b, r, h) ==
    /\ h.r.reliable = r.reliable /\ h.r.rseq = r.rseq
    /\ LooseOnly(st, b, h.r.unreliable)
    /\ Len(h.out) \in Nat /\ \A i \in 1..Len(h.out) : Loose(st, b, h.out[i])

LEMMA BesideServes ==
    ASSUME NEW f, NEW st, NEW b, NEW k, NEW r, Receiver(f, st, b, k, r),
           NEW h, Beside(st, b, r, h)
    PROVE  Serves(f, st, b, k, k, h) /\ SameParts(f, st, k, r, k, h.r)
<1>1. k \in Nat
  BY DeliveredFacts DEF Receiver, Queue
<1>2. k <= k /\ k - k = 0 /\ 1..0 = {} /\ 0 + 1 = 1 /\ 0 <= Len(h.out)
  BY <1>1 DEF Beside
<1>3. Receiver(f, st, b, k, h.r)
  BY DEF Receiver, Beside, Queue, Blocked, Continues
<1>4. Serves(f, st, b, k, k, h)
  BY <1>2, <1>3 DEF Serves, Beside
<1>5. SameParts(f, st, k, r, k, h.r)
  BY DEF SameParts, Beside, Has
<1>. QED BY <1>4, <1>5

LEMMA BesideRefused ==
    ASSUME NEW st, NEW b, NEW r, LooseOnly(st, b, r.unreliable)
    PROVE  Beside(st, b, r, Done(r)) /\ Beside(st, b, r, Failed(r))
<1>1. \A i \in 1..Len(<< >>) : FALSE
  OBVIOUS
<1>. QED BY <1>1 DEF Beside, Done, Failed

LEMMA BesideDispatch ==
    ASSUME NEW st, NEW b, NEW n \in Nat, NEW r, NEW s \in Chan(n),
           s.reliable = r.reliable, s.rseq = r.rseq, LooseOnly(st, b, s.unreliable)
    PROVE  /\ Beside(st, b, r, DispatchUnreliable(Done(s)))
           /\ DispatchUnreliable(Done(s)) \in Res(n)
<1> DEFINE t == DispatchUnreliable(Done(s))
<1>1. Done(s) \in Res(n) /\ Done(s).r = s /\ Done(s).out = << >>
  BY DEF Done, Res
<1>2. WentOut(n, Done(s), t)
  BY <1>1, DispatchUnreliableFacts
<1> HIDE DEF t
<1>3. t \in Res(n) /\ t.r.reliable = r.reliable /\ t.r.rseq = r.rseq
  BY <1>1, <1>2 DEF WentOut
<1>4. LooseOnly(st, b, t.r.unreliable)
  BY <1>1, <1>2 DEF WentOut, EntriesFrom, LooseOnly
<1>5. PICK u \in Seq(1..n) : IsJoin(1..n, << >>, u, t.out) /\ PacketsFrom(u, s.unreliable)
  BY <1>1, <1>2 DEF WentOut
<1>6. Len(t.out) = Len(u) /\ Len(u) \in Nat /\ \A i \in 1..Len(u) : t.out[i] = u[i]
  <2>1. /\ Len(t.out) = Len(<< >>) + Len(u) /\ \A i \in 1..Len(u) : t.out[Len(<< >>) + i] = u[i]
        /\ Len(u) \in Nat /\ Len(<< >>) = 0
    BY <1>5 DEF IsJoin
  <2>. QED BY <2>1
<1>7. \A i \in 1..Len(t.out) : Loose(st, b, t.out[i])
  BY <1>5, <1>6 DEF PacketsFrom, LooseOnly
<1>8. Beside(st, b, r, t)
  BY <1>3, <1>4, <1>6, <1>7 DEF Beside
<1>. QED BY <1>3, <1>8 DEF t

LEMMA LooseInserted ==
    ASSUME NEW st, NEW b, NEW S, NEW list \in Seq(S), LooseOnly(st, b, list), NEW p \in 0..Len(list),
           NEW e \in S, Loose(st, b, e.pkt)
    PROVE  LooseOnly(st, b, Insert(list, p, e))
<1> DEFINE u == Insert(list, p, e)
<1>1. IsInserted(S, list, p + 1, e, u)
  BY InsertFacts
<1> HIDE DEF u
<1>2. PICK N \in Nat : N = Len(list)
  BY SeqFacts
<1>3. /\ Len(u) = N + 1 /\ u[p + 1] = e /\ p \in 0..N
      /\ \A j \in 1 .. (p + 1) - 1 : u[j] = list[j]
      /\ \A j \in (p + 1) + 1 .. N + 1 : u[j] = list[j - 1]
  BY <1>1, <1>2 DEF IsInserted
<1>4. ASSUME NEW j \in 1..N + 1 PROVE Loose(st, b, u[j].pkt)
  <2>1. CASE j <= p
    <3>1. j \in 1 .. (p + 1) - 1 /\ j \in 1..N
      BY <1>3, <2>1
    <3>. QED BY <1>2, <1>3, <3>1 DEF LooseOnly
  <2>2. CASE j = p + 1
    BY <1>3, <2>2
  <2>3. CASE j > p + 1
    <3>1. j \in (p + 1) + 1 .. N + 1 /\ j - 1 \in 1..N
      BY <1>3, <2>3
    <3>. QED BY <1>2, <1>3, <3>1 DEF LooseOnly
  <2>. QED BY <1>3, <2>1, <2>2, <2>3
<1>5. LooseOnly(st, b, u)
  BY <1>3, <1>4 DEF LooseOnly
<1>. QED BY <1>5 DEF u

LEMMA UnreliableServes ==
    ASSUME NEW st, NEW b, NEW n \in Nat, NEW r \in Chan(n), LooseOnly(st, b, r.unreliable),
           NEW c \in Cmd(n), Loose(st, b, c.pkt)
    PROVE  Beside(st, b, r, HandleSendUnreliable(r, c))
<1> DEFINE e == Incoming(c.kind, c, c.rseq, 0)
           p == UnreliablePlace(r, c.rseq, c.useq)
           q == [r EXCEPT !.unreliable = Insert(r.unreliable, p, e)]
<1>1. HandleSendUnreliable(r, c) \in {Done(r), Failed(r), DispatchUnreliable(Done(q))}
  BY DEF HandleSendUnreliable
<1>2. Beside(st, b, r, Done(r)) /\ Beside(st, b, r, Failed(r))
  BY BesideRefused
<1>3. e \in Entry(n) /\ e.pkt = c.pkt
  <2>1. e \in Entry(n)
    BY IncomingType DEF Cmd
  <2>. QED BY <2>1 DEF Incoming
<1>4. r.unreliable \in Seq(Entry(n)) /\ p \in 0..Len(r.unreliable)
  BY PlaceType, ChanFacts
<1> HIDE DEF e, p
<1>5. /\ q \in Chan(n) /\ q.unreliable = Insert(r.unreliable, p, e) /\ q.reliable = r.reliable
      /\ q.rseq = r.rseq
  <2>1. Insert(r.unreliable, p, e) \in Seq(Entry(n))
    BY <1>3, <1>4, InsertType, Zenon
  <2>. QED BY <2>1 DEF Chan
<1> HIDE DEF q
<1>6. LooseOnly(st, b, q.unreliable)
  <2>1. Loose(st, b, e.pkt)
    BY <1>3
  <2>2. LooseOnly(st, b, Insert(r.unreliable, p, e))
    BY <1>3, <1>4, <2>1, LooseInserted, Zenon
  <2>. QED BY <1>5, <2>2
<1>7. Beside(st, b, r, DispatchUnreliable(Done(q)))
  BY <1>5, <1>6, BesideDispatch, Zenon
<1>. QED BY <1>1, <1>2, <1>7

LEMMA UnsequencedServes ==
    ASSUME NEW st, NEW b, NEW n \in Nat, NEW r \in Chan(n), LooseOnly(st, b, r.unreliable),
           NEW c \in Cmd(n), Loose(st, b, c.pkt)
    PROVE  Beside(st, b, r, HandleSendUnsequenced(r, c))
<1> DEFINE index == c.useq % UnseqWindow
           q == IF c.useq - index # r.group THEN [r EXCEPT !.group = c.useq - index, !.seen = {}] ELSE r
           e == Incoming(c.kind, c, 0, 0)
           s == [q EXCEPT !.unreliable = Append(q.unreliable, e)]
           queued == DispatchUnreliable(Done(s))
           marked == [queued EXCEPT !.r.seen = queued.r.seen \cup {index}]
<1>1. HandleSendUnsequenced(r, c) \in {Done(r), Failed(q), marked}
  BY DEF HandleSendUnsequenced
<1>2. c.useq \in Nat /\ index \in Int
  BY LimitsAssumption DEF Cmd
<1> HIDE DEF index
<1>3. q \in Chan(n) /\ q.unreliable = r.unreliable /\ q.reliable = r.reliable /\ q.rseq = r.rseq
  <2>1. PICK g \in Int : g = c.useq - index
    BY <1>2
  <2>2. \A k \in Int : [r EXCEPT !.group = k, !.seen = {}] \in Chan(n)
    BY DEF Chan
  <2>3. \A k \in Int : /\ [r EXCEPT !.group = k, !.seen = {}].unreliable = r.unreliable
                       /\ [r EXCEPT !.group = k, !.seen = {}].reliable = r.reliable
                       /\ [r EXCEPT !.group = k, !.seen = {}].rseq = r.rseq
    BY DEF Chan
  <2>. QED BY <2>1, <2>2, <2>3, Zenon
<1> HIDE DEF q
<1>4. Beside(st, b, r, Done(r)) /\ Beside(st, b, r, Failed(q))
  <2>1. LooseOnly(st, b, q.unreliable)
    BY <1>3
  <2>2. Beside(st, b, r, Done(r)) /\ Beside(st, b, q, Failed(q))
    BY <2>1, BesideRefused
  <2>. QED BY <1>3, <2>2, Zenon DEF Beside
<1>5. e \in Entry(n) /\ e.pkt = c.pkt
  <2>1. 0 \in 0..Numbers - 1
    BY Consts
  <2>2. e \in Entry(n)
    BY <2>1, IncomingType DEF Cmd
  <2>. QED BY <2>2 DEF Incoming
<1> HIDE DEF e
<1>6. q.unreliable \in Seq(Entry(n)) /\ Len(q.unreliable) \in Nat
  BY <1>3, ChanFacts
<1>7. s \in Chan(n) /\ s.unreliable = Append(q.unreliable, e) /\ s.reliable = r.reliable /\ s.rseq = r.rseq
  <2>1. Append(q.unreliable, e) \in Seq(Entry(n))
    BY <1>5, <1>6
  <2>. QED BY <1>3, <2>1 DEF Chan
<1>8. LooseOnly(st, b, s.unreliable)
  <2>1. Append(q.unreliable, e) = Insert(q.unreliable, Len(q.unreliable), e)
    BY <1>5, <1>6, AppendInsert
  <2>2. Loose(st, b, e.pkt) /\ Len(q.unreliable) \in 0..Len(q.unreliable) /\ LooseOnly(st, b, q.unreliable)
    BY <1>3, <1>5, <1>6
  <2>3. LooseOnly(st, b, Insert(q.unreliable, Len(q.unreliable), e))
    BY <1>5, <1>6, <2>2, LooseInserted, Zenon
  <2>. QED BY <1>7, <2>1, <2>3
<1> HIDE DEF s
<1>9. Beside(st, b, r, queued) /\ queued \in Res(n)
  BY <1>7, <1>8, BesideDispatch, Zenon
<1> HIDE DEF queued
<1>10. /\ marked.out = queued.out /\ marked.r.reliable = queued.r.reliable
       /\ marked.r.unreliable = queued.r.unreliable /\ marked.r.rseq = queued.r.rseq
  <2>1. queued.r \in Chan(n)
    BY <1>9 DEF Res
  <2>2. PICK m : /\ m = [queued.r EXCEPT !.seen = queued.r.seen \cup {index}]
                 /\ m.reliable = queued.r.reliable /\ m.unreliable = queued.r.unreliable
                 /\ m.rseq = queued.r.rseq
    <3>1. \A t : /\ [queued.r EXCEPT !.seen = t].reliable = queued.r.reliable
                 /\ [queued.r EXCEPT !.seen = t].unreliable = queued.r.unreliable
                 /\ [queued.r EXCEPT !.seen = t].rseq = queued.r.rseq
      BY <2>1 DEF Chan
    <3>. QED BY <3>1, Zenon
  <2>3. marked = [queued EXCEPT !.r = m]
    BY <1>9, <2>2 DEF Res
  <2>. QED BY <1>9, <2>2, <2>3 DEF Res
<1>11. Beside(st, b, r, marked)
  BY <1>9, <1>10, Zenon DEF Beside
<1>. QED BY <1>1, <1>4, <1>11

-----------------------------------------------------------------------------
(***************************************************************************)
(* The stream grows by a packet p in n parts.                              *)
(***************************************************************************)
Longer(f, st, g, u, p, n) ==
    /\ n \in {1, 2} /\ p \in Nat /\ \A q \in 1..Len(st) : st[q] < p
    /\ u = Append(st, p)
    /\ g = [q \in 1 .. Len(st) + 2 |-> IF q <= Len(st) + 1 THEN f[q] ELSE f[Len(st) + 1] + n]

LEMMA LongerFacts ==
    ASSUME NEW f, NEW st, Known(f, st), NEW g, NEW u, NEW p, NEW n, Longer(f, st, g, u, p, n)
    PROVE  /\ Known(g, u) /\ Newest(g, u) = Newest(f, st) + n /\ Len(u) = Len(st) + 1
           /\ Len(st) \in Nat /\ n \in {1, 2}
           /\ \A q \in 1..Len(st) : u[q] = st[q] /\ Parts(g, q) = Parts(f, q)
           /\ \A q \in 1 .. Len(st) + 1 : g[q] = f[q]
           /\ u[Len(st) + 1] = p /\ Parts(g, Len(st) + 1) = n
           /\ g[Len(st) + 1] = Newest(f, st) + 1 /\ Newest(f, st) \in Nat
           /\ \A q \in 1..Len(st) : u[q] # p
<1>1. PICK N \in Nat : N = Len(st)
  BY DEF Known
<1>2. st \in Seq(Nat) /\ Firsts(f, st) /\ Ascends(st)
  BY DEF Known
<1>3. n \in {1, 2} /\ n \in Nat /\ p \in Nat /\ \A q \in 1..N : st[q] < p
  BY <1>1 DEF Longer
<1>4. u \in Seq(Nat) /\ Len(u) = N + 1 /\ u[N + 1] = p /\ \A q \in 1..N : u[q] = st[q]
  BY <1>1, <1>2, <1>3 DEF Longer
<1>5. /\ \A q \in 1 .. N + 1 : f[q] \in Nat
      /\ \A q, r \in 1 .. N + 1 : q < r => f[q] < f[r]
      /\ \A q \in 1..N : f[q + 1] - f[q] \in {1, 2}
      /\ f[1] = Start + 1
  BY <1>1, <1>2 DEF Firsts
<1>6. /\ DOMAIN g = 1 .. N + 2 /\ g = [q \in 1 .. N + 2 |-> g[q]]
      /\ \A q \in 1 .. N + 1 : g[q] = f[q]
      /\ g[N + 2] = f[N + 1] + n
  BY <1>1 DEF Longer
<1>7. PICK F \in Nat : F = f[N + 1]
  BY <1>1, <1>5
<1> DEFINE G(q) == g[q]
<1>20. \A q \in 1 .. N + 1 : G(q) = f[q]
  BY <1>6
<1>21. G(N + 1) = F /\ G(N + 2) = F + n
  <2>1. N + 1 \in 1 .. N + 1
    OBVIOUS
  <2>. QED BY <1>6, <1>7, <1>20, <2>1
<1>22. \A q \in 1..N : q \in 1 .. N + 1 /\ q + 1 \in 1 .. N + 1
  OBVIOUS
<1>23. \A q \in 1..N : G(q) = f[q] /\ G(q + 1) = f[q + 1]
  BY <1>20, <1>22, Zenon
<1>24. G((N + 1) + 1) = F + n
  <2>1. (N + 1) + 1 = N + 2
    OBVIOUS
  <2>. QED BY <1>21, <2>1
<1> HIDE DEF G
<1>8. Firsts(g, u)
  <2>1. \A q \in 1 .. N + 2 : g[q] \in Nat
    <3>1. TAKE q \in 1 .. N + 2
    <3>2. CASE q = N + 2
      BY <1>3, <1>6, <1>7, <3>2
    <3>3. CASE q # N + 2
      <4>1. q \in 1 .. N + 1
        BY <1>1, <3>3
      <4>. QED BY <1>5, <1>6, <4>1
    <3>. QED BY <3>2, <3>3
  <2>2. \A q \in 1 .. N + 1 : g[q + 1] - g[q] \in {1, 2}
    <3>1. \A q \in 1 .. N + 1 : G(q + 1) - G(q) \in {1, 2}
      <4>1. TAKE q \in 1 .. N + 1
      <4>2. CASE q = N + 1
        <5>1. G(q + 1) = F + n /\ G(q) = F
          BY <1>21, <1>24, <4>2
        <5>2. (F + n) - F \in {1, 2}
          BY <1>3
        <5>. QED BY <5>1, <5>2
      <4>3. CASE q # N + 1
        <5>1. q \in 1..N
          BY <4>3
        <5>. QED BY <1>5, <1>23, <5>1
      <4>. QED BY <4>2, <4>3
    <3>. QED BY <3>1 DEF G
  <2>3. ASSUME NEW q \in 1 .. N + 2, NEW r \in 1 .. N + 2, q < r
        PROVE  g[q] < g[r]
    <3>1. CASE r = N + 2
      <4>1. q \in 1 .. N + 1 /\ g[q] = f[q] /\ f[q] \in Nat
        <5>1. q \in 1 .. N + 1
          BY <2>3, <3>1
        <5>. QED BY <1>5, <1>6, <5>1, Zenon
      <4>2. f[q] <= F
        <5>1. CASE q = N + 1
          BY <1>7, <4>1, <5>1
        <5>2. CASE q # N + 1
          <6>1. q < N + 1 /\ N + 1 \in 1 .. N + 1
            BY <4>1, <5>2
          <6>. QED BY <1>5, <1>7, <4>1, <6>1
        <5>. QED BY <5>1, <5>2
      <4>. QED BY <1>3, <1>6, <1>7, <3>1, <4>1, <4>2
    <3>2. CASE r # N + 2
      <4>1. q \in 1 .. N + 1 /\ r \in 1 .. N + 1
        BY <1>1, <2>3, <3>2
      <4>. QED BY <1>5, <1>6, <2>3, <4>1
    <3>. QED BY <3>1, <3>2
  <2>4. g \in [1 .. Len(u) + 1 -> Nat]
    <3>1. Len(u) + 1 = N + 2
      BY <1>4
    <3>. QED BY <1>6, <2>1, <3>1
  <2>5. g[1] = Start + 1
    <3>1. 1 \in 1 .. N + 1
      OBVIOUS
    <3>. QED BY <1>5, <1>6, <3>1
  <2>6. Len(u) = N + 1 /\ Len(u) + 1 = N + 2
    BY <1>4
  <2>. QED BY <2>2, <2>3, <2>4, <2>5, <2>6 DEF Firsts
<1>9. Ascends(u)
  <2>1. DOMAIN u = 1 .. N + 1 /\ DOMAIN st = 1..N
    BY <1>1, <1>2, <1>4
  <2>2. SUFFICES ASSUME NEW i \in 1 .. N + 1, NEW j \in 1 .. N + 1, i < j
                 PROVE  u[i] < u[j]
    BY <2>1 DEF Ascends
  <2>3. i \in 1..N
    BY <2>2
  <2>4. CASE j = N + 1
    BY <1>3, <1>4, <2>3, <2>4
  <2>5. CASE j # N + 1
    <3>1. j \in 1..N
      BY <2>5
    <3>. QED BY <1>2, <1>4, <2>1, <2>2, <2>3, <3>1 DEF Ascends
  <2>. QED BY <2>4, <2>5
<1>10. Newest(f, st) = F - 1 /\ Newest(g, u) = (F + n) - 1
  <2>1. Len(u) + 1 = N + 2
    BY <1>4
  <2>. QED BY <1>1, <1>6, <1>7, <2>1 DEF Newest
<1>11. F > 0
  <2>1. Start \in Nat /\ Start <= Newest(f, st)
    BY <1>2, FirstsFacts
  <2>. QED BY <1>7, <1>10, <2>1
<1>12. \A q \in 1..N : Parts(g, q) = Parts(f, q)
  BY <1>23 DEF Parts, G
<1>13. Parts(g, N + 1) = n
  <2>1. Parts(g, N + 1) = G((N + 1) + 1) - G(N + 1)
    BY DEF Parts, G
  <2>2. (F + n) - F = n
    BY <1>3
  <2>. QED BY <1>21, <1>24, <2>1, <2>2
<1>14. g[N + 1] = (F - 1) + 1 /\ F - 1 \in Nat /\ (F + n) - 1 = (F - 1) + n
  <2>1. g[N + 1] = F
    BY <1>21 DEF G
  <2>2. F = (F - 1) + 1 /\ F - 1 \in Nat /\ (F + n) - 1 = (F - 1) + n
    BY <1>3, <1>11
  <2>. QED BY <2>1, <2>2
<1>15. \A q \in 1..N : u[q] # p
  BY <1>3, <1>4, SeqFacts
<1>. QED BY <1>1, <1>3, <1>4, <1>6, <1>8, <1>9, <1>10, <1>12, <1>13, <1>14, <1>15 DEF Known

\* The parts there were keep their places and commands, and new ones come.
LEMMA LongerParts ==
    ASSUME NEW f, NEW st, Known(f, st), NEW g, NEW u, NEW p, NEW n, Longer(f, st, g, u, p, n),
           NEW q, NEW i
    PROVE  /\ IsPart(f, st, q, i) =>
                  /\ IsPart(g, u, q, i) /\ q \in 1..Len(st) /\ i \in {1, 2}
                  /\ CommandOf(g, u, q, i) = CommandOf(f, st, q, i) /\ Pos(g, q, i) = Pos(f, q, i)
           /\ IsPart(g, u, q, i) => IsPart(f, st, q, i) \/ (q = Len(st) + 1 /\ i \in 1..n)
           /\ i \in 1..n => /\ IsPart(g, u, Len(st) + 1, i)
                            /\ Pos(g, Len(st) + 1, i) = Newest(f, st) + i
<1>1. PICK N \in Nat : N = Len(st)
  BY LongerFacts
<1>2. /\ Len(u) = N + 1 /\ n \in {1, 2}
      /\ \A r \in 1..N : u[r] = st[r] /\ Parts(g, r) = Parts(f, r)
      /\ \A r \in 1 .. N + 1 : g[r] = f[r]
      /\ u[N + 1] = p /\ Parts(g, N + 1) = n
      /\ g[N + 1] = Newest(f, st) + 1 /\ Newest(f, st) \in Nat
  BY <1>1, LongerFacts
<1>3. ASSUME IsPart(f, st, q, i)
      PROVE  /\ IsPart(g, u, q, i) /\ q \in 1..N /\ i \in {1, 2}
             /\ CommandOf(g, u, q, i) = CommandOf(f, st, q, i) /\ Pos(g, q, i) = Pos(f, q, i)
  <2>1. q \in 1..N /\ q \in 1 .. N + 1 /\ i \in {1, 2}
    BY <1>1, <1>3 DEF IsPart
  <2>2. g[q] = f[q] /\ Parts(g, q) = Parts(f, q) /\ u[q] = st[q]
    BY <1>2, <2>1
  <2>3. Pos(g, q, i) = Pos(f, q, i)
    BY <2>2 DEF Pos
  <2>4. CommandOf(g, u, q, i) = CommandOf(f, st, q, i)
    BY <2>2, <2>3, Zenon DEF CommandOf
  <2>. QED BY <1>2, <1>3, <2>1, <2>2, <2>3, <2>4 DEF IsPart
<1>4. ASSUME IsPart(g, u, q, i), ~IsPart(f, st, q, i)
      PROVE  q = N + 1 /\ i \in 1..n
  <2>1. q \in 1 .. N + 1 /\ i \in {1, 2} /\ i <= Parts(g, q)
    BY <1>2, <1>4 DEF IsPart
  <2>2. q \notin 1..N
    BY <1>1, <1>2, <1>4, <2>1 DEF IsPart
  <2>3. q = N + 1
    BY <2>1, <2>2
  <2>. QED BY <1>2, <2>1, <2>3
<1>5. ASSUME i \in 1..n
      PROVE  IsPart(g, u, N + 1, i) /\ Pos(g, N + 1, i) = Newest(f, st) + i
  BY <1>2, <1>5 DEF IsPart, Pos
<1>. QED BY <1>1, <1>3, <1>4, <1>5

LEMMA LongerPos ==
    ASSUME NEW f, NEW st, Known(f, st), NEW g, NEW u, NEW p, NEW n, Longer(f, st, g, u, p, n),
           NEW c, NEW x, HasPos(f, st, c, x)
    PROVE  HasPos(g, u, c, x)
<1>1. PICK q \in 1..Len(st), i \in {1, 2} :
          IsPart(f, st, q, i) /\ c = CommandOf(f, st, q, i) /\ x = Pos(f, q, i)
  BY Zenon DEF HasPos
<1>2. IsPart(g, u, q, i) /\ c = CommandOf(g, u, q, i) /\ x = Pos(g, q, i)
  BY <1>1, LongerParts
<1>3. q \in 1..Len(u)
  BY <1>2 DEF IsPart
<1>. QED BY <1>2, <1>3, Zenon DEF HasPos

\* The new packet is the one after the b that were submitted before.
LEMMA LongerLoose ==
    ASSUME NEW f, NEW st, Known(f, st), NEW b \in Nat, NEW g, NEW u, NEW n, Longer(f, st, g, u, b + 1, n),
           NEW p, Loose(st, b, p)
    PROVE  Loose(u, b + 1, p)
<1>1. PICK N \in Nat : N = Len(st) /\ Len(u) = N + 1
  BY LongerFacts
<1>2. u[N + 1] = b + 1 /\ \A q \in 1..N : u[q] = st[q]
  BY <1>1, LongerFacts
<1>3. p \in 1..b /\ \A q \in 1..N : st[q] # p
  BY <1>1 DEF Loose
<1>4. ASSUME NEW q \in 1 .. N + 1 PROVE u[q] # p
  <2>1. CASE q = N + 1
    BY <1>2, <1>3, <2>1
  <2>2. CASE q # N + 1
    <3>1. q \in 1..N
      BY <2>2
    <3>. QED BY <1>2, <1>3, <3>1
  <2>. QED BY <2>1, <2>2
<1>5. p \in 1 .. b + 1
  BY <1>3
<1>. QED BY <1>1, <1>4, <1>5 DEF Loose

LEMMA LongerDelivered ==
    ASSUME NEW f, NEW st, Known(f, st), NEW g, NEW u, NEW p, NEW n, Longer(f, st, g, u, p, n),
           NEW k \in 0..Len(st)
    PROVE  Delivered(g, k) = Delivered(f, k) /\ k \in 0..Len(u)
<1>1. PICK N \in Nat : N = Len(st) /\ Len(u) = N + 1
  BY LongerFacts
<1>2. k + 1 \in 1 .. N + 1 /\ k \in 0 .. N + 1
  BY <1>1
<1>3. g[k + 1] = f[k + 1]
  BY <1>1, <1>2, LongerFacts
<1>. QED BY <1>1, <1>2, <1>3 DEF Delivered

LEMMA LongerSlots ==
    ASSUME NEW f, NEW st, Known(f, st), NEW g, NEW u, NEW p, NEW n, Longer(f, st, g, u, p, n),
           NEW k \in 0..Len(st), NEW list, NEW h, Slots(f, st, k, list, h)
    PROVE  Slots(g, u, k, list, h)
<1>1. PICK N \in Nat : N = Len(st) /\ Len(u) = N + 1
  BY LongerFacts
<1>2. /\ h \in [1..Len(list) -> 1..N]
      /\ \A j \in 1..Len(list) : EntryOf(f, st, list[j], h[j]) /\ Acceptable(f, k, h[j])
      /\ \A i, j \in 1..Len(list) : i < j => h[i] < h[j]
  BY <1>1 DEF Slots
<1>3. \A q \in 1..N : q \in 1 .. N + 1 /\ u[q] = st[q] /\ g[q] = f[q] /\ Parts(g, q) = Parts(f, q)
  BY <1>1, LongerFacts
<1>4. Delivered(g, k) = Delivered(f, k)
  BY LongerDelivered
<1>5. ASSUME NEW q \in 1..N
      PROVE  /\ \A e : EntryOf(f, st, e, q) => EntryOf(g, u, e, q)
             /\ Acceptable(f, k, q) => Acceptable(g, k, q)
  <2>1. q \in 1 .. N + 1 /\ u[q] = st[q] /\ g[q] = f[q] /\ Parts(g, q) = Parts(f, q)
    BY <1>3
  <2>2. \A e : EntryOf(f, st, e, q) => EntryOf(g, u, e, q)
    BY <1>1, <2>1, Zenon DEF EntryOf
  <2>3. Acceptable(f, k, q) => Acceptable(g, k, q)
    BY <1>4, <2>1, Zenon DEF Acceptable
  <2>. QED BY <2>2, <2>3
<1>6. h \in [1..Len(list) -> 1 .. N + 1]
  BY <1>2, <1>3
<1>7. \A j \in 1..Len(list) : EntryOf(g, u, list[j], h[j]) /\ Acceptable(g, k, h[j])
  <2>1. TAKE j \in 1..Len(list)
  <2>2. h[j] \in 1..N
    BY <1>2
  <2>. QED BY <1>2, <1>5, <2>2, Zenon
<1>. QED BY <1>1, <1>2, <1>6, <1>7 DEF Slots

LEMMA LongerReceiver ==
    ASSUME NEW f, NEW st, NEW b \in Nat, NEW g, NEW u, NEW n, Longer(f, st, g, u, b + 1, n),
           NEW k, NEW r, Receiver(f, st, b, k, r)
    PROVE  Receiver(g, u, b + 1, k, r)
<1>1. Known(f, st) /\ k \in 0..Len(st) /\ r.rseq = NumOf(Delivered(f, k))
  BY DEF Receiver, Queue
<1>2. PICK h : Slots(f, st, k, r.reliable, h)
  BY DEF Receiver, Queue
<1>3. Slots(g, u, k, r.reliable, h)
  BY <1>1, <1>2, LongerSlots, Zenon
<1>4. Delivered(g, k) = Delivered(f, k) /\ k \in 0..Len(u)
  BY <1>1, LongerDelivered
<1>5. Queue(g, u, k, r)
  BY <1>1, <1>3, <1>4 DEF Queue
<1>6. LooseOnly(u, b + 1, r.unreliable)
  <2>1. \A p : Loose(st, b, p) => Loose(u, b + 1, p)
    BY <1>1, LongerLoose, Zenon
  <2>. QED BY <2>1 DEF Receiver, LooseOnly
<1>7. Known(g, u)
  BY <1>1, LongerFacts
<1>. QED BY <1>5, <1>6, <1>7 DEF Receiver

\* The receiver has of the packets before what it had, and of the new one
\* nothing.
LEMMA LongerHas ==
    ASSUME NEW f, NEW st, NEW b \in Nat, NEW g, NEW u, NEW n, Longer(f, st, g, u, b + 1, n),
           NEW k, NEW m \in Nat, NEW r \in Chan(m), Receiver(f, st, b, k, r), NEW q, NEW i
    PROVE  /\ q \in 1..Len(st) => (Has(u, k, r, q, i) <=> Has(st, k, r, q, i))
           /\ q = Len(st) + 1 => ~Has(u, k, r, q, i)
<1>1. Known(f, st) /\ k \in 0..Len(st)
  BY DEF Receiver, Queue
<1>2. PICK h : Slots(f, st, k, r.reliable, h)
  BY DEF Receiver, Queue
<1>3. PICK N \in Nat : N = Len(st) /\ u[N + 1] = b + 1 /\ \A x \in 1..N : u[x] = st[x] /\ u[x] # b + 1
  BY <1>1, LongerFacts, SMTT(30)
<1>4. q \in 1..N => (Has(u, k, r, q, i) <=> Has(st, k, r, q, i))
  BY <1>3 DEF Has
<1>5. ASSUME q = N + 1, Has(u, k, r, q, i) PROVE FALSE
  <2>1. ~(q <= k)
    BY <1>1, <1>3, <1>5
  <2>2. PICK j \in 1..Len(r.reliable) : r.reliable[j].pkt = u[q]
    BY <1>5, <2>1 DEF Has
  <2>3. h[j] \in 1..N /\ EntryOf(f, st, r.reliable[j], h[j])
    BY <1>1, <1>2, <1>3, ChanFacts, SlotFacts
  <2>4. r.reliable[j].pkt = st[h[j]]
    BY <2>3 DEF EntryOf
  <2>. QED BY <1>3, <1>5, <2>2, <2>3, <2>4
<1>. QED BY <1>3, <1>4, <1>5

-----------------------------------------------------------------------------
(***************************************************************************)
(* What went to the application, out: the first k packets of the stream in *)
(* their order, the q-th at the place h[q], and packets beside the stream. *)
(***************************************************************************)
TurnsAt(st, b, k, out, h) ==
    /\ h \in [1..k -> 1..Len(out)]
    /\ \A p, q \in 1..k : p < q => h[p] < h[q]
    /\ \A q \in 1..k : out[h[q]] = st[q]
    /\ \A i \in 1..Len(out) : (\E q \in 1..k : i = h[q]) \/ Loose(st, b, out[i])
InTurn(st, b, k, out) == \E h : TurnsAt(st, b, k, out, h)
OfStream(st) == {st[q] : q \in 1..Len(st)}

LEMMA TurnCount ==
    ASSUME NEW f, NEW st, Known(f, st), NEW b, NEW k \in 0..Len(st), NEW S, NEW out \in Seq(S),
           InTurn(st, b, k, out)
    PROVE  Count(out, OfStream(st)) = k
<1>1. PICK h : TurnsAt(st, b, k, out, h)
  BY DEF InTurn
<1>2. PICK N \in Nat : N = Len(out) /\ DOMAIN out = 1..N
  BY SeqFacts
<1>3. PICK M \in Nat : M = Len(st) /\ k \in 0..M
  BY DEF Known
<1>4. /\ h \in [1..k -> 1..N]
      /\ \A p, q \in 1..k : p < q => h[p] < h[q]
      /\ \A q \in 1..k : out[h[q]] = st[q]
      /\ \A i \in 1..N : (\E q \in 1..k : i = h[q]) \/ Loose(st, b, out[i])
  BY <1>1, <1>2, Zenon DEF TurnsAt
<1> DEFINE P == Places(out, OfStream(st))
<1>5. \A i : i \in P <=> i \in 1..N /\ \E q \in 1..M : out[i] = st[q]
  BY <1>2, <1>3 DEF Places, OfStream
<1> HIDE DEF P
<1>6. \A q \in 1..k : h[q] \in P
  <2>1. TAKE q \in 1..k
  <2>2. h[q] \in 1..N /\ q \in 1..M /\ out[h[q]] = st[q]
    BY <1>3, <1>4
  <2>. QED BY <1>5, <2>2, Zenon
<1>7. \A i \in P : \E q \in 1..k : i = h[q]
  <2>1. TAKE i \in P
  <2>2. PICK q \in 1..M : out[i] = st[q] /\ i \in 1..N
    BY <1>5
  <2>3. ~Loose(st, b, out[i])
    BY <1>3, <2>2 DEF Loose
  <2>. QED BY <1>4, <2>2, <2>3
<1>8. h \in [1..k -> P]
  BY <1>4, <1>6
<1>9. \A p, q \in 1..k : h[p] = h[q] => p = q
  <2>1. TAKE p, q \in 1..k
  <2>2. HAVE h[p] = h[q]
  <2>3. h[p] \in 1..N /\ h[q] \in 1..N
    BY <1>4
  <2>4. ~(p < q) /\ ~(q < p)
    BY <1>4, <2>2, <2>3
  <2>. QED BY <1>3, <2>4
<1>10. IsInjective(h)
  <2>1. DOMAIN h = 1..k
    BY <1>8
  <2>. QED BY <1>9, <2>1, Zenon DEF IsInjective
<1>11. h \in Bijection(1..k, P)
  <2>1. h \in Injection(1..k, P)
    BY <1>8, <1>10, Zenon DEF Injection
  <2>2. h \in Surjection(1..k, P)
    BY <1>7, <1>8, Zenon DEF Surjection
  <2>. QED BY <2>1, <2>2, Zenon DEF Bijection
<1>12. ExistsBijection(1..k, P)
  BY <1>11, Zenon DEF ExistsBijection
<1>13. k \in Nat
  BY <1>3
<1>14. Cardinality(P) = k
  BY <1>12, <1>13, FS_CountingElements, Zenon
<1>. QED BY <1>14 DEF Count, P

LEMMA TurnLonger ==
    ASSUME NEW f, NEW st, Known(f, st), NEW b \in Nat, NEW g, NEW u, NEW n, Longer(f, st, g, u, b + 1, n),
           NEW k \in 0..Len(st), NEW out, InTurn(st, b, k, out)
    PROVE  InTurn(u, b + 1, k, out)
<1>1. PICK h : TurnsAt(st, b, k, out, h)
  BY DEF InTurn
<1>2. \A p : Loose(st, b, p) => Loose(u, b + 1, p)
  BY LongerLoose, Zenon
<1>3. \A q \in 1..k : u[q] = st[q]
  <2>1. TAKE q \in 1..k
  <2>2. q \in 1..Len(st)
    BY LongerFacts
  <2>. QED BY <2>2, LongerFacts
<1>4. TurnsAt(u, b + 1, k, out, h)
  BY <1>1, <1>2, <1>3 DEF TurnsAt
<1>. QED BY <1>4 DEF InTurn

\* More goes to the application: the next packets of the stream, and then
\* packets beside it.
LEMMA TurnMore ==
    ASSUME NEW f, NEW st, Known(f, st), NEW b, NEW k \in 0..Len(st), NEW S, NEW out \in Seq(S),
           InTurn(st, b, k, out), NEW j \in k..Len(st), NEW more \in Seq(S), j - k <= Len(more),
           \A i \in 1..j - k : more[i] = st[k + i],
           \A i \in j - k + 1 .. Len(more) : Loose(st, b, more[i]),
           NEW all, IsJoin(S, out, more, all)
    PROVE  InTurn(st, b, j, all)
<1>1. PICK h : TurnsAt(st, b, k, out, h)
  BY DEF InTurn
<1>2. PICK N \in Nat : N = Len(out)
  BY SeqFacts
<1>3. PICK M \in Nat : M = Len(st) /\ k \in 0..M /\ j \in k..M
  BY DEF Known
<1>4. PICK D \in Nat : D = j - k /\ j = k + D
  BY <1>3
<1>5. PICK L \in Nat : L = Len(more) /\ D <= L
  BY <1>4, SeqFacts
<1>6. /\ Len(all) = N + L
      /\ \A i \in 1..N : all[i] = out[i]
      /\ \A i \in 1..L : all[N + i] = more[i]
  BY <1>2, <1>5 DEF IsJoin
<1>7. /\ h \in [1..k -> 1..N]
      /\ \A p, q \in 1..k : p < q => h[p] < h[q]
      /\ \A q \in 1..k : out[h[q]] = st[q]
      /\ \A i \in 1..N : (\E q \in 1..k : i = h[q]) \/ Loose(st, b, out[i])
  BY <1>1, <1>2, Zenon DEF TurnsAt
<1>8. /\ \A i \in 1..D : more[i] = st[k + i]
      /\ \A i \in D + 1 .. L : Loose(st, b, more[i])
  BY <1>4, <1>5
<1> DEFINE m == [q \in 1..j |-> IF q <= k THEN h[q] ELSE N + (q - k)]
<1>9. /\ \A q \in 1..k : q \in 1..j /\ m[q] = h[q]
      /\ \A i \in 1..D : k + i \in 1..j /\ m[k + i] = N + i
  <2>1. \A q \in 1..k : q \in 1..j
    BY <1>3, <1>4
  <2>2. \A i \in 1..D : k + i \in 1..j /\ ~(k + i <= k) /\ (k + i) - k = i
    BY <1>3, <1>4
  <2>3. \A q \in 1..k : m[q] = h[q]
    BY <2>1
  <2>4. \A i \in 1..D : m[k + i] = N + i
    <3>1. TAKE i \in 1..D
    <3>2. m[k + i] = N + ((k + i) - k)
      BY <2>2
    <3>. QED BY <2>2, <3>2
  <2>. QED BY <2>1, <2>2, <2>3, <2>4, Zenon
<1>17. DOMAIN m = 1..j /\ m = [q \in 1..j |-> m[q]]
  OBVIOUS
<1> HIDE DEF m
<1>10. ASSUME NEW q \in 1..j PROVE q \in 1..k \/ \E i \in 1..D : q = k + i
  <2>1. CASE q <= k
    BY <1>3, <2>1
  <2>2. CASE q > k
    <3>1. q - k \in 1..D /\ q = k + (q - k)
      BY <1>3, <1>4, <2>2
    <3>. QED BY <3>1
  <2>. QED BY <1>3, <2>1, <2>2
<1>11. \A q \in 1..j : m[q] \in 1 .. N + L
  <2>1. TAKE q \in 1..j
  <2>2. CASE q \in 1..k
    <3>1. m[q] = h[q] /\ h[q] \in 1..N
      BY <1>7, <1>9, <2>2
    <3>2. 1..N \subseteq 1 .. N + L
      OBVIOUS
    <3>. QED BY <3>1, <3>2
  <2>3. ASSUME NEW i \in 1..D, q = k + i PROVE m[q] \in 1 .. N + L
    <3>1. m[q] = N + i
      BY <1>9, <2>3
    <3>2. N + i \in 1 .. N + L
      BY <1>5
    <3>. QED BY <3>1, <3>2
  <2>. QED BY <1>10, <2>2, <2>3
<1>12. ASSUME NEW p \in 1..j, NEW q \in 1..j, p < q PROVE m[p] < m[q]
  <2>1. CASE q \in 1..k
    <3>1. p \in 1..k
      BY <1>3, <1>12, <2>1
    <3>. QED BY <1>7, <1>9, <1>12, <2>1, <3>1
  <2>2. ASSUME NEW i \in 1..D, q = k + i PROVE m[p] < m[q]
    <3>1. m[q] = N + i
      BY <1>9, <2>2
    <3>2. CASE p \in 1..k
      <4>1. PICK x \in 1..N : m[p] = x
        BY <1>7, <1>9, <3>2
      <4>2. x < N + i
        BY <4>1
      <4>. QED BY <3>1, <4>1, <4>2
    <3>3. ASSUME NEW a \in 1..D, p = k + a PROVE m[p] < m[q]
      <4>1. m[p] = N + a
        BY <1>9, <3>3
      <4>2. a < i
        BY <1>3, <1>12, <2>2, <3>3
      <4>3. N + a < N + i
        BY <4>2
      <4>. QED BY <3>1, <4>1, <4>3
    <3>. QED BY <1>10, <3>2, <3>3
  <2>. QED BY <1>10, <2>1, <2>2
<1>13. ASSUME NEW q \in 1..j PROVE all[m[q]] = st[q]
  <2>1. CASE q \in 1..k
    BY <1>6, <1>7, <1>9, <2>1
  <2>2. ASSUME NEW i \in 1..D, q = k + i PROVE all[m[q]] = st[q]
    <3>1. i \in 1..L /\ m[q] = N + i /\ more[i] = st[q]
      BY <1>5, <1>8, <1>9, <2>2
    <3>. QED BY <1>6, <3>1
  <2>. QED BY <1>10, <2>1, <2>2
<1>14. ASSUME NEW i \in 1 .. N + L
       PROVE  (\E q \in 1..j : i = m[q]) \/ Loose(st, b, all[i])
  <2>1. CASE i \in 1..N
    <3>1. CASE \E q \in 1..k : i = h[q]
      BY <1>9, <3>1
    <3>2. CASE Loose(st, b, out[i])
      BY <1>6, <2>1, <3>2
    <3>. QED BY <1>7, <2>1, <3>1, <3>2
  <2>2. CASE i \notin 1..N
    <3>1. PICK a \in 1..L : i = N + a
      <4>1. i - N \in 1..L /\ i = N + (i - N)
        BY <2>2
      <4>. QED BY <4>1
    <3>2. CASE a <= D
      <4>1. a \in 1..D
        BY <3>2
      <4>2. k + a \in 1..j /\ m[k + a] = i
        BY <1>9, <3>1, <4>1
      <4>. QED BY <4>2
    <3>3. CASE ~(a <= D)
      <4>1. a \in D + 1 .. L
        BY <3>3
      <4>. QED BY <1>6, <1>8, <3>1, <4>1
    <3>. QED BY <3>2, <3>3
  <2>. QED BY <2>1, <2>2
<1>15. m \in [1..j -> 1 .. N + L]
  BY <1>11, <1>17
<1>16. TurnsAt(st, b, j, all, m)
  BY <1>6, <1>12, <1>13, <1>14, <1>15, Zenon DEF TurnsAt
<1>. QED BY <1>16 DEF InTurn

-----------------------------------------------------------------------------
(***************************************************************************)
(* The invariant of the stream: top is the position of the newest command  *)
(* that was sent, m commands wait to be sent again, k packets went out at  *)
(* the receiver.                                                           *)
(***************************************************************************)
\* A position is recent when its window is not overtaken by that of top.
Recent(top, x) == x <= top /\ WindowOf(top) <= WindowOf(x) + FreeWindows
Aired(f, st, top, c) == \E x \in Nat : HasPos(f, st, c, x) /\ Recent(top, x)

Numbered(f) ==
    /\ Known(f, stream) /\ \A q \in 1..Len(stream) : stream[q] \in 1..submitted
    /\ numbers.reliable = NumOf(Newest(f, stream))
\* The outgoing commands: those to be sent again, and then those never sent,
\* one position after the other.
Line(f, top, m) ==
    /\ top \in Nat /\ Start <= top /\ m \in 0..Len(outgoing)
    /\ top + (Len(outgoing) - m) = Newest(f, stream)
    /\ \A j \in 1..m : outgoing[j].tried /\ Aired(f, stream, top, outgoing[j].cmd)
    /\ \A j \in m + 1 .. Len(outgoing) :
           ~outgoing[j].tried /\ HasPos(f, stream, outgoing[j].cmd, top + (j - m))
    /\ \A j \in 1..Len(sent) : Aired(f, stream, top, sent[j])
OfTheStream(c) == c.kind \in {"RELIABLE", "FRAGMENT"}
Side ==
    \A j \in 1..Len(unreliable) :
        ~OfTheStream(unreliable[j]) /\ Loose(stream, submitted, unreliable[j].pkt)
Way(f, top) ==
    \A c \in net : IF OfTheStream(c) THEN Aired(f, stream, top, c)
                                     ELSE Loose(stream, submitted, c.pkt)
\* Only what the receiver has is acknowledged.
Told(f, top, k) ==
    \A n \in acks : \E q, i :
        /\ IsPart(f, stream, q, i) /\ n = NumOf(Pos(f, q, i))
        /\ Recent(top, Pos(f, q, i)) /\ Has(stream, k, in, q, i)
\* What the receiver does not have, the sender keeps.
Outstanding(c) ==
    \/ \E j \in 1..Len(sent) : sent[j] = c
    \/ \E j \in 1..Len(outgoing) : outgoing[j].cmd = c
Kept(f, k) ==
    \A q, i : IsPart(f, stream, q, i) =>
        Outstanding(CommandOf(f, stream, q, i)) \/ Has(stream, k, in, q, i)
Reached(f, top, k) ==
    \A q, i : IsPart(f, stream, q, i) /\ Has(stream, k, in, q, i) => Pos(f, q, i) <= top
Span(f, top, k) == WindowOf(top) <= WindowOf(Delivered(f, k)) + FreeWindows

Held(f, top, m, k) ==
    /\ Numbered(f) /\ Line(f, top, m) /\ Side /\ Way(f, top)
    /\ Receiver(f, stream, submitted, k, in)
    /\ Told(f, top, k) /\ Kept(f, k) /\ Reached(f, top, k) /\ Span(f, top, k)
    /\ InTurn(stream, submitted, k, delivered \o dispatched)
StreamInv == \E f, top, m, k : Held(f, top, m, k)

LEMMA StreamInit ==
    ASSUME Init
    PROVE  StreamInv
<1> DEFINE f == [q \in 1..1 |-> Start + 1]
<1>1. Start \in Nat /\ Start < Numbers /\ Numbers \in Nat
  BY Consts
<1>2. /\ stream = << >> /\ outgoing = << >> /\ sent = << >> /\ unreliable = << >> /\ submitted = 0
      /\ net = {} /\ acks = {} /\ dispatched = << >> /\ delivered = << >>
      /\ in.rseq = Start /\ in.reliable = << >> /\ in.unreliable = << >>
      /\ numbers.reliable = Start
  BY DEF Init
<1>3. Len(<< >>) = 0 /\ << >> \in Seq(Nat) /\ 1..0 = {} /\ DOMAIN << >> = {} /\ 0 + 1 = 1
      /\ 0 + 1 .. 0 = {}
  OBVIOUS
<1>4. f[1] = Start + 1 /\ f \in [1..1 -> Nat] /\ (Start + 1) - 1 = Start
  BY <1>1
<1> HIDE DEF f
<1>5. Known(f, << >>)
  <2>1. \A q, r \in 1 .. 1 : ~(q < r)
    OBVIOUS
  <2>. QED BY <1>3, <1>4, <2>1 DEF Known, Firsts, Ascends
<1>6. NumOf(Start) = Start
  BY <1>1 DEF NumOf
<1>7. Newest(f, << >>) = Start /\ Delivered(f, 0) = Start
  BY <1>3, <1>4 DEF Newest, Delivered
<1>8. Numbered(f)
  BY <1>2, <1>3, <1>5, <1>6, <1>7 DEF Numbered
<1>9. Line(f, Start, 0)
  <2>1. 0 \in 0..0 /\ Start + (0 - 0) = Start /\ Start <= Start
    BY <1>1
  <2>. QED BY <1>1, <1>2, <1>3, <1>7, <2>1 DEF Line
<1>10. Side /\ Way(f, Start) /\ Told(f, Start, 0)
  BY <1>2, <1>3 DEF Side, Way, Told
<1>11. Receiver(f, stream, submitted, 0, in)
  <2>1. \E g : Slots(f, << >>, 0, << >>, g)
    <3>1. << >> \in [1..0 -> 1..0]
      BY <1>3
    <3>2. Slots(f, << >>, 0, << >>, << >>)
      BY <1>3, <3>1 DEF Slots
    <3>. QED BY <3>2
  <2>2. Queue(f, << >>, 0, in)
    BY <1>2, <1>3, <1>6, <1>7, <2>1 DEF Queue
  <2>. QED BY <1>2, <1>3, <1>5, <2>2 DEF Receiver, Blocked, LooseOnly
<1>12. \A q, i : ~IsPart(f, stream, q, i)
  BY <1>2, <1>3 DEF IsPart
<1>13. Kept(f, 0) /\ Reached(f, Start, 0)
  BY <1>12 DEF Kept, Reached
<1>14. Span(f, Start, 0)
  <2>1. WindowOf(Start) \in Nat /\ FreeWindows \in Nat
    BY <1>1, WinBounds, Consts, Zenon
  <2>2. \A a, b \in Nat : a <= a + b
    OBVIOUS
  <2>. QED BY <1>7, <2>1, <2>2, Zenon DEF Span
<1>15. InTurn(stream, submitted, 0, delivered \o dispatched)
  <2>1. delivered \o dispatched = << >>
    BY <1>2
  <2>2. << >> \in [1..0 -> 1..0]
    BY <1>3
  <2>3. TurnsAt(stream, submitted, 0, << >>, << >>)
    BY <1>3, <2>2 DEF TurnsAt
  <2>. QED BY <2>1, <2>3 DEF InTurn
<1>. QED BY <1>8, <1>9, <1>10, <1>11, <1>13, <1>14, <1>15 DEF StreamInv, Held

LEMMA HeldReceive ==
    ASSUME NEW n, ReceiverTypes(n), NEW f, NEW top, NEW m, NEW k, Held(f, top, m, k), Receive
    PROVE  Held(f, top, m, k)'
<1>1. UNCHANGED <<submitted, stream, numbers, outgoing, sent, unreliable, net, acks, in>>
  BY DEF Receive, sender
<1>2. delivered' \o dispatched' = delivered \o dispatched
  <2>1. dispatched \in Seq(1..n) /\ delivered \in Seq(1..n) /\ dispatched # << >>
    BY DEF ReceiverTypes, Receive
  <2>2. delivered' = Append(delivered, Head(dispatched)) /\ dispatched' = Tail(dispatched)
    BY DEF Receive
  <2>. QED BY <2>1, <2>2
<1>3. (Numbered(f) /\ Line(f, top, m) /\ Side /\ Way(f, top))'
  BY <1>1 DEF Held, Numbered, Line, Side, Way
<1>4. (Receiver(f, stream, submitted, k, in) /\ Told(f, top, k) /\ Kept(f, k) /\ Reached(f, top, k))'
  BY <1>1 DEF Held, Told, Kept, Reached, Outstanding
<1>5. InTurn(stream, submitted, k, delivered \o dispatched)'
  BY <1>1, <1>2 DEF Held
<1>. QED BY <1>3, <1>4, <1>5 DEF Held, Span

LEMMA HeldSendUnreliable ==
    ASSUME NEW n, SenderTypes(n), NEW f, NEW top, NEW m, NEW k, Held(f, top, m, k), SendUnreliable
    PROVE  Held(f, top, m, k)'
<1>1. UNCHANGED <<submitted, stream, numbers, outgoing, sent, acks, in, delivered, dispatched>>
  BY DEF SendUnreliable, receiver
<1>2. unreliable \in Seq(Cmd(n)) /\ unreliable # << >> /\ unreliable' = Tail(unreliable)
      /\ Transmit(Head(unreliable))
  BY DEF SenderTypes, SendUnreliable
<1>3. PICK N \in Nat : N = Len(unreliable) /\ N >= 1
  BY <1>2, HeadTail
<1>4. /\ Head(unreliable) = unreliable[1] /\ Len(unreliable') = N - 1
      /\ \A j \in 1 .. N - 1 : unreliable'[j] = unreliable[j + 1]
  BY <1>2, <1>3, HeadTail
<1>5. \A j \in 1..N : ~OfTheStream(unreliable[j]) /\ Loose(stream, submitted, unreliable[j].pkt)
  BY <1>3 DEF Held, Side
<1>6. Side'
  <2>1. \A j \in 1 .. N - 1 : j + 1 \in 1..N
    BY <1>3
  <2>. QED BY <1>1, <1>4, <1>5, <2>1 DEF Side, OfTheStream
<1>7. Way(f, top)'
  <2>1. ~OfTheStream(Head(unreliable)) /\ Loose(stream, submitted, Head(unreliable).pkt)
    <3>1. 1 \in 1..N
      BY <1>3
    <3>. QED BY <1>4, <1>5, <3>1
  <2>2. \A c \in net' : c \in net \/ c = Head(unreliable)
    BY <1>2 DEF Transmit
  <2>. QED BY <1>1, <2>1, <2>2 DEF Held, Way, OfTheStream
<1>8. (Numbered(f) /\ Line(f, top, m))'
  BY <1>1 DEF Held, Numbered, Line
<1>9. (Receiver(f, stream, submitted, k, in) /\ Told(f, top, k) /\ Kept(f, k) /\ Reached(f, top, k))'
  BY <1>1 DEF Held, Told, Kept, Reached, Outstanding
<1>10. InTurn(stream, submitted, k, delivered \o dispatched)'
  BY <1>1 DEF Held
<1>. QED BY <1>6, <1>7, <1>8, <1>9, <1>10 DEF Held, Span

\* Commands that were sent go back to the front of those to be sent.
LEMMA HeldBack ==
    ASSUME NEW n, SenderTypes(n), NEW f, NEW top, NEW m, NEW k, Held(f, top, m, k),
           UNCHANGED <<submitted, stream, numbers, unreliable, net, acks, in, delivered, dispatched>>,
           NEW front \in Seq(Out(n)), IsJoin(Out(n), front, outgoing, outgoing'),
           \A j \in 1..Len(front) : front[j].tried /\ \E i \in 1..Len(sent) : front[j].cmd = sent[i],
           \A j \in 1..Len(sent') : \E i \in 1..Len(sent) : sent'[j] = sent[i],
           \A i \in 1..Len(sent) : \/ \E j \in 1..Len(sent') : sent'[j] = sent[i]
                                   \/ \E j \in 1..Len(front) : front[j].cmd = sent[i]
    PROVE  \E p : Held(f, top, p, k)'
<1>1. PICK N \in Nat : N = Len(outgoing)
  BY SeqFacts DEF SenderTypes
<1>2. PICK L \in Nat : L = Len(front)
  BY SeqFacts
<1>3. /\ Len(outgoing') = L + N
      /\ \A j \in 1..L : outgoing'[j] = front[j]
      /\ \A j \in 1..N : outgoing'[L + j] = outgoing[j]
  BY <1>1, <1>2 DEF IsJoin
<1>4. /\ top \in Nat /\ Start <= top /\ m \in 0..N
      /\ top + (N - m) = Newest(f, stream)
      /\ \A j \in 1..m : outgoing[j].tried /\ Aired(f, stream, top, outgoing[j].cmd)
      /\ \A j \in m + 1 .. N :
             ~outgoing[j].tried /\ HasPos(f, stream, outgoing[j].cmd, top + (j - m))
      /\ \A j \in 1..Len(sent) : Aired(f, stream, top, sent[j])
  BY <1>1 DEF Held, Line
<1>5. PICK p \in Nat : p = L + m
  BY <1>4
<1>6. Line(f, top, p)'
  <2>1. p \in 0..L + N /\ (L + N) - p = N - m
    BY <1>4, <1>5
  <2>2. ASSUME NEW j \in 1..p
        PROVE  outgoing'[j].tried /\ Aired(f, stream, top, outgoing'[j].cmd)
    <3>1. CASE j <= L
      <4>1. j \in 1..L
        BY <3>1
      <4>2. outgoing'[j] = front[j]
        BY <1>3, <4>1
      <4>. QED BY <1>2, <1>4, <4>1, <4>2
    <3>2. CASE j > L
      <4>1. PICK a \in 1..m : j = L + a
        <5>1. j - L \in 1..m /\ j = L + (j - L)
          BY <1>4, <1>5, <3>2
        <5>. QED BY <5>1
      <4>2. a \in 1..N
        BY <1>4
      <4>. QED BY <1>3, <1>4, <4>1, <4>2
    <3>. QED BY <3>1, <3>2
  <2>3. ASSUME NEW j \in p + 1 .. L + N
        PROVE  ~outgoing'[j].tried /\ HasPos(f, stream, outgoing'[j].cmd, top + (j - p))
    <3>1. PICK a \in m + 1 .. N : j = L + a
      <4>1. j - L \in m + 1 .. N /\ j = L + (j - L)
        BY <1>4, <1>5
      <4>. QED BY <4>1
    <3>2. a \in 1..N /\ j - p = a - m
      BY <1>4, <1>5, <3>1
    <3>. QED BY <1>3, <1>4, <3>1, <3>2
  <2>4. \A j \in 1..Len(sent') : Aired(f, stream, top, sent'[j])
    BY <1>4
  <2>. QED BY <1>3, <1>4, <2>1, <2>2, <2>3, <2>4 DEF Line
<1>7. ASSUME NEW c, Outstanding(c) PROVE Outstanding(c)'
  <2>1. ASSUME NEW i \in 1..Len(sent), c = sent[i] PROVE Outstanding(c)'
    <3>1. CASE \E j \in 1..Len(sent') : sent'[j] = sent[i]
      BY <2>1, <3>1 DEF Outstanding
    <3>2. ASSUME NEW j \in 1..Len(front), front[j].cmd = sent[i] PROVE Outstanding(c)'
      <4>1. j \in 1..Len(outgoing') /\ outgoing'[j] = front[j]
        <5>1. j \in 1..L /\ j \in 1..L + N
          BY <1>2
        <5>. QED BY <1>3, <5>1
      <4>2. outgoing'[j].cmd = c
        BY <2>1, <3>2, <4>1
      <4>. QED BY <4>1, <4>2, Zenon DEF Outstanding
    <3>. QED BY <3>1, <3>2
  <2>2. ASSUME NEW j \in 1..Len(outgoing), c = outgoing[j].cmd PROVE Outstanding(c)'
    <3>1. j \in 1..N /\ L + j \in 1..L + N
      BY <1>1
    <3>2. L + j \in 1..Len(outgoing') /\ outgoing'[L + j] = outgoing[j]
      BY <1>3, <3>1
    <3>3. outgoing'[L + j].cmd = c
      BY <2>2, <3>2
    <3>. QED BY <3>2, <3>3, Zenon DEF Outstanding
  <2>. QED BY <1>7, <2>1, <2>2 DEF Outstanding
<1>8. Kept(f, k)'
  BY <1>7 DEF Held, Kept
<1>9. (Numbered(f) /\ Side /\ Way(f, top))'
  BY DEF Held, Numbered, Side, Way
<1>10. (Receiver(f, stream, submitted, k, in) /\ Told(f, top, k) /\ Reached(f, top, k))'
  BY DEF Held, Told, Reached
<1>11. InTurn(stream, submitted, k, delivered \o dispatched)'
  BY DEF Held
<1>12. Held(f, top, p, k)'
  BY <1>6, <1>8, <1>9, <1>10, <1>11 DEF Held, Span
<1>. QED BY <1>12

LEMMA HeldCheckTimeouts ==
    ASSUME NEW n \in Nat, SenderTypes(n), NEW f, NEW top, NEW m, NEW k, Held(f, top, m, k), CheckTimeouts
    PROVE  \E p : Held(f, top, p, k)'
<1>1. UNCHANGED <<submitted, stream, numbers, unreliable, net, acks, in, delivered, dispatched>>
  BY DEF CheckTimeouts, receiver
<1>2. outgoing \in Seq(Out(n)) /\ sent \in Seq(Cmd(n))
  BY DEF SenderTypes
<1>3. CASE outgoing' = Retried(sent) \o outgoing /\ sent' = << >>
  <2>1. /\ Retried(sent) \in Seq(Out(n)) /\ Len(Retried(sent)) = Len(sent)
        /\ \A i \in 1..Len(sent) : Retried(sent)[i].tried = TRUE /\ Retried(sent)[i].cmd = sent[i]
    BY <1>2, RetriedFacts
  <2>2. IsJoin(Out(n), Retried(sent), outgoing, outgoing')
    BY <1>2, <1>3, <2>1, Joined
  <2>3. \A j \in 1..Len(sent') : FALSE
    BY <1>3
  <2>. QED BY <1>1, <2>1, <2>2, <2>3, HeldBack
<1>4. ASSUME NEW i \in DOMAIN sent, outgoing' = <<[tried |-> TRUE, cmd |-> sent[i]]>> \o outgoing,
             sent' = RemoveAt(sent, i)
      PROVE  \E p : Held(f, top, p, k)'
  <2> DEFINE front == <<[tried |-> TRUE, cmd |-> sent[i]]>>
  <2>1. PICK N \in Nat : N = Len(sent) /\ i \in 1..N
    BY <1>2, <1>4, SeqFacts
  <2>2. /\ front \in Seq(Out(n)) /\ Len(front) = 1 /\ front[1].tried /\ front[1].cmd = sent[i]
    <3>1. sent[i] \in Cmd(n)
      BY <1>2, <2>1, SeqFacts
    <3>2. [tried |-> TRUE, cmd |-> sent[i]] \in Out(n)
      BY <3>1 DEF Out
    <3>. QED BY <3>2
  <2>3. IsJoin(Out(n), front, outgoing, outgoing')
    BY <1>2, <1>4, <2>2, Joined
  <2> HIDE DEF front
  <2>4. /\ Len(sent') = N - 1
        /\ \A j \in 1 .. i - 1 : sent'[j] = sent[j]
        /\ \A j \in i .. N - 1 : sent'[j] = sent[j + 1]
    <3>1. IsRemoved(Cmd(n), sent, i, sent')
      BY <1>2, <1>4, <2>1, RemovedAt
    <3>. QED BY <2>1, <3>1 DEF IsRemoved
  <2>5. \A j \in 1..Len(sent') : \E a \in 1..Len(sent) : sent'[j] = sent[a]
    <3>1. TAKE j \in 1..Len(sent')
    <3>2. CASE j < i
      <4>1. j \in 1 .. i - 1 /\ j \in 1..N
        BY <2>1, <3>2
      <4>. QED BY <2>1, <2>4, <4>1
    <3>3. CASE ~(j < i)
      <4>1. j \in i .. N - 1 /\ j + 1 \in 1..N
        BY <2>1, <2>4, <3>3
      <4>. QED BY <2>1, <2>4, <4>1
    <3>. QED BY <3>2, <3>3
  <2>6. \A a \in 1..Len(sent) : \/ \E j \in 1..Len(sent') : sent'[j] = sent[a]
                                \/ \E j \in 1..Len(front) : front[j].cmd = sent[a]
    <3>1. TAKE a \in 1..Len(sent)
    <3>2. CASE a < i
      <4>1. a \in 1 .. i - 1 /\ a \in 1 .. N - 1
        BY <2>1, <3>2
      <4>. QED BY <2>4, <4>1
    <3>3. CASE a = i
      <4>1. 1 \in 1..Len(front)
        BY <2>2
      <4>. QED BY <2>2, <3>3, <4>1
    <3>4. CASE a > i
      <4>1. a - 1 \in i .. N - 1 /\ a - 1 \in 1 .. N - 1 /\ (a - 1) + 1 = a
        BY <2>1, <3>4
      <4>2. sent'[a - 1] = sent[a]
        BY <2>4, <4>1
      <4>. QED BY <2>4, <4>1, <4>2
    <3>. QED BY <2>1, <3>2, <3>3, <3>4
  <2>7. \A j \in 1..Len(front) : front[j].tried /\ \E a \in 1..Len(sent) : front[j].cmd = sent[a]
    BY <2>1, <2>2
  <2>. QED BY <1>1, <2>2, <2>3, <2>5, <2>6, <2>7, HeldBack
<1>. QED BY <1>3, <1>4, Zenon DEF CheckTimeouts, Retried

LEMMA DeliveredReached ==
    ASSUME NEW f, NEW st, Known(f, st), NEW k \in 0..Len(st), NEW r, NEW top \in Nat, Start <= top,
           \A q, i : IsPart(f, st, q, i) /\ Has(st, k, r, q, i) => Pos(f, q, i) <= top
    PROVE  Delivered(f, k) <= top
<1>1. st \in Seq(Nat) /\ Firsts(f, st)
  BY DEF Known
<1>2. Delivered(f, k) = f[k + 1] - 1 /\ Len(st) \in Nat /\ k \in Nat
  BY <1>1 DEF Delivered
<1>3. CASE k = 0
  <2>1. f[1] = Start + 1 /\ Start \in Nat
    BY <1>1, FirstsFacts
  <2>. QED BY <1>2, <1>3, <2>1
<1>4. CASE k # 0
  <2>1. k \in 1..Len(st)
    BY <1>2, <1>4
  <2>2. Parts(f, k) \in {1, 2} /\ f[k + 1] = f[k] + Parts(f, k) /\ f[k] \in Nat
    BY <1>1, <2>1, FirstsFacts
  <2>3. IsPart(f, st, k, Parts(f, k))
    BY <2>1, <2>2 DEF IsPart
  <2>4. Has(st, k, r, k, Parts(f, k))
    BY <1>2 DEF Has
  <2>5. Pos(f, k, Parts(f, k)) <= top
    BY <2>3, <2>4
  <2>6. Pos(f, k, Parts(f, k)) = f[k + 1] - 1
    BY <2>2 DEF Pos
  <2>. QED BY <1>2, <2>5, <2>6
<1>. QED BY <1>3, <1>4

\* What was sent lately is near the last position that was delivered.
LEMMA NearAired ==
    ASSUME NEW f, NEW st, Known(f, st), NEW k \in 0..Len(st), NEW top \in Nat,
           Delivered(f, k) <= top, Span(f, top, k),
           NEW q, NEW i, IsPart(f, st, q, i), Recent(top, Pos(f, q, i))
    PROVE  Near(f, k, Pos(f, q, i)) /\ Near(f, k, f[q])
<1>1. st \in Seq(Nat) /\ Firsts(f, st)
  BY DEF Known
<1>2. PICK x \in Nat : x = Pos(f, q, i) /\ x <= top /\ WindowOf(top) <= WindowOf(x) + FreeWindows
  BY <1>1, PosFacts DEF Recent
<1>3. PICK y \in Nat : y = f[q] /\ y <= x /\ x <= y + 1
  <2>1. f[q] <= x /\ x <= f[q] + 1 /\ q \in 1..Len(st)
    BY <1>1, <1>2, PosFacts
  <2>2. f[q] \in Nat
    BY <2>1, DeliveredFacts
  <2>. QED BY <2>1, <2>2
<1>4. PICK d \in Nat : d = Delivered(f, k) /\ d <= top
  BY DeliveredFacts
<1>5. /\ WindowOf(x) \in Nat /\ WindowOf(y) \in Nat /\ WindowOf(d) \in Nat /\ WindowOf(top) \in Nat
  BY WinBounds, Zenon
<1>6. WindowOf(x) <= WindowOf(top) /\ WindowOf(y) <= WindowOf(x) /\ WindowOf(d) <= WindowOf(top)
  BY <1>2, <1>3, <1>4, WinMono, Zenon
<1>7. WindowOf(x) \in {WindowOf(y), WindowOf(y) + 1}
  <2>1. x = y \/ x = y + 1
    BY <1>3
  <2>2. WindowOf(y + 1) \in {WindowOf(y), WindowOf(y) + 1}
    BY WinStep, Zenon
  <2>. QED BY <2>1, <2>2
<1>8. PICK wx \in Nat, wy \in Nat, wd \in Nat, wt \in Nat :
          wx = WindowOf(x) /\ wy = WindowOf(y) /\ wd = WindowOf(d) /\ wt = WindowOf(top)
  BY <1>5
<1>9. FreeWindows \in Nat /\ wt <= wd + FreeWindows /\ wt <= wx + FreeWindows
  BY <1>2, <1>4, <1>8, Consts DEF Span
<1>10. wx <= wt /\ wy <= wx /\ wd <= wt /\ wx <= wy + 1
  BY <1>6, <1>7, <1>8, SMTT(30)
<1>11. wx <= wd + FreeWindows /\ wd <= wx + FreeWindows + 1
  BY <1>9, <1>10
<1>12. wy <= wd + FreeWindows /\ wd <= wy + FreeWindows + 1
  BY <1>9, <1>10
<1>13. Near(f, k, x)
  BY <1>4, <1>8, <1>11 DEF Near
<1>14. Near(f, k, y)
  BY <1>4, <1>8, <1>12 DEF Near
<1>. QED BY <1>2, <1>3, <1>13, <1>14

\* The receiver handles a command: what it has grows, in turn.
LEMMA HeldServed ==
    ASSUME NEW n \in Nat, ReceiverTypes(n), NEW f, NEW top, NEW m, NEW k, Held(f, top, m, k),
           UNCHANGED <<submitted, stream, numbers, outgoing, sent, unreliable, delivered>>,
           net' \subseteq net, NEW h \in Res(n), in' = h.r, dispatched' = dispatched \o h.out,
           NEW j \in k..Len(stream), Serves(f, stream, submitted, k, j, h),
           NEW q, NEW i, NEW old, old = in,
           \/ SameParts(f, stream, k, old, j, h.r)
           \/ /\ MoreParts(f, stream, k, old, j, h.r, q, i)
              /\ IsPart(f, stream, q, i) /\ Recent(top, Pos(f, q, i)),
           \/ acks' = acks
           \/ /\ acks' = acks \cup {NumOf(Pos(f, q, i))}
              /\ IsPart(f, stream, q, i) /\ Recent(top, Pos(f, q, i))
              /\ Has(stream, j, h.r, q, i)
    PROVE  Held(f, top, m, j)'
<1>1. Known(f, stream) /\ k \in 0..Len(stream) /\ j \in 0..Len(stream) /\ k <= j
  <2>1. Known(f, stream) /\ k \in 0..Len(stream) /\ Len(stream) \in Nat
    BY DeliveredFacts DEF Held, Receiver, Queue
  <2>. QED BY <2>1
<1>2. \A p, a : IsPart(f, stream, p, a) /\ Has(stream, k, old, p, a) => Has(stream, j, h.r, p, a)
  BY Zenon DEF SameParts, MoreParts
<1>3. \A p, a : IsPart(f, stream, p, a) /\ Has(stream, j, h.r, p, a) =>
          Has(stream, k, old, p, a) \/ Recent(top, Pos(f, p, a))
  BY Zenon DEF SameParts, MoreParts
<1>4. Reached(f, top, j)'
  <2>1. ASSUME NEW p, NEW a, IsPart(f, stream, p, a), Has(stream, j, h.r, p, a)
        PROVE  Pos(f, p, a) <= top
    BY <1>3, <2>1 DEF Held, Reached, Recent
  <2>. QED BY <2>1 DEF Reached
<1>5. Kept(f, j)'
  <2>1. \A c : Outstanding(c)' <=> Outstanding(c)
    BY DEF Outstanding
  <2>2. \A p, a : IsPart(f, stream, p, a) =>
            Outstanding(CommandOf(f, stream, p, a)) \/ Has(stream, j, h.r, p, a)
    BY <1>2 DEF Held, Kept
  <2>3. stream' = stream
    OBVIOUS
  <2>4. ASSUME NEW p, NEW a, IsPart(f, stream, p, a)
        PROVE  Outstanding(CommandOf(f, stream, p, a))' \/ Has(stream, j, h.r, p, a)
    <3>1. PICK c : c = CommandOf(f, stream, p, a)
      OBVIOUS
    <3>2. Outstanding(c) => Outstanding(c)'
      BY <2>1
    <3>. QED BY <2>2, <2>3, <2>4, <3>1, <3>2
  <2>. QED BY <2>3, <2>4 DEF Kept
<1>6. Told(f, top, j)'
  <2>1. \A x \in acks : \E p, a :
            /\ IsPart(f, stream, p, a) /\ x = NumOf(Pos(f, p, a))
            /\ Recent(top, Pos(f, p, a)) /\ Has(stream, j, h.r, p, a)
    BY <1>2 DEF Held, Told
  <2>2. \A x \in acks' : \E p, a :
            /\ IsPart(f, stream, p, a) /\ x = NumOf(Pos(f, p, a))
            /\ Recent(top, Pos(f, p, a)) /\ Has(stream, j, h.r, p, a)
    BY <2>1
  <2>. QED BY <2>2 DEF Told
<1>7. Span(f, top, j)
  <2>1. PICK d \in Nat, e \in Nat : d = Delivered(f, k) /\ e = Delivered(f, j)
    BY <1>1, DeliveredFacts
  <2>2. d <= e
    BY <1>1, <2>1, DeliveredMono
  <2>3. WindowOf(d) <= WindowOf(e) /\ WindowOf(d) \in Nat /\ WindowOf(e) \in Nat
    BY <2>2, WinMono, WinBounds, Zenon
  <2>4. WindowOf(top) <= WindowOf(d) + FreeWindows
    BY <2>1 DEF Held, Span
  <2>5. WindowOf(top) \in Nat /\ FreeWindows \in Nat
    <3>1. top \in Nat
      BY DEF Held, Line
    <3>. QED BY <3>1, WinBounds, Consts, Zenon
  <2>6. PICK wd \in Nat, we \in Nat, wt \in Nat : wd = WindowOf(d) /\ we = WindowOf(e) /\ wt = WindowOf(top)
    BY <2>3, <2>5
  <2>7. wt <= we + FreeWindows
    BY <2>3, <2>4, <2>5, <2>6
  <2>. QED BY <2>1, <2>6, <2>7 DEF Span
<1>8. Receiver(f, stream, submitted, j, in)'
  BY DEF Serves
<1>9. InTurn(stream, submitted, j, delivered \o dispatched)'
  <2>1. /\ delivered \in Seq(1..n) /\ dispatched \in Seq(1..n) /\ h.out \in Seq(1..n)
    BY DEF ReceiverTypes, Res
  <2>2. delivered' \o dispatched' = (delivered \o dispatched) \o h.out
    <3>1. PICK u \in Seq(1..n), v \in Seq(1..n), w \in Seq(1..n) :
              u = delivered /\ v = dispatched /\ w = h.out
      BY <2>1
    <3>2. (u \o v) \o w = u \o (v \o w)
      BY ConcatAssociative, SMTT(30)
    <3>3. delivered' \o dispatched' = u \o (v \o w)
      BY <3>1
    <3>. QED BY <3>1, <3>2, <3>3
  <2>3. IsJoin(1..n, delivered \o dispatched, h.out, delivered' \o dispatched')
        /\ delivered \o dispatched \in Seq(1..n)
    <3>1. delivered \o dispatched \in Seq(1..n)
      BY <2>1
    <3>. QED BY <2>1, <2>2, <3>1, Joined
  <2>4. InTurn(stream, submitted, k, delivered \o dispatched)
    BY DEF Held
  <2>5. /\ j - k <= Len(h.out)
        /\ \A a \in 1..j - k : h.out[a] = stream[k + a]
        /\ \A a \in j - k + 1 .. Len(h.out) : Loose(stream, submitted, h.out[a])
    BY DEF Serves
  <2>6. InTurn(stream, submitted, j, delivered' \o dispatched')
    BY <1>1, <2>1, <2>3, <2>4, <2>5, TurnMore, Zenon
  <2>. QED BY <2>6
<1>10. (Numbered(f) /\ Line(f, top, m) /\ Side)'
  BY DEF Held, Numbered, Line, Side
<1>11. Way(f, top)'
  <2>1. \A c \in net : IF OfTheStream(c) THEN Aired(f, stream, top, c)
                                        ELSE Loose(stream, submitted, c.pkt)
    BY Zenon DEF Held, Way
  <2>2. \A c \in net' : IF OfTheStream(c) THEN Aired(f, stream, top, c)
                                         ELSE Loose(stream, submitted, c.pkt)
    BY <2>1, Zenon
  <2>3. stream' = stream /\ submitted' = submitted
    OBVIOUS
  <2>. QED BY <2>2, <2>3, Zenon DEF Way, Aired, Loose, HasPos
<1>. QED BY <1>4, <1>5, <1>6, <1>7, <1>8, <1>9, <1>10, <1>11 DEF Held, Span

LEMMA HeldHandleCommand ==
    ASSUME NEW n \in Nat, NetTypes(n), ReceiverTypes(n), NEW f, NEW top, NEW m, NEW k,
           Held(f, top, m, k), NEW c \in net, HandleCommand(c)
    PROVE  \E j : Held(f, top, m, j)'
<1>1. in \in Chan(n) /\ c \in Cmd(n) /\ dispatched \in Seq(1..n) /\ Waiting(in) <= MaxWaiting
  BY DEF NetTypes, ReceiverTypes
<1>2. PICK h : h = Handle(in, c)
  OBVIOUS
<1>3. h \in Res(n)
  <2>1. Fits(n, Handle(in, c))
    BY <1>1, HandleFits, Zenon
  <2>. QED BY <1>2, <2>1, Zenon DEF Fits
<1>4. /\ UNCHANGED <<submitted, stream, numbers, outgoing, sent, unreliable, delivered>>
      /\ net' \subseteq net /\ in' = h.r /\ dispatched' = dispatched \o h.out
  BY <1>2 DEF HandleCommand, sender
<1>5. \/ acks' = acks
      \/ OfTheStream(c) /\ h.ok /\ Acknowledged(h.r, c.rseq) /\ acks' = acks \cup {c.rseq}
  BY <1>2 DEF HandleCommand, OfTheStream
<1>6. PICK old : old = in
  OBVIOUS
<1>7. Receiver(f, stream, submitted, k, in) /\ Known(f, stream) /\ Queue(f, stream, k, in)
  BY DEF Held, Receiver
<1>8. k \in 0..Len(stream) /\ Len(stream) \in Nat
  BY <1>7 DEF Queue, Known
<1>9. IF OfTheStream(c) THEN Aired(f, stream, top, c) ELSE Loose(stream, submitted, c.pkt)
  <2>1. Way(f, top)
    BY DEF Held
  <2>. QED BY <2>1 DEF Way
<1>10. CASE OfTheStream(c)
  <2>1. PICK x \in Nat : HasPos(f, stream, c, x) /\ Recent(top, x)
    BY <1>9, <1>10 DEF Aired
  <2>2. PICK q, i : IsPart(f, stream, q, i) /\ c = CommandOf(f, stream, q, i) /\ x = Pos(f, q, i)
    BY <2>1 DEF HasPos
  <2>3. Recent(top, Pos(f, q, i))
    BY <2>1, <2>2
  <2>4. Delivered(f, k) <= top /\ Span(f, top, k) /\ top \in Nat
    <3>1. /\ top \in Nat /\ Start <= top /\ Span(f, top, k)
          /\ \A p, a : IsPart(f, stream, p, a) /\ Has(stream, k, in, p, a) => Pos(f, p, a) <= top
      BY DEF Held, Line, Reached
    <3>. QED BY <3>1, <1>7, <1>8, DeliveredReached
  <2>5. Near(f, k, Pos(f, q, i)) /\ Near(f, k, f[q])
    BY <1>7, <1>8, <2>2, <2>3, <2>4, NearAired, Zenon
  <2>6. /\ c.rseq = NumOf(Pos(f, q, i)) /\ Parts(f, q) \in {1, 2} /\ i \in {1, 2} /\ i <= Parts(f, q)
        /\ c.kind = IF Parts(f, q) = 1 THEN "RELIABLE" ELSE "FRAGMENT"
    BY <1>7, <2>2, CommandFields, FirstsFacts DEF Known, IsPart
  <2>7. Answers(f, stream, submitted, k, in, c, q, i, h)
    <3>1. CASE Parts(f, q) = 1
      <4>1. i = 1 /\ c.kind = "RELIABLE"
        BY <2>6, <3>1
      <4>2. h = HandleSendReliable(in, c)
        BY <1>2, <4>1 DEF Handle
      <4>3. IsPart(f, stream, q, 1) /\ c = CommandOf(f, stream, q, 1)
        BY <2>2, <4>1
      <4>4. Answers(f, stream, submitted, k, in, c, q, 1, HandleSendReliable(in, c))
        BY <1>1, <1>7, <2>5, <3>1, <4>3, ReliableServes, Zenon
      <4>. QED BY <4>1, <4>2, <4>4
    <3>2. CASE Parts(f, q) = 2
      <4>1. c.kind = "FRAGMENT"
        BY <2>6, <3>2
      <4>2. h = HandleSendFragment(in, c)
        BY <1>2, <4>1 DEF Handle
      <4>3. Answers(f, stream, submitted, k, in, c, q, i, HandleSendFragment(in, c))
        BY <1>1, <1>7, <2>2, <2>5, <3>2, FragmentServes, Zenon
      <4>. QED BY <4>2, <4>3
    <3>. QED BY <2>6, <3>1, <3>2
  <2>8. PICK j \in k..Len(stream) :
            /\ Serves(f, stream, submitted, k, j, h)
            /\ SameParts(f, stream, k, in, j, h.r) \/ MoreParts(f, stream, k, in, j, h.r, q, i)
            /\ h.ok /\ Acknowledged(h.r, c.rseq) => Has(stream, j, h.r, q, i)
    BY <2>7, Zenon DEF Answers
  <2>9. SameParts(f, stream, k, old, j, h.r) \/ MoreParts(f, stream, k, old, j, h.r, q, i)
    BY <1>6, <2>8
  <2>10. \/ acks' = acks
         \/ acks' = acks \cup {NumOf(Pos(f, q, i))} /\ Has(stream, j, h.r, q, i)
    BY <1>5, <2>6, <2>8
  <2>11. Held(f, top, m, j)'
    BY <1>3, <1>4, <1>6, <2>2, <2>3, <2>8, <2>9, <2>10, HeldServed, Zenon
  <2>. QED BY <2>11
<1>11. CASE ~OfTheStream(c)
  <2>1. Loose(stream, submitted, c.pkt)
    BY <1>9, <1>11
  <2>2. LooseOnly(stream, submitted, in.unreliable)
    BY <1>7 DEF Receiver
  <2>3. c.kind \in {"UNRELIABLE", "UNSEQUENCED"}
    BY <1>1, <1>11 DEF OfTheStream, Cmd, Kinds
  <2>4. Beside(stream, submitted, in, h)
    <3>1. CASE c.kind = "UNRELIABLE"
      <4>1. h = HandleSendUnreliable(in, c)
        BY <1>2, <3>1 DEF Handle
      <4>2. Beside(stream, submitted, in, HandleSendUnreliable(in, c))
        BY <1>1, <2>1, <2>2, UnreliableServes, Zenon
      <4>. QED BY <4>1, <4>2
    <3>2. CASE c.kind = "UNSEQUENCED"
      <4>1. h = HandleSendUnsequenced(in, c)
        BY <1>2, <3>2 DEF Handle
      <4>2. Beside(stream, submitted, in, HandleSendUnsequenced(in, c))
        BY <1>1, <2>1, <2>2, UnsequencedServes, Zenon
      <4>. QED BY <4>1, <4>2
    <3>. QED BY <2>3, <3>1, <3>2
  <2>5. Serves(f, stream, submitted, k, k, h) /\ SameParts(f, stream, k, in, k, h.r)
    BY <1>7, <2>4, BesideServes, Zenon
  <2>6. SameParts(f, stream, k, old, k, h.r)
    BY <1>6, <2>5
  <2>7. k \in k..Len(stream)
    BY <1>8
  <2>8. acks' = acks
    BY <1>5, <1>11
  <2>9. Held(f, top, m, k)'
    BY <1>3, <1>4, <1>6, <2>5, <2>6, <2>7, <2>8, HeldServed, Zenon
  <2>. QED BY <2>9
<1>. QED BY <1>10, <1>11

\* Among the commands that were sent lately a number names one.
LEMMA SameAired ==
    ASSUME NEW f, NEW st, Known(f, st), NEW top \in Nat, NEW q, NEW i, IsPart(f, st, q, i),
           Recent(top, Pos(f, q, i)), NEW c, Aired(f, st, top, c), c.rseq = NumOf(Pos(f, q, i))
    PROVE  c = CommandOf(f, st, q, i)
<1>1. PICK y \in Nat : HasPos(f, st, c, y) /\ Recent(top, y)
  BY DEF Aired
<1>2. PICK r, a : IsPart(f, st, r, a) /\ c = CommandOf(f, st, r, a) /\ y = Pos(f, r, a)
  BY <1>1 DEF HasPos
<1>3. PICK x \in Nat : x = Pos(f, q, i)
  BY PosFacts DEF Known
<1>4. NumOf(x) = NumOf(y)
  BY <1>2, <1>3, CommandFields
<1>5. /\ WindowOf(x) <= WindowOf(top) /\ WindowOf(y) <= WindowOf(top)
      /\ WindowOf(top) <= WindowOf(x) + FreeWindows /\ WindowOf(top) <= WindowOf(y) + FreeWindows
  BY <1>1, <1>3, WinMono, Zenon DEF Recent
<1>6. PICK wx \in Nat, wy \in Nat, wt \in Nat :
          wx = WindowOf(x) /\ wy = WindowOf(y) /\ wt = WindowOf(top)
  BY WinBounds
<1>7. wx - wy < Windows /\ wy - wx < Windows
  BY <1>5, <1>6, Consts
<1>8. y - x < Numbers /\ x - y < Numbers
  BY <1>6, <1>7, WinNear
<1>9. x = y
  BY <1>4, <1>8, NumsDiffer
<1>. QED BY <1>2, <1>3, <1>9, PosUnique, Zenon DEF Known

\* What the receiver has is forgotten.
LEMMA HeldForget ==
    ASSUME NEW f, NEW top, NEW m, NEW k, Held(f, top, m, k),
           UNCHANGED <<submitted, stream, numbers, unreliable, net, in, delivered, dispatched>>,
           acks' \subseteq acks, NEW p, Line(f, top, p)', NEW q, NEW i,
           IsPart(f, stream, q, i) /\ Has(stream, k, in, q, i),
           \A c : Outstanding(c) => Outstanding(c)' \/ c = CommandOf(f, stream, q, i)
    PROVE  Held(f, top, p, k)'
<1>1. Known(f, stream)
  BY DEF Held, Receiver
<1>2. Kept(f, k)'
  <2>1. ASSUME NEW r, NEW a, IsPart(f, stream, r, a)
        PROVE  Outstanding(CommandOf(f, stream, r, a))' \/ Has(stream, k, in, r, a)
    <3>1. PICK c : c = CommandOf(f, stream, r, a)
      OBVIOUS
    <3>2. Outstanding(c) \/ Has(stream, k, in, r, a)
      BY <2>1, <3>1 DEF Held, Kept
    <3>3. c = CommandOf(f, stream, q, i) => r = q /\ a = i
      <4>1. c.pkt = stream[r] /\ c.num = a
        BY <3>1, CommandFields
      <4>2. c = CommandOf(f, stream, q, i) => c.pkt = stream[q] /\ c.num = i
        BY CommandFields
      <4>3. r \in 1..Len(stream) /\ q \in 1..Len(stream)
        BY <2>1 DEF IsPart
      <4>. QED BY <1>1, <4>1, <4>2, <4>3, Ascending
    <3>4. stream' = stream
      OBVIOUS
    <3>. QED BY <3>1, <3>2, <3>3, <3>4
  <2>. QED BY <2>1 DEF Kept
<1>3. (Told(f, top, k) /\ Reached(f, top, k))'
  BY DEF Held, Told, Reached
<1>4. (Numbered(f) /\ Side)'
  BY DEF Held, Numbered, Side
<1>5. Way(f, top)'
  <2>1. Way(f, top)
    BY DEF Held
  <2>2. \A c \in net : IF OfTheStream(c) THEN Aired(f, stream, top, c)
                                        ELSE Loose(stream, submitted, c.pkt)
    BY <2>1, Zenon DEF Way
  <2>. QED BY <2>2, Zenon DEF Way, Aired, Loose, HasPos
<1>6. (Span(f, top, k) /\ Receiver(f, stream, submitted, k, in))'
  BY DEF Held, Span
<1>7. InTurn(stream, submitted, k, delivered \o dispatched)'
  BY DEF Held
<1>. QED BY <1>2, <1>3, <1>4, <1>5, <1>6, <1>7 DEF Held

LEMMA HeldHandleAcknowledge ==
    ASSUME NEW n \in Nat, SenderTypes(n), NEW f, NEW top, NEW m, NEW k,
           Held(f, top, m, k), NEW x \in acks, HandleAcknowledge(x)
    PROVE  \E p : Held(f, top, p, k)'
<1>1. outgoing \in Seq(Out(n)) /\ sent \in Seq(Cmd(n)) /\ Len(outgoing) \in Nat /\ Len(sent) \in Nat
  BY DEF SenderTypes
<1>2. Known(f, stream) /\ Line(f, top, m) /\ top \in Nat /\ m \in 0..Len(outgoing)
  BY DEF Held, Receiver, Line
<1>3. PICK q, i : /\ IsPart(f, stream, q, i) /\ x = NumOf(Pos(f, q, i))
                  /\ Recent(top, Pos(f, q, i)) /\ Has(stream, k, in, q, i)
  BY DEF Held, Told
<1>4. /\ acks' = acks \ {x}
      /\ UNCHANGED <<script, submitted, stream, numbers, unreliable, net, in, dispatched, delivered>>
      /\ \/ \E j \in 1..Len(sent) : AckSent(x, j)
         \/ \E j \in 1..TriedCount : AckTried(x, j)
         \/ UNCHANGED <<sent, outgoing, inTransit, windows, used>>
  BY <1>1, AckFacts
<1>5. ASSUME NEW p, Line(f, top, p)',
             \A c : Outstanding(c) => Outstanding(c)' \/ c = CommandOf(f, stream, q, i)
      PROVE  Held(f, top, p, k)'
  <2>1. /\ UNCHANGED <<submitted, stream, numbers, unreliable, net, in, delivered, dispatched>>
        /\ acks' \subseteq acks
    BY <1>4
  <2>. QED BY <1>3, <1>5, <2>1, HeldForget, Zenon
<1>6. ASSUME NEW j \in 1..Len(sent), AckSent(x, j)
      PROVE  Held(f, top, m, k)'
  <2>1. IsRemoved(Cmd(n), sent, j, sent') /\ outgoing' = outgoing
    BY <1>1, <1>6, RemovedAt DEF AckSent
  <2>2. \A a \in 1..Len(sent') : \E b \in 1..Len(sent) : sent'[a] = sent[b]
    <3>1. TAKE a \in 1..Len(sent')
    <3>2. a \in 1 .. Len(sent) - 1
      BY <1>1, <2>1 DEF IsRemoved
    <3>3. CASE a < j
      <4>1. a \in 1 .. j - 1 /\ a \in 1..Len(sent)
        BY <1>1, <3>2, <3>3
      <4>. QED BY <2>1, <4>1 DEF IsRemoved
    <3>4. CASE a >= j
      <4>1. a \in j .. Len(sent) - 1 /\ a + 1 \in 1..Len(sent)
        BY <1>1, <3>2, <3>4
      <4>. QED BY <2>1, <4>1 DEF IsRemoved
    <3>. QED BY <3>2, <3>3, <3>4
  <2>3. Line(f, top, m)'
    BY <1>2, <1>4, <2>1, <2>2 DEF Line
  <2>4. sent[j] = CommandOf(f, stream, q, i)
    <3>1. Aired(f, stream, top, sent[j]) /\ sent[j].rseq = x
      BY <1>2, <1>6 DEF Line, AckSent
    <3>. QED BY <1>2, <1>3, <3>1, SameAired
  <2>5. ASSUME NEW c, Outstanding(c)
        PROVE  Outstanding(c)' \/ c = CommandOf(f, stream, q, i)
    <3>1. \A a \in 1..Len(sent) : a = j \/ \E b \in 1..Len(sent') : sent'[b] = sent[a]
      <4>1. TAKE a \in 1..Len(sent)
      <4>2. CASE a < j
        BY <1>1, <2>1, <4>2 DEF IsRemoved
      <4>3. CASE a > j
        <5>1. a - 1 \in j .. Len(sent) - 1 /\ a - 1 \in 1..Len(sent')
          BY <1>1, <2>1, <4>3 DEF IsRemoved
        <5>2. sent'[a - 1] = sent[(a - 1) + 1] /\ (a - 1) + 1 = a
          BY <2>1, <5>1 DEF IsRemoved
        <5>. QED BY <5>1, <5>2
      <4>. QED BY <4>2, <4>3
    <3>. QED BY <2>1, <2>4, <2>5, <3>1 DEF Outstanding
  <2>. QED BY <1>5, <2>3, <2>5
<1>7. ASSUME NEW j \in 1..TriedCount, AckTried(x, j)
      PROVE  Held(f, top, m - 1, k)'
  <2>1. TriedCount \in 0..Len(outgoing) /\ outgoing[j].tried
    BY <1>1, TriedFacts
  <2>2. j \in 1..Len(outgoing)
    BY <1>1, <2>1
  <2>3. j \in 1..m
    <3>1. ~(j \in m + 1 .. Len(outgoing))
      BY <1>2, <2>1 DEF Line
    <3>. QED BY <1>1, <1>2, <2>2, <3>1
  <2>4. IsRemoved(Out(n), outgoing, j, outgoing') /\ sent' = sent
    BY <1>1, <1>7, <2>2, RemovedAt DEF AckTried
  <2>5. Len(outgoing') = Len(outgoing) - 1 /\ m - 1 \in 0..Len(outgoing')
    BY <1>1, <1>2, <2>3, <2>4 DEF IsRemoved
  <2>6. \A a \in 1 .. m - 1 : \E b \in 1..m : outgoing'[a] = outgoing[b]
    <3>1. TAKE a \in 1 .. m - 1
    <3>2. CASE a < j
      BY <1>1, <1>2, <2>3, <2>4, <3>2 DEF IsRemoved
    <3>3. CASE a >= j
      <4>1. a \in j .. Len(outgoing) - 1 /\ a + 1 \in 1..m
        BY <1>1, <1>2, <2>3, <3>3
      <4>. QED BY <2>4, <4>1 DEF IsRemoved
    <3>. QED BY <1>2, <2>3, <3>2, <3>3
  <2>7. \A a \in (m - 1) + 1 .. Len(outgoing') :
            ~outgoing'[a].tried /\ HasPos(f, stream, outgoing'[a].cmd, top + (a - (m - 1)))
    <3>1. TAKE a \in (m - 1) + 1 .. Len(outgoing')
    <3>2. a \in j .. Len(outgoing) - 1 /\ a + 1 \in m + 1 .. Len(outgoing)
      BY <1>1, <1>2, <2>3, <2>5
    <3>3. outgoing'[a] = outgoing[a + 1]
      BY <2>4, <3>2 DEF IsRemoved
    <3>4. ~outgoing[a + 1].tried /\ HasPos(f, stream, outgoing[a + 1].cmd, top + ((a + 1) - m))
      BY <1>2, <3>2 DEF Line
    <3>5. (a + 1) - m = a - (m - 1)
      BY <1>1, <1>2, <3>2
    <3>. QED BY <3>3, <3>4, <3>5
  <2>8. Line(f, top, m - 1)'
    <3>1. top + (Len(outgoing') - (m - 1)) = Newest(f, stream)
      <4>1. top + (Len(outgoing) - m) = Newest(f, stream)
        BY <1>2 DEF Line
      <4>. QED BY <1>1, <1>2, <2>5, <4>1
    <3>2. \A a \in 1 .. m - 1 : outgoing'[a].tried /\ Aired(f, stream, top, outgoing'[a].cmd)
      BY <1>2, <2>6 DEF Line
    <3>3. Start <= top /\ \A a \in 1..Len(sent') : Aired(f, stream, top, sent'[a])
      BY <1>2, <2>4 DEF Line
    <3>. QED BY <1>2, <1>4, <2>5, <2>7, <3>1, <3>2, <3>3 DEF Line
  <2>9. outgoing[j].cmd = CommandOf(f, stream, q, i)
    <3>1. Aired(f, stream, top, outgoing[j].cmd) /\ outgoing[j].cmd.rseq = x
      BY <1>2, <1>7, <2>3 DEF Line, AckTried
    <3>. QED BY <1>2, <1>3, <3>1, SameAired
  <2>10. ASSUME NEW c, Outstanding(c)
         PROVE  Outstanding(c)' \/ c = CommandOf(f, stream, q, i)
    <3>1. \A a \in 1..Len(outgoing) : a = j \/ \E b \in 1..Len(outgoing') : outgoing'[b] = outgoing[a]
      <4>1. TAKE a \in 1..Len(outgoing)
      <4>2. CASE a < j
        BY <1>1, <2>2, <2>4, <2>5, <4>2 DEF IsRemoved
      <4>3. CASE a > j
        <5>1. a - 1 \in j .. Len(outgoing) - 1 /\ a - 1 \in 1..Len(outgoing')
          BY <1>1, <2>2, <2>5, <4>3
        <5>2. outgoing'[a - 1] = outgoing[(a - 1) + 1] /\ (a - 1) + 1 = a
          BY <2>4, <5>1 DEF IsRemoved
        <5>. QED BY <5>1, <5>2
      <4>. QED BY <2>2, <4>2, <4>3
    <3>. QED BY <2>4, <2>9, <2>10, <3>1 DEF Outstanding
  <2>. QED BY <1>5, <2>8, <2>10
<1>8. CASE UNCHANGED <<sent, outgoing, inTransit, windows, used>>
  <2>1. Line(f, top, m)'
    BY <1>2, <1>4, <1>8 DEF Line
  <2>2. \A c : Outstanding(c) => Outstanding(c)'
    BY <1>8 DEF Outstanding
  <2>. QED BY <1>5, <2>1, <2>2
<1>. QED BY <1>4, <1>6, <1>7, <1>8

\* A command that was sent keeps its window in use, and so the window that
\* would overtake it is not begun.
LEMMA RecentSent ==
    ASSUME NEW top \in Nat, WindowOf(top + 1) = WindowOf(top) + 1, NEW x \in Nat, Recent(top, x),
           \A i \in 0..FreeWindows - 1 : (WindowOf(NumOf(top + 1)) + i) % Windows \notin used,
           WindowOf(NumOf(x)) \in used
    PROVE  Recent(top + 1, x)
<1>1. PICK w \in Nat, v \in Nat : w = WindowOf(top + 1) /\ v = WindowOf(x)
  BY WinBounds
<1>2. x <= top /\ w - 1 <= v + FreeWindows /\ w > 0 /\ FreeWindows \in Nat
  <2>1. WindowOf(top) \in Nat /\ WindowOf(top) = w - 1
    BY <1>1, WinBounds
  <2>. QED BY <1>1, <2>1, Consts DEF Recent
<1>3. WindowOf(NumOf(top + 1)) = w % Windows /\ WindowOf(NumOf(x)) = v % Windows
  BY <1>1, WindowTurns
<1>4. w > FreeWindows => v # w - 1 - FreeWindows
  <2>1. SUFFICES ASSUME w > FreeWindows, v = w - 1 - FreeWindows PROVE FALSE
    OBVIOUS
  <2>2. ((w % Windows) + (FreeWindows - 1)) % Windows = v % Windows
    BY <1>2, <2>1, WindowsAround
  <2>3. FreeWindows - 1 \in 0..FreeWindows - 1
    BY Consts
  <2>. QED BY <1>3, <2>2, <2>3
<1>5. w <= v + FreeWindows
  BY <1>2, <1>4
<1>. QED BY <1>1, <1>2, <1>5 DEF Recent

\* Nor is what is on the way overtaken, when it does not outlive half the
\* numbers.
LEMMA RecentAway ==
    ASSUME NEW top \in Nat, WindowOf(top + 1) = WindowOf(top) + 1, NEW x \in Nat, Recent(top, x),
           (NumOf(top + 1) - NumOf(x)) % Numbers <= (Windows - FreeWindows) * WindowSize
    PROVE  Recent(top + 1, x)
<1>1. PICK w \in Nat, v \in Nat : w = WindowOf(top + 1) /\ v = WindowOf(x)
  BY WinBounds
<1>2. /\ x <= top /\ w - 1 <= v + FreeWindows /\ w > 0
      /\ FreeWindows \in Nat /\ Windows = 2 * FreeWindows /\ FreeWindows >= 3
      /\ WindowSize \in Nat \ {0}
  <2>1. WindowOf(top) \in Nat /\ WindowOf(top) = w - 1
    BY <1>1, WinBounds
  <2>. QED BY <1>1, <2>1, Consts DEF Recent
<1>3. top + 1 - x < Numbers
  <2>1. WindowOf(top + 1) - WindowOf(x) < Windows
    BY <1>1, <1>2
  <2>2. top + 1 \in Nat
    OBVIOUS
  <2>. QED BY <2>1, <2>2, WinNear
<1>4. (NumOf(top + 1) - NumOf(x)) % Numbers = top + 1 - x
  <2>1. top + 1 \in Nat /\ x <= top + 1
    BY <1>2
  <2>. QED BY <1>3, <2>1, NumDistance
<1>5. top + 1 = WindowSize * w
  <2>1. top + 1 \in Nat /\ (top + 1) % WindowSize = 0
    BY WinStep
  <2>. QED BY <1>1, <2>1, FirstOfWindow
<1>6. x < WindowSize * v + WindowSize
  BY <1>1, WinBounds
<1>7. (Windows - FreeWindows) * WindowSize = WindowSize * FreeWindows
  <2>1. Windows - FreeWindows = FreeWindows
    BY <1>2
  <2>. QED BY <1>2, <2>1
<1>8. v + 1 # w - FreeWindows
  <2>1. SUFFICES ASSUME v + 1 = w - FreeWindows PROVE FALSE
    OBVIOUS
  <2>2. WindowSize * (v + 1) = WindowSize * v + WindowSize
    BY <1>2
  <2>3. WindowSize * (w - FreeWindows) = WindowSize * w - WindowSize * FreeWindows
    BY <1>2
  <2>4. PICK a \in Int, b \in Int, c \in Int :
            a = WindowSize * v /\ b = WindowSize * w /\ c = WindowSize * FreeWindows
    BY <1>2
  <2>5. a + WindowSize = b - c
    BY <2>1, <2>2, <2>3, <2>4, Zenon
  <2>6. x < a + WindowSize /\ top + 1 = b /\ top + 1 - x <= c
    BY <1>4, <1>5, <1>6, <1>7, <2>4, Zenon
  <2>. QED BY <1>2, <2>5, <2>6
<1>9. w <= v + FreeWindows
  BY <1>2, <1>8
<1>. QED BY <1>1, <1>2, <1>9 DEF Recent

\* Elements of Q at d places are counted.
LEMMA CountAtLeast ==
    ASSUME NEW S, NEW s \in Seq(S), NEW Q, NEW d \in Nat, NEW g \in [0..d - 1 -> 1..Len(s)],
           \A a \in 0..d - 1 : s[g[a]] \in Q,
           \A a, b \in 0..d - 1 : g[a] = g[b] => a = b
    PROVE  Count(s, Q) >= d
<1>1. IsFiniteSet(Places(s, Q)) /\ Count(s, Q) \in Nat
  BY PlacesFinite, Zenon
<1>2. IsFiniteSet(0..d - 1) /\ Cardinality(0..d - 1) = d
  <2>1. 0 \in Int /\ d - 1 \in Int
    OBVIOUS
  <2>2. IsFiniteSet(0..d - 1) /\ Cardinality(0..d - 1) = IF 0 > d - 1 THEN 0 ELSE d - 1 - 0 + 1
    BY <2>1, FS_Interval, Zenon
  <2>. QED BY <2>2
<1>3. g \in [0..d - 1 -> Places(s, Q)]
  <2>1. DOMAIN s = 1..Len(s)
    OBVIOUS
  <2>. QED BY <2>1 DEF Places
<1>4. ~(Cardinality(Places(s, Q)) < Cardinality(0..d - 1))
  <2>1. SUFFICES ASSUME Cardinality(Places(s, Q)) < Cardinality(0..d - 1) PROVE FALSE
    OBVIOUS
  <2>2. \E a, b \in 0..d - 1 : a # b /\ g[a] = g[b]
    BY <1>1, <1>2, <1>3, <2>1, FS_PigeonHole, Zenon
  <2>. QED BY <2>2
<1>. QED BY <1>1, <1>2, <1>4 DEF Count

\* A part is known by its command.
LEMMA CommandUnique ==
    ASSUME NEW f, NEW st, Known(f, st), NEW q, NEW i, IsPart(f, st, q, i),
           NEW r, NEW a, IsPart(f, st, r, a), CommandOf(f, st, q, i) = CommandOf(f, st, r, a)
    PROVE  q = r /\ i = a
<1>1. PICK c : c = CommandOf(f, st, q, i) /\ c = CommandOf(f, st, r, a)
  OBVIOUS
<1>2. c.pkt = st[q] /\ c.num = i /\ c.pkt = st[r] /\ c.num = a
  BY <1>1, CommandFields
<1>3. q \in 1..Len(st) /\ r \in 1..Len(st)
  BY DEF IsPart
<1>4. q = r <=> st[q] = st[r]
  BY <1>3, Ascending
<1>. QED BY <1>2, <1>4

InSent(x) == \E j \in 1..Len(sent) : sent[j].rseq = x

\* What was not received of the packets up to top, when nothing waits to be
\* sent again, is in the sent list.
LEMMA KeptInSent ==
    ASSUME NEW f, NEW top, NEW k, Held(f, top, 0, k), Len(outgoing) \in Nat,
           NEW q, NEW i, IsPart(f, stream, q, i), Pos(f, q, i) <= top, ~Has(stream, k, in, q, i)
    PROVE  InSent(NumOf(Pos(f, q, i)))
<1>1. Known(f, stream) /\ Line(f, top, 0) /\ top \in Nat
  BY DEF Held, Receiver, Line
<1>2. PICK c : c = CommandOf(f, stream, q, i)
  OBVIOUS
<1>3. Outstanding(c)
  BY <1>2 DEF Held, Kept
<1>4. ASSUME NEW j \in 1..Len(outgoing), outgoing[j].cmd = c PROVE FALSE
  <2>1. HasPos(f, stream, c, top + (j - 0))
    <3>1. j \in 0 + 1 .. Len(outgoing)
      BY <1>4
    <3>. QED BY <1>1, <1>4, <3>1 DEF Line
  <2>2. PICK r, a : /\ IsPart(f, stream, r, a) /\ c = CommandOf(f, stream, r, a)
                    /\ top + (j - 0) = Pos(f, r, a)
    BY <2>1 DEF HasPos
  <2>3. q = r /\ i = a
    BY <1>1, <1>2, <2>2, CommandUnique, ZenonT(40)
  <2>4. top + j <= top
    BY <1>1, <2>2, <2>3
  <2>. QED BY <1>1, <2>4
<1>5. PICK j \in 1..Len(sent) : sent[j] = c
  BY <1>3, <1>4 DEF Outstanding
<1>6. sent[j].rseq = NumOf(Pos(f, q, i))
  BY <1>2, <1>5, CommandFields
<1>. QED BY <1>6 DEF InSent

\* What the receiver has was delivered, or is in the queue.
LEMMA HasAcceptable ==
    ASSUME NEW f, NEW st, Known(f, st), NEW n \in Nat, NEW r \in Chan(n), NEW k, Queue(f, st, k, r),
           NEW q \in 1..Len(st), NEW i, Has(st, k, r, q, i)
    PROVE  q <= k \/ Acceptable(f, k, q)
<1>1. PICK g : k \in 0..Len(st) /\ Slots(f, st, k, r.reliable, g)
  BY DEF Queue
<1>2. Len(r.reliable) \in Nat
  BY ChanFacts
<1>3. ASSUME NEW j \in 1..Len(r.reliable), r.reliable[j].pkt = st[q]
      PROVE  Acceptable(f, k, q)
  <2>1. /\ Acceptable(f, k, g[j])
        /\ \A p \in 1..Len(st) : r.reliable[j].pkt = st[p] <=> g[j] = p
    BY <1>1, <1>2, SlotFacts
  <2>2. g[j] = q
    BY <1>3, <2>1
  <2>. QED BY <2>1, <2>2
<1>. QED BY <1>3 DEF Has

\* The window before a new one is not full of commands that wait for their
\* acknowledgement: one of its packets was received, so the last one delivered
\* is not far behind.
LEMMA HeldSpan ==
    ASSUME NEW n \in Nat, SenderTypes(n), ReceiverTypes(n), Counters(n),
           NEW f, NEW top, NEW k, Held(f, top, 0, k), WindowOf(top + 1) = WindowOf(top) + 1,
           windows[WindowOf(top) % Windows] < WindowSize
    PROVE  Span(f, top + 1, k)
<1>1. /\ Known(f, stream) /\ top \in Nat /\ Start <= top /\ Queue(f, stream, k, in)
      /\ k \in 0..Len(stream) /\ in \in Chan(n)
      /\ Len(outgoing) \in Nat /\ sent \in Seq(Cmd(n)) /\ Len(sent) \in Nat
      /\ windows \in [0..Windows - 1 -> Nat]
  BY DEF Held, Receiver, Line, Queue, ReceiverTypes, SenderTypes
<1>2. top <= Newest(f, stream)
  <2>1. top + (Len(outgoing) - 0) = Newest(f, stream)
    BY DEF Held, Line
  <2>. QED BY <1>1, <2>1
<1>3. /\ Windows \in Nat \ {0} /\ FreeWindows \in Nat /\ FreeWindows >= 3 /\ WindowSize \in Nat \ {0}
      /\ Start \in Nat /\ Numbers \in Nat
  BY Consts
<1>4. PICK w \in Nat : w = WindowOf(top)
  BY <1>1, WinBounds
<1>5. PICK b \in Nat : b = WindowSize * w /\ top + 1 = b + WindowSize
  <2>1. top + 1 \in Nat /\ (top + 1) % WindowSize = 0
    BY <1>1, WinStep
  <2>2. top + 1 = WindowSize * (w + 1)
    BY <1>4, <2>1, FirstOfWindow
  <2>3. WindowSize * (w + 1) = WindowSize * w + WindowSize /\ WindowSize * w \in Nat
    BY <1>3
  <2>. QED BY <2>2, <2>3
<1>6. \A d \in 0..WindowSize - 1 : b + d \in Nat /\ b + d <= top /\ WindowOf(b + d) = w
  <2>1. TAKE d \in 0..WindowSize - 1
  <2>2. PICK y \in Nat : y = b + d /\ y <= top /\ b <= y /\ y < b + WindowSize
    BY <1>1, <1>3, <1>5
  <2>3. WindowSize * w <= y /\ y < WindowSize * w + WindowSize
    BY <1>5, <2>2, Zenon
  <2>4. WindowOf(y) = w
    <3>1. w \in Int
      OBVIOUS
    <3>. QED BY <2>3, <3>1, WinUnique, Zenon
  <2>. QED BY <2>2, <2>4
<1>7. \E d \in 0..WindowSize - 1 :
          \/ b + d <= Start
          \/ \E q, i : IsPart(f, stream, q, i) /\ Pos(f, q, i) = b + d /\ Has(stream, k, in, q, i)
  <2>1. SUFFICES ASSUME \A d \in 0..WindowSize - 1 :
                            /\ ~(b + d <= Start)
                            /\ \A q, i : IsPart(f, stream, q, i) /\ Pos(f, q, i) = b + d
                                         => ~Has(stream, k, in, q, i)
                 PROVE  FALSE
    OBVIOUS
  <2>2. \A d \in 0..WindowSize - 1 : \E j \in 1..Len(sent) : sent[j].rseq = NumOf(b + d)
    <3>1. TAKE d \in 0..WindowSize - 1
    <3>2. PICK y \in Nat : y = b + d /\ y <= top /\ Start < y /\ y <= Newest(f, stream)
      <4>1. Newest(f, stream) \in Nat
        BY <1>1, FirstsFacts DEF Known
      <4>2. PICK y \in Nat : y = b + d
        BY <1>6
      <4>3. y <= top /\ ~(y <= Start)
        BY <1>6, <2>1, <4>2
      <4>4. Start < y /\ y <= Newest(f, stream)
        BY <1>1, <1>2, <1>3, <4>1, <4>3
      <4>. QED BY <4>2, <4>3, <4>4
    <3>3. PICK q, i : IsPart(f, stream, q, i) /\ y = Pos(f, q, i)
      BY <1>1, <3>2, PosExists DEF Known
    <3>4. ~Has(stream, k, in, q, i)
      BY <2>1, <3>2, <3>3
    <3>5. \E j \in 1..Len(sent) : sent[j].rseq = NumOf(Pos(f, q, i))
      <4>1. Pos(f, q, i) <= top
        BY <3>2, <3>3, Zenon
      <4>2. Len(outgoing) \in Nat
        BY <1>1, Zenon
      <4>3. InSent(NumOf(Pos(f, q, i)))
        BY <3>3, <3>4, <4>1, <4>2, KeptInSent, Zenon
      <4>. QED BY <4>3 DEF InSent
    <3>. QED BY <3>2, <3>3, <3>5
  <2>. DEFINE g == [d \in 0..WindowSize - 1 |-> CHOOSE j \in 1..Len(sent) : sent[j].rseq = NumOf(b + d)]
  <2>3. g \in [0..WindowSize - 1 -> 1..Len(sent)]
    BY <2>2
  <2>4. \A d \in 0..WindowSize - 1 : g[d] \in 1..Len(sent) /\ sent[g[d]].rseq = NumOf(b + d)
    BY <2>2
  <2>. HIDE DEF g
  <2>5. \A d, e \in 0..WindowSize - 1 : g[d] = g[e] => d = e
    <3>1. SUFFICES ASSUME NEW d \in 0..WindowSize - 1, NEW e \in 0..WindowSize - 1, g[d] = g[e]
                   PROVE  d = e
      OBVIOUS
    <3>2. PICK x \in Nat, y \in Nat : x = b + d /\ y = b + e
      BY <1>6
    <3>3. NumOf(x) = NumOf(y)
      BY <2>4, <3>1, <3>2
    <3>4. WindowOf(x) = w /\ WindowOf(y) = w
      BY <1>6, <3>2
    <3>5. x - y < Numbers /\ y - x < Numbers
      <4>1. WindowOf(x) - WindowOf(y) < Windows /\ WindowOf(y) - WindowOf(x) < Windows
        BY <1>3, <3>4
      <4>. QED BY <4>1, WinNear
    <3>6. x = y
      BY <3>3, <3>5, NumsDiffer
    <3>. QED BY <3>2, <3>6
  <2>6. PICK v \in 0..Windows - 1 : v = w % Windows
    BY <1>3
  <2>7. \A d \in 0..WindowSize - 1 : sent[g[d]] \in CmdsOf(n, v)
    <3>1. TAKE d \in 0..WindowSize - 1
    <3>2. sent[g[d]] \in Cmd(n) /\ sent[g[d]].rseq = NumOf(b + d)
      BY <1>1, <2>4
    <3>3. WindowOf(NumOf(b + d)) = WindowOf(b + d) % Windows
      <4>1. b + d \in Nat
        BY <1>6
      <4>. QED BY <4>1, WindowTurns
    <3>. QED BY <1>6, <2>6, <3>2, <3>3 DEF CmdsOf
  <2>8. Count(sent, CmdsOf(n, v)) >= WindowSize
    BY <1>1, <1>3, <2>3, <2>5, <2>7, CountAtLeast
  <2>9. /\ Count(outgoing, TriedOf(n, v)) \in Nat /\ Count(sent, CmdsOf(n, v)) \in Nat
    BY CountTypes DEF SenderTypes
  <2>10. windows[v] = Count(outgoing, TriedOf(n, v)) + Count(sent, CmdsOf(n, v))
    BY DEF Counters, InWindowOf
  <2>11. windows[v] < WindowSize
    BY <1>4, <2>6
  <2>. QED BY <1>3, <2>8, <2>9, <2>10, <2>11
<1>8. PICK d \in 0..WindowSize - 1 :
          \/ b + d <= Start
          \/ \E q, i : IsPart(f, stream, q, i) /\ Pos(f, q, i) = b + d /\ Has(stream, k, in, q, i)
  BY <1>7
<1>9. PICK y \in Nat : y = b + d /\ WindowOf(y) = w
  BY <1>6
<1>10. PICK e \in Nat : e = Delivered(f, k) /\ Start <= e
  BY <1>1, DeliveredFacts
<1>11. PICK z \in Nat : z = WindowOf(e)
  BY WinBounds
<1>12. w <= z + FreeWindows - 1
  <2>1. y <= e => w <= z
    BY <1>9, <1>11, WinMono
  <2>2. CASE y <= Start
    BY <1>3, <1>10, <2>1, <2>2
  <2>3. ASSUME NEW q, NEW i, IsPart(f, stream, q, i), Pos(f, q, i) = y, Has(stream, k, in, q, i)
        PROVE  w <= z + FreeWindows - 1
    <3>1. q \in 1..Len(stream) /\ i \in {1, 2}
      BY <2>3 DEF IsPart
    <3>2. CASE q <= k
      <4>1. y <= e
        <5>1. \A p \in 1..Len(stream), c \in {1, 2} :
                  IsPart(f, stream, p, c) => (p <= k <=> Pos(f, p, c) <= Delivered(f, k))
          BY <1>1, DeliveredFacts
        <5>2. q <= k <=> Pos(f, q, i) <= Delivered(f, k)
          BY <2>3, <3>1, <5>1
        <5>. QED BY <1>10, <2>3, <3>2, <5>2
      <4>. QED BY <1>3, <2>1, <4>1
    <3>3. CASE Acceptable(f, k, q)
      <4>1. PICK a \in Nat : a = f[q] /\ y <= a + 1
        <5>1. f[q] \in Nat
          BY <1>1, <3>1, DeliveredFacts
        <5>2. Pos(f, q, i) <= f[q] + 1
          BY <1>1, <2>3, PosFacts DEF Known
        <5>. QED BY <2>3, <5>1, <5>2
      <4>2. PICK v \in Nat : v = WindowOf(a)
        BY WinBounds
      <4>3. v <= z + FreeWindows - 2
        BY <1>10, <1>11, <3>3, <4>1, <4>2 DEF Acceptable
      <4>4. WindowOf(a + 1) \in {v, v + 1}
        BY <4>2, WinStep
      <4>5. w <= WindowOf(a + 1)
        BY <1>9, <4>1, WinMono
      <4>. QED BY <1>3, <4>3, <4>4, <4>5
    <3>. QED BY <1>1, <2>3, <3>1, <3>2, <3>3, HasAcceptable
  <2>. QED BY <1>8, <1>9, <2>2, <2>3
<1>. QED BY <1>3, <1>4, <1>10, <1>11, <1>12 DEF Span

LEMMA SendReliableFacts ==
    ASSUME NEW n \in Nat, SenderTypes(n), SendReliable
    PROVE  /\ outgoing # << >> /\ outgoing[1] \in Out(n)
           /\ ~WindowWrap(outgoing[1])
           /\ outgoing[1].tried \/ NotOutlived(outgoing[1].cmd.rseq)
           /\ outgoing' = Tail(outgoing) /\ sent' = Append(sent, outgoing[1].cmd)
           /\ net' \subseteq net \cup {outgoing[1].cmd}
           /\ UNCHANGED <<submitted, stream, numbers, unreliable, acks, in, dispatched, delivered>>
<1>1. outgoing # << >> /\ outgoing \in Seq(Out(n))
  BY DEF SendReliable, SenderTypes
<1>2. PICK o : o = Head(outgoing)
  OBVIOUS
<1>3. /\ ~WindowWrap(o) /\ (o.tried \/ NotOutlived(o.cmd.rseq))
      /\ outgoing' = Tail(outgoing) /\ sent' = Append(sent, o.cmd) /\ Transmit(o.cmd)
      /\ UNCHANGED <<submitted, stream, numbers, unreliable, acks, in, dispatched, delivered>>
  BY <1>2 DEF SendReliable, receiver
<1>4. o = outgoing[1] /\ o \in Out(n)
  BY <1>1, <1>2, HeadTail
<1>5. net' \subseteq net \cup {o.cmd}
  BY <1>3 DEF Transmit
<1>. QED BY <1>1, <1>3, <1>4, <1>5, Zenon

\* A command is sent, for the first time or again; new is the newest position
\* that was sent now.
LEMMA HeldLaunch ==
    ASSUME NEW n \in Nat, SenderTypes(n), NEW f, NEW top, NEW m, NEW k, Held(f, top, m, k),
           outgoing # << >>, NEW o, o = outgoing[1],
           outgoing' = Tail(outgoing), sent' = Append(sent, o.cmd), net' \subseteq net \cup {o.cmd},
           UNCHANGED <<submitted, stream, numbers, unreliable, acks, in, dispatched, delivered>>,
           NEW new \in Nat, top <= new, NEW p, Line(f, new, p)', Aired(f, stream, new, o.cmd),
           \A c \in net : OfTheStream(c) => Aired(f, stream, new, c),
           Told(f, new, k), Span(f, new, k)
    PROVE  Held(f, new, p, k)'
<1>1. top \in Nat /\ outgoing \in Seq(Out(n)) /\ sent \in Seq(Cmd(n)) /\ o.cmd \in Cmd(n)
  <2>1. outgoing[1] \in Out(n)
    BY HeadTail DEF SenderTypes
  <2>. QED BY <2>1 DEF Held, Line, SenderTypes, Out
<1>2. OfTheStream(o.cmd)
  <2>1. PICK q, i : o.cmd = CommandOf(f, stream, q, i)
    BY DEF Aired, HasPos
  <2>. QED BY <2>1, CommandFields DEF OfTheStream
<1>3. Way(f, new)'
  <2>1. \A c \in net : IF OfTheStream(c) THEN Aired(f, stream, top, c)
                                        ELSE Loose(stream, submitted, c.pkt)
    <3>1. Way(f, top)
      BY DEF Held
    <3>. QED BY <3>1, Zenon DEF Way
  <2>2. \A c \in net' : IF OfTheStream(c) THEN Aired(f, stream, new, c)
                                         ELSE Loose(stream, submitted, c.pkt)
    BY <1>2, <2>1
  <2>3. stream' = stream /\ submitted' = submitted
    OBVIOUS
  <2>. QED BY <2>2, <2>3, Zenon DEF Way, Aired, Loose, HasPos
<1>4. \A c : Outstanding(c) => Outstanding(c)'
  <2>1. /\ \A j \in 1..Len(sent) : j \in 1..Len(sent') /\ sent'[j] = sent[j]
        /\ Len(sent') \in 1..Len(sent') /\ sent'[Len(sent')] = o.cmd
    BY <1>1
  <2>2. \A j \in 1..Len(outgoing) : outgoing[j] = o \/ \E i \in 1..Len(outgoing') : outgoing'[i] = outgoing[j]
    <3>1. TAKE j \in 1..Len(outgoing)
    <3>2. CASE j # 1
      <4>1. j - 1 \in 1..Len(outgoing') /\ j - 1 \in 1 .. Len(outgoing) - 1 /\ (j - 1) + 1 = j
        BY <1>1, <3>2, HeadTail
      <4>2. \A i \in 1 .. Len(outgoing) - 1 : outgoing'[i] = outgoing[i + 1]
        BY <1>1, HeadTail
      <4>. QED BY <4>1, <4>2
    <3>. QED BY <3>2
  <2>3. ASSUME NEW c, Outstanding(c)
        PROVE  \/ \E j \in 1..Len(sent') : sent'[j] = c
               \/ \E j \in 1..Len(outgoing') : outgoing'[j].cmd = c
    <3>1. CASE \E j \in 1..Len(sent) : sent[j] = c
      BY <2>1, <3>1
    <3>2. ASSUME NEW j \in 1..Len(outgoing), outgoing[j].cmd = c
          PROVE  \/ \E b \in 1..Len(sent') : sent'[b] = c
                 \/ \E b \in 1..Len(outgoing') : outgoing'[b].cmd = c
      <4>1. CASE outgoing[j] = o
        BY <2>1, <3>2, <4>1
      <4>2. CASE \E i \in 1..Len(outgoing') : outgoing'[i] = outgoing[j]
        BY <3>2, <4>2
      <4>. QED BY <2>2, <4>1, <4>2
    <3>. QED BY <2>3, <3>1, <3>2 DEF Outstanding
  <2>. QED BY <2>3 DEF Outstanding
<1>5. Kept(f, k)'
  <2>1. ASSUME NEW q, NEW i, IsPart(f, stream, q, i)
        PROVE  Outstanding(CommandOf(f, stream, q, i))' \/ Has(stream, k, in, q, i)
    <3>1. PICK c : c = CommandOf(f, stream, q, i)
      OBVIOUS
    <3>2. Outstanding(c) \/ Has(stream, k, in, q, i)
      BY <2>1, <3>1 DEF Held, Kept
    <3>3. stream' = stream
      OBVIOUS
    <3>. QED BY <1>4, <3>1, <3>2, <3>3
  <2>. QED BY <2>1 DEF Kept
<1>6. Told(f, new, k)'
  BY DEF Told
<1>7. Reached(f, new, k)'
  <2>1. ASSUME NEW q, NEW i, IsPart(f, stream, q, i), Has(stream, k, in, q, i)
        PROVE  Pos(f, q, i) <= new
    <3>1. Pos(f, q, i) <= top
      BY <2>1 DEF Held, Reached
    <3>2. Pos(f, q, i) \in Nat
      BY <2>1, PosFacts DEF Held, Receiver, Known
    <3>. QED BY <1>1, <3>1, <3>2
  <2>. QED BY <2>1 DEF Reached
<1>8. (Numbered(f) /\ Side)'
  BY DEF Held, Numbered, Side
<1>9. (Span(f, new, k) /\ Receiver(f, stream, submitted, k, in))'
  BY DEF Held, Span
<1>10. InTurn(stream, submitted, k, delivered \o dispatched)'
  BY DEF Held
<1>. QED BY <1>3, <1>5, <1>6, <1>7, <1>8, <1>9, <1>10 DEF Held

\* The first position of a window that is begun leaves recent what was so.
LEMMA StaysRecent ==
    ASSUME NEW n \in Nat, SenderTypes(n), Counters(n),
           NEW f, NEW top \in Nat, NEW o, ~o.tried, o.cmd.rseq = NumOf(top + 1),
           ~WindowWrap(o), NotOutlived(o.cmd.rseq), NEW x \in Nat, Recent(top, x)
    PROVE  /\ (\E j \in 1..Len(sent) : sent[j].rseq = NumOf(x)) => Recent(top + 1, x)
           /\ (\E c \in net : OfTheStream(c) /\ c.rseq = NumOf(x)) => Recent(top + 1, x)
           /\ NumOf(x) \in acks => Recent(top + 1, x)
           /\ Recent(top + 1, top + 1)
<1>1. Recent(top + 1, top + 1)
  <2>1. WindowOf(top + 1) \in Nat
    BY WinBounds
  <2>. QED BY <2>1, Consts DEF Recent
<1>2. CASE WindowOf(top + 1) = WindowOf(top)
  BY <1>1, <1>2 DEF Recent
<1>3. CASE WindowOf(top + 1) = WindowOf(top) + 1
  <2>1. o.cmd.rseq % WindowSize = 0
    <3>1. top + 1 \in Nat /\ (top + 1) % WindowSize = 0
      BY <1>3, WinStep
    <3>. QED BY <3>1, FirstOfWindow
  <2>2. \A i \in 0..FreeWindows - 1 : (WindowOf(NumOf(top + 1)) + i) % Windows \notin used
    BY <2>1 DEF WindowWrap
  <2>3. ASSUME NEW j \in 1..Len(sent), sent[j].rseq = NumOf(x)
        PROVE  Recent(top + 1, x)
    <3>1. PICK w \in 0..Windows - 1 : w = WindowOf(NumOf(x))
      BY Turns
    <3>2. sent \in Seq(Cmd(n)) /\ sent[j] \in CmdsOf(n, w)
      BY <2>3, <3>1 DEF SenderTypes, CmdsOf
    <3>3. Count(sent, CmdsOf(n, w)) # 0
      BY <3>2, CountNone
    <3>4. Count(outgoing, TriedOf(n, w)) \in Nat /\ Count(sent, CmdsOf(n, w)) \in Nat
      BY CountTypes DEF SenderTypes
    <3>5. windows[w] = Count(outgoing, TriedOf(n, w)) + Count(sent, CmdsOf(n, w))
      BY DEF Counters, InWindowOf
    <3>6. w \in used
      BY <3>3, <3>4, <3>5 DEF Counters
    <3>. QED BY <1>3, <2>2, <3>1, <3>6, RecentSent
  <2>4. ASSUME \/ \E c \in net : OfTheStream(c) /\ c.rseq = NumOf(x)
               \/ NumOf(x) \in acks
        PROVE  Recent(top + 1, x)
    <3>1. NumOf(x) \in acks \cup {c.rseq : c \in {d \in net : d.kind # "UNSEQUENCED"}}
      BY <2>4 DEF OfTheStream
    <3>2. (NumOf(top + 1) - NumOf(x)) % Numbers <= (Windows - FreeWindows) * WindowSize
      BY <3>1, Zenon DEF NotOutlived
    <3>. QED BY <1>3, <3>2, RecentAway
  <2>. QED BY <1>1, <2>3, <2>4
<1>. QED BY <1>2, <1>3, WinStep

\* What stays behind in the outgoing commands when the first is sent.
LEMMA LineSent ==
    ASSUME NEW n \in Nat, SenderTypes(n), NEW f, NEW top, NEW m, Line(f, top, m), outgoing # << >>,
           NEW o, o = outgoing[1], outgoing' = Tail(outgoing), sent' = Append(sent, o.cmd),
           stream' = stream, NEW new \in Nat, NEW p,
           \/ new = top /\ m > 0 /\ p = m - 1
           \/ new = top + 1 /\ m = 0 /\ p = 0,
           Aired(f, stream, new, o.cmd),
           \A j \in 1..Len(sent) : Aired(f, stream, new, sent[j])
    PROVE  Line(f, new, p)'
<1>1. /\ top \in Nat /\ Start <= top /\ m \in 0..Len(outgoing) /\ Len(outgoing) \in Nat
      /\ top + (Len(outgoing) - m) = Newest(f, stream)
      /\ outgoing \in Seq(Out(n)) /\ sent \in Seq(Cmd(n))
  BY DEF Line, SenderTypes
<1>2. /\ Len(outgoing) >= 1 /\ Len(outgoing') = Len(outgoing) - 1
      /\ \A j \in 1 .. Len(outgoing) - 1 : outgoing'[j] = outgoing[j + 1]
  BY <1>1, HeadTail
<1>3. Start <= new /\ p \in 0..Len(outgoing') /\ new + (Len(outgoing') - p) = Newest(f, stream)
  <2>1. Start \in Nat
    BY Consts
  <2>2. PICK a : a = Len(outgoing)
    OBVIOUS
  <2>3. PICK b : b = Len(outgoing')
    OBVIOUS
  <2>4. /\ a \in Nat /\ a >= 1 /\ b = a - 1 /\ m \in 0..a /\ Start <= top /\ top \in Nat
        /\ top + (a - m) = Newest(f, stream)
    BY <1>1, <1>2, <2>2, <2>3
  <2>5. Start <= new /\ p \in 0..b /\ new + (b - p) = Newest(f, stream)
    <3>1. CASE new = top /\ m > 0 /\ p = m - 1
      <4>1. p \in 0..b /\ new + (b - p) = top + (a - m) /\ Start <= new
        BY <2>4, <3>1
      <4>. QED BY <2>4, <4>1
    <3>2. CASE new = top + 1 /\ m = 0 /\ p = 0
      <4>1. p \in 0..b /\ Start <= new
        BY <2>1, <2>4, <3>2
      <4>2. (top + 1) + ((a - 1) - 0) = top + (a - 0)
        BY <2>4
      <4>3. new + (b - p) = top + (a - m)
        BY <2>4, <3>2, <4>2
      <4>. QED BY <2>4, <4>1, <4>3
    <3>. QED BY <3>1, <3>2
  <2>. QED BY <2>3, <2>5
<1>4. ASSUME NEW j \in 1..p
      PROVE  outgoing'[j].tried /\ Aired(f, stream, new, outgoing'[j].cmd)
  <2>1. j + 1 \in 1..m /\ j \in 1 .. Len(outgoing) - 1 /\ new = top
    BY <1>1
  <2>2. outgoing[j + 1].tried /\ Aired(f, stream, top, outgoing[j + 1].cmd)
    BY <2>1 DEF Line
  <2>. QED BY <1>2, <2>1, <2>2
<1>5. ASSUME NEW j \in p + 1 .. Len(outgoing')
      PROVE  ~outgoing'[j].tried /\ HasPos(f, stream, outgoing'[j].cmd, new + (j - p))
  <2>1. j + 1 \in m + 1 .. Len(outgoing) /\ j \in 1 .. Len(outgoing) - 1
    BY <1>1, <1>2, <1>3, SMTT(30)
  <2>2. ~outgoing[j + 1].tried /\ HasPos(f, stream, outgoing[j + 1].cmd, top + ((j + 1) - m))
    BY <2>1 DEF Line
  <2>3. top + ((j + 1) - m) = new + (j - p)
    <3>1. j \in Int /\ m \in Int /\ top \in Int
      BY <1>1, <1>2, <1>3
    <3>2. CASE new = top /\ m > 0 /\ p = m - 1
      BY <3>1, <3>2
    <3>3. CASE new = top + 1 /\ m = 0 /\ p = 0
      BY <3>1, <3>3
    <3>. QED BY <3>2, <3>3
  <2>. QED BY <1>2, <2>1, <2>2, <2>3
<1>6. ASSUME NEW j \in 1..Len(sent')
      PROVE  Aired(f, stream, new, sent'[j])
  <2>1. sent'[j] = o.cmd \/ (j \in 1..Len(sent) /\ sent'[j] = sent[j])
    <3>1. PICK d : d = o.cmd
      OBVIOUS
    <3>2. sent' = Append(sent, d) /\ j \in 1..Len(sent')
      BY <3>1
    <3>3. \A b \in 1..Len(Append(sent, d)) :
              Append(sent, d)[b] = d \/ (b \in 1..Len(sent) /\ Append(sent, d)[b] = sent[b])
      BY <1>1
    <3>. QED BY <3>1, <3>2, <3>3
  <2>. QED BY <2>1
<1>. QED BY <1>3, <1>4, <1>5, <1>6 DEF Line

LEMMA HeldSendReliable ==
    ASSUME NEW n \in Nat, SenderTypes(n), ReceiverTypes(n), Counters(n),
           NEW f, NEW top, NEW m, NEW k, Held(f, top, m, k), SendReliable
    PROVE  \E u, p : Held(f, u, p, k)'
<1>1. PICK o : o = outgoing[1]
  OBVIOUS
<1>2. /\ outgoing # << >> /\ o \in Out(n) /\ ~WindowWrap(o) /\ (o.tried \/ NotOutlived(o.cmd.rseq))
      /\ outgoing' = Tail(outgoing) /\ sent' = Append(sent, o.cmd) /\ net' \subseteq net \cup {o.cmd}
      /\ UNCHANGED <<submitted, stream, numbers, unreliable, acks, in, dispatched, delivered>>
  BY <1>1, SendReliableFacts
<1>3. /\ top \in Nat /\ Known(f, stream) /\ m \in 0..Len(outgoing) /\ Len(outgoing) \in Nat
      /\ Line(f, top, m) /\ Way(f, top) /\ Told(f, top, k) /\ Span(f, top, k)
      /\ k \in 0..Len(stream)
  BY DEF Held, Receiver, Line, SenderTypes, Queue
<1>4. Len(outgoing) >= 1
  BY <1>2, <1>3, HeadTail DEF SenderTypes
<1>5. \A c \in net : OfTheStream(c) => Aired(f, stream, top, c)
  BY <1>3, Zenon DEF Way
<1>6. stream' = stream
  BY <1>2
<1>7. CASE m > 0
  <2>1. Aired(f, stream, top, o.cmd) /\ \A j \in 1..Len(sent) : Aired(f, stream, top, sent[j])
    <3>1. 1 \in 1..m
      BY <1>3, <1>7
    <3>. QED BY <1>1, <1>3, <3>1 DEF Line
  <2>2. PICK p : p = m - 1
    OBVIOUS
  <2>3. Line(f, top, p)'
    <3>1. top = top /\ m > 0 /\ p = m - 1
      BY <1>7, <2>2
    <3>. QED BY <1>1, <1>2, <1>3, <1>6, <2>1, <3>1, LineSent, Zenon
  <2>4. top <= top
    BY <1>3
  <2>5. Held(f, top, p, k)'
    BY <1>1, <1>2, <1>3, <1>5, <2>1, <2>3, <2>4, HeldLaunch, Zenon
  <2>. QED BY <2>5
<1>8. CASE m = 0
  <2>1. ~o.tried /\ HasPos(f, stream, o.cmd, top + 1)
    <3>1. 1 \in m + 1 .. Len(outgoing) /\ top + (1 - m) = top + 1
      BY <1>3, <1>4, <1>8
    <3>. QED BY <1>1, <1>3, <3>1 DEF Line
  <2>2. o.cmd.rseq = NumOf(top + 1)
    <3>1. PICK q, i : o.cmd = CommandOf(f, stream, q, i) /\ top + 1 = Pos(f, q, i)
      BY <2>1 DEF HasPos
    <3>. QED BY <3>1, CommandFields
  <2>3. NotOutlived(o.cmd.rseq)
    BY <1>2, <2>1
  <2>4. ASSUME NEW x \in Nat, Recent(top, x)
        PROVE  /\ (\E j \in 1..Len(sent) : sent[j].rseq = NumOf(x)) => Recent(top + 1, x)
               /\ (\E c \in net : OfTheStream(c) /\ c.rseq = NumOf(x)) => Recent(top + 1, x)
               /\ NumOf(x) \in acks => Recent(top + 1, x)
               /\ Recent(top + 1, top + 1)
    BY <1>2, <1>3, <2>1, <2>2, <2>3, <2>4, StaysRecent
  <2>5. Recent(top + 1, top + 1)
    <3>1. PICK x \in Nat : x = top + 1
      BY <1>3
    <3>2. PICK w \in Nat : w = WindowOf(x)
      BY WinBounds
    <3>3. x <= x /\ w <= w + FreeWindows
      BY Consts
    <3>. QED BY <3>1, <3>2, <3>3 DEF Recent
  <2>6. ASSUME NEW c, Aired(f, stream, top, c)
        PROVE  \E x \in Nat : HasPos(f, stream, c, x) /\ Recent(top, x) /\ c.rseq = NumOf(x)
    <3>1. PICK x \in Nat : HasPos(f, stream, c, x) /\ Recent(top, x)
      BY <2>6 DEF Aired
    <3>2. PICK q, i : c = CommandOf(f, stream, q, i) /\ x = Pos(f, q, i)
      BY <3>1 DEF HasPos
    <3>3. c.rseq = NumOf(x)
      BY <3>2, CommandFields
    <3>. QED BY <3>1, <3>3
  <2>7. \A j \in 1..Len(sent) : Aired(f, stream, top + 1, sent[j])
    <3>1. TAKE j \in 1..Len(sent)
    <3>2. Aired(f, stream, top, sent[j])
      BY <1>3 DEF Line
    <3>3. PICK x \in Nat : HasPos(f, stream, sent[j], x) /\ Recent(top, x) /\ sent[j].rseq = NumOf(x)
      BY <2>6, <3>2
    <3>4. Recent(top + 1, x)
      BY <2>4, <3>3
    <3>. QED BY <3>3, <3>4 DEF Aired
  <2>8. \A c \in net : OfTheStream(c) => Aired(f, stream, top + 1, c)
    <3>1. TAKE c \in net
    <3>2. SUFFICES ASSUME OfTheStream(c) PROVE Aired(f, stream, top + 1, c)
      OBVIOUS
    <3>3. PICK x \in Nat : HasPos(f, stream, c, x) /\ Recent(top, x) /\ c.rseq = NumOf(x)
      BY <1>5, <2>6, <3>2
    <3>4. Recent(top + 1, x)
      BY <2>4, <3>2, <3>3
    <3>. QED BY <3>3, <3>4 DEF Aired
  <2>9. Told(f, top + 1, k)
    <3>1. ASSUME NEW x \in acks
          PROVE  \E q, i : /\ IsPart(f, stream, q, i) /\ x = NumOf(Pos(f, q, i))
                           /\ Recent(top + 1, Pos(f, q, i)) /\ Has(stream, k, in, q, i)
      <4>1. PICK q, i : /\ IsPart(f, stream, q, i) /\ x = NumOf(Pos(f, q, i))
                        /\ Recent(top, Pos(f, q, i)) /\ Has(stream, k, in, q, i)
        BY <1>3 DEF Told
      <4>2. Pos(f, q, i) \in Nat
        BY <1>3, <4>1, PosFacts DEF Known
      <4>3. Recent(top + 1, Pos(f, q, i))
        BY <2>4, <4>1, <4>2
      <4>. QED BY <4>1, <4>3
    <3>. QED BY <3>1 DEF Told
  <2>10. Span(f, top + 1, k)
    <3>1. CASE WindowOf(top + 1) = WindowOf(top)
      BY <1>3, <3>1 DEF Span
    <3>2. CASE WindowOf(top + 1) = WindowOf(top) + 1
      <4>1. PICK w \in Nat : w = WindowOf(top + 1)
        BY <1>3, WinBounds
      <4>2. top + 1 \in Nat /\ (top + 1) % WindowSize = 0
        BY <1>3, <3>2, WinStep
      <4>3. o.cmd.rseq % WindowSize = 0
        BY <2>2, <4>2, FirstOfWindow
      <4>4. WindowOf(o.cmd.rseq) = w % Windows
        BY <2>2, <4>1, <4>2, WindowTurns
      <4>5. ~(windows[((w % Windows) + Windows - 1) % Windows] >= WindowSize)
        BY <1>2, <2>1, <4>3, <4>4 DEF WindowWrap
      <4>6. w > 0 /\ w - 1 = WindowOf(top) /\ WindowOf(top) \in Nat
        <5>1. WindowOf(top) \in Nat
          BY <1>3, WinBounds
        <5>. QED BY <3>2, <4>1, <5>1
      <4>7. ((w % Windows) + Windows - 1) % Windows = WindowOf(top) % Windows
        BY <4>6, WindowsAround
      <4>8. windows[WindowOf(top) % Windows] \in Nat /\ WindowSize \in Nat
        <5>1. WindowOf(top) % Windows \in 0..Windows - 1
          BY <4>6, Consts
        <5>. QED BY <5>1, Consts DEF SenderTypes
      <4>9. windows[WindowOf(top) % Windows] < WindowSize
        BY <4>5, <4>7, <4>8
      <4>10. Held(f, top, 0, k)
        BY <1>8
      <4>. QED BY <1>3, <3>2, <4>9, <4>10, HeldSpan, Zenon
    <3>. QED BY <1>3, <3>1, <3>2, WinStep
  <2>11. Aired(f, stream, top + 1, o.cmd)
    <3>1. top + 1 \in Nat
      BY <1>3
    <3>. QED BY <2>1, <2>5, <3>1 DEF Aired
  <2>12. top + 1 \in Nat /\ top <= top + 1
    BY <1>3
  <2>13. Line(f, top + 1, 0)'
    <3>1. top + 1 = top + 1 /\ m = 0 /\ 0 = 0
      BY <1>8
    <3>. QED BY <1>1, <1>2, <1>3, <1>6, <2>7, <2>11, <2>12, <3>1, LineSent, Zenon
  <2>14. Held(f, top + 1, 0, k)'
    BY <1>1, <1>2, <1>3, <2>8, <2>9, <2>10, <2>11, <2>12, <2>13, HeldLaunch, Zenon
  <2>. QED BY <2>14
<1>. QED BY <1>3, <1>7, <1>8

LEMMA LooseMore ==
    ASSUME NEW f, NEW st, NEW b \in Nat, NEW k, NEW r, Receiver(f, st, b, k, r),
           NEW out, InTurn(st, b, k, out)
    PROVE  /\ \A p : Loose(st, b, p) => Loose(st, b + 1, p)
           /\ Receiver(f, st, b + 1, k, r) /\ InTurn(st, b + 1, k, out)
<1>1. \A p : Loose(st, b, p) => Loose(st, b + 1, p)
  <2>1. 1..b \subseteq 1 .. b + 1
    OBVIOUS
  <2>. QED BY <2>1, Zenon DEF Loose
<1>2. Receiver(f, st, b + 1, k, r)
  <2>1. LooseOnly(st, b + 1, r.unreliable)
    BY <1>1, Zenon DEF Receiver, LooseOnly
  <2>. QED BY <2>1, Zenon DEF Receiver
<1>3. InTurn(st, b + 1, k, out)
  <2>1. PICK h : TurnsAt(st, b, k, out, h)
    BY DEF InTurn
  <2>2. TurnsAt(st, b + 1, k, out, h)
    BY <1>1, <2>1, Zenon DEF TurnsAt
  <2>. QED BY <2>2 DEF InTurn
<1>. QED BY <1>1, <1>2, <1>3

\* A packet that is not of the stream is given.
LEMMA HeldBeside ==
    ASSUME NEW n \in Nat, SenderTypes(n), NEW f, NEW top, NEW m, NEW k, Held(f, top, m, k),
           submitted' = submitted + 1, numbers'.reliable = numbers.reliable,
           NEW c, unreliable' = Append(unreliable, c), ~OfTheStream(c), c.pkt = submitted + 1,
           UNCHANGED <<stream, outgoing, sent, net, acks, in, dispatched, delivered>>
    PROVE  Held(f, top, m, k)'
<1>1. /\ submitted \in Nat /\ stream \in Seq(1..n) /\ unreliable \in Seq(Cmd(n))
      /\ \A q \in 1..Len(stream) : stream[q] \in 1..submitted
      /\ Receiver(f, stream, submitted, k, in)
      /\ InTurn(stream, submitted, k, delivered \o dispatched)
  BY DEF Held, Numbered, SenderTypes
<1>2. /\ \A p : Loose(stream, submitted, p) => Loose(stream, submitted + 1, p)
      /\ Receiver(f, stream, submitted + 1, k, in)
      /\ InTurn(stream, submitted + 1, k, delivered \o dispatched)
  BY <1>1, LooseMore
<1>3. Loose(stream, submitted + 1, c.pkt)
  <2>1. \A q \in 1..Len(stream) : stream[q] # submitted + 1
    BY <1>1
  <2>. QED BY <1>1, <2>1 DEF Loose
<1>4. Side'
  <2>1. ASSUME NEW j \in 1..Len(unreliable')
        PROVE  ~OfTheStream(unreliable'[j]) /\ Loose(stream, submitted + 1, unreliable'[j].pkt)
    <3>1. unreliable'[j] = c \/ (j \in 1..Len(unreliable) /\ unreliable'[j] = unreliable[j])
      <4>1. \A b \in 1..Len(Append(unreliable, c)) :
                \/ Append(unreliable, c)[b] = c
                \/ b \in 1..Len(unreliable) /\ Append(unreliable, c)[b] = unreliable[b]
        BY <1>1
      <4>. QED BY <4>1
    <3>2. \A b \in 1..Len(unreliable) :
              ~OfTheStream(unreliable[b]) /\ Loose(stream, submitted, unreliable[b].pkt)
      BY DEF Held, Side
    <3>. QED BY <1>2, <1>3, <3>1, <3>2
  <2>. QED BY <2>1 DEF Side
<1>5. Way(f, top)'
  <2>1. \A d \in net : IF OfTheStream(d) THEN Aired(f, stream, top, d)
                                        ELSE Loose(stream, submitted, d.pkt)
    <3>1. Way(f, top)
      BY DEF Held
    <3>. QED BY <3>1, Zenon DEF Way
  <2>2. \A d \in net : IF OfTheStream(d) THEN Aired(f, stream, top, d)
                                        ELSE Loose(stream, submitted + 1, d.pkt)
    BY <1>2, <2>1, Zenon
  <2>3. net' = net /\ stream' = stream /\ submitted' = submitted + 1
    OBVIOUS
  <2>. QED BY <2>2, <2>3, Zenon DEF Way, Aired, Loose, HasPos
<1>6. Numbered(f)'
  <2>1. 1..submitted \subseteq 1 .. submitted + 1
    BY <1>1
  <2>. QED BY <2>1 DEF Held, Numbered
<1>7. (Line(f, top, m) /\ Told(f, top, k) /\ Reached(f, top, k) /\ Span(f, top, k))'
  BY DEF Held, Line, Told, Reached, Span
<1>8. Kept(f, k)'
  <2>1. \A d : Outstanding(d) <=> Outstanding(d)'
    BY DEF Outstanding
  <2>2. ASSUME NEW q, NEW i, IsPart(f, stream, q, i)
        PROVE  Outstanding(CommandOf(f, stream, q, i))' \/ Has(stream, k, in, q, i)
    <3>1. PICK d : d = CommandOf(f, stream, q, i)
      OBVIOUS
    <3>2. Outstanding(d) \/ Has(stream, k, in, q, i)
      BY <2>2, <3>1 DEF Held, Kept
    <3>3. stream' = stream
      OBVIOUS
    <3>. QED BY <2>1, <3>1, <3>2, <3>3
  <2>. QED BY <2>2 DEF Kept
<1>9. Receiver(f, stream, submitted, k, in)'
  BY <1>2
<1>10. InTurn(stream, submitted, k, delivered \o dispatched)'
  BY <1>2
<1>. QED BY <1>4, <1>5, <1>6, <1>7, <1>8, <1>9, <1>10 DEF Held

\* The commands of a new packet are those of its parts.
LEMMA NewCommandsAre ==
    ASSUME NEW f, NEW st, Known(f, st), numbers.reliable = NumOf(Newest(f, st)),
           NEW g, NEW u, NEW p, NEW a, Longer(f, st, g, u, p, a), NEW i \in 1..a
    PROVE  NewCommands(p, a)[i] = [tried |-> FALSE, cmd |-> CommandOf(g, u, Len(st) + 1, i)]
<1>1. /\ a \in {1, 2} /\ Parts(g, Len(st) + 1) = a /\ u[Len(st) + 1] = p
      /\ g[Len(st) + 1] = Newest(f, st) + 1 /\ Newest(f, st) \in Nat
      /\ Pos(g, Len(st) + 1, i) = Newest(f, st) + i
  BY LongerFacts, LongerParts
<1>2. PICK x \in Nat : x = Newest(f, st)
  BY <1>1
<1>3. (numbers.reliable + i) % Numbers = NumOf(Pos(g, Len(st) + 1, i))
  <2>1. i \in Nat
    BY <1>1
  <2>. QED BY <1>1, <1>2, <2>1, NextNum
<1>4. Next16(numbers.reliable) = NumOf(g[Len(st) + 1])
  <2>1. (NumOf(x) + 1) % Numbers = NumOf(x + 1)
    BY NextNum
  <2>. QED BY <1>1, <1>2, <2>1 DEF Next16
<1>5. NewCommands(p, a)[i] =
          [tried |-> FALSE,
           cmd |-> Command(IF a = 1 THEN "RELIABLE" ELSE "FRAGMENT",
                           (numbers.reliable + i) % Numbers, 0, Next16(numbers.reliable), i, p)]
  BY DEF NewCommands
<1>. QED BY <1>1, <1>3, <1>4, <1>5 DEF CommandOf

LEMMA NewParts ==
    ASSUME NEW f, NEW st, Known(f, st), NEW g, NEW u, NEW p, NEW a, Longer(f, st, g, u, p, a)
    PROVE  \A i \in 1..a : /\ IsPart(g, u, Len(st) + 1, i)
                           /\ Pos(g, Len(st) + 1, i) = Newest(f, st) + i
<1>1. TAKE i \in 1..a
<1>. QED BY LongerParts

\* A reliable packet is given.
LEMMA HeldSetup ==
    ASSUME NEW n \in Nat, SenderTypes(n), ReceiverTypes(n),
           NEW f, NEW top, NEW m, NEW k, Held(f, top, m, k), NEW a \in {1, 2},
           submitted' = submitted + 1, submitted + 1 \in 1..n,
           outgoing' = outgoing \o NewCommands(submitted + 1, a),
           numbers'.reliable = (numbers.reliable + a) % Numbers,
           stream' = Append(stream, submitted + 1),
           UNCHANGED <<unreliable, sent, net, acks, in, dispatched, delivered>>
    PROVE  \E g : Held(g, top, m, k)'
<1>1. /\ submitted \in Nat /\ stream \in Seq(1..n) /\ outgoing \in Seq(Out(n)) /\ sent \in Seq(Cmd(n))
      /\ Len(outgoing) \in Nat /\ Len(sent) \in Nat /\ in \in Chan(n) /\ Len(stream) \in Nat
      /\ numbers.reliable \in 0..Numbers - 1
  BY SMTT(30) DEF SenderTypes, ReceiverTypes
<1>2. /\ Known(f, stream) /\ \A q \in 1..Len(stream) : stream[q] \in 1..submitted
      /\ numbers.reliable = NumOf(Newest(f, stream))
      /\ Receiver(f, stream, submitted, k, in) /\ Line(f, top, m) /\ top \in Nat
      /\ m \in 0..Len(outgoing) /\ k \in 0..Len(stream)
      /\ InTurn(stream, submitted, k, delivered \o dispatched)
  BY DEF Held, Numbered, Receiver, Line, Queue
<1>3. PICK p : p = submitted + 1
  OBVIOUS
<1>4. PICK u : u = Append(stream, p)
  OBVIOUS
<1>5. PICK g : g = [q \in 1 .. Len(stream) + 2 |->
                        IF q <= Len(stream) + 1 THEN f[q] ELSE f[Len(stream) + 1] + a]
  OBVIOUS
<1>6. Longer(f, stream, g, u, p, a) /\ Longer(f, stream, g, u, submitted + 1, a)
  <2>1. p \in Nat /\ \A q \in 1..Len(stream) : stream[q] < p
    <3>1. p \in Nat /\ \A x \in 1..submitted : x < p
      BY <1>1, <1>3
    <3>. QED BY <1>2, <3>1, Zenon
  <2>2. Longer(f, stream, g, u, p, a)
    BY <1>4, <1>5, <2>1, Zenon DEF Longer
  <2>. QED BY <1>3, <2>2
<1>7. /\ Known(g, u) /\ Newest(g, u) = Newest(f, stream) + a /\ Len(u) = Len(stream) + 1
      /\ \A q \in 1..Len(stream) : u[q] = stream[q]
      /\ u[Len(stream) + 1] = p /\ Newest(f, stream) \in Nat
  BY <1>2, <1>6, LongerFacts
<1>8. stream' = u /\ submitted' = p
  BY <1>3, <1>4
<1>9. \A c, x : HasPos(f, stream, c, x) => HasPos(g, u, c, x)
  BY <1>2, <1>6, LongerPos, Zenon
<1>10. \A c : Aired(f, stream, top, c) => Aired(g, u, top, c)
  BY <1>9, Zenon DEF Aired
<1>11. \A q : Loose(stream, submitted, q) => Loose(u, p, q)
  <2>1. \A q : Loose(stream, submitted, q) => Loose(u, submitted + 1, q)
    BY <1>1, <1>2, <1>6, LongerLoose, Zenon
  <2>. QED BY <1>3, <2>1
<1>12. \A q, i : IsPart(f, stream, q, i) =>
           /\ IsPart(g, u, q, i) /\ q \in 1..Len(stream)
           /\ CommandOf(g, u, q, i) = CommandOf(f, stream, q, i) /\ Pos(g, q, i) = Pos(f, q, i)
  BY <1>2, <1>6, LongerParts
<1>13. \A q, i : IsPart(g, u, q, i) => IsPart(f, stream, q, i) \/ (q = Len(stream) + 1 /\ i \in 1..a)
  BY <1>2, <1>6, LongerParts
<1>14. \A q, i : /\ q \in 1..Len(stream) => (Has(u, k, in, q, i) <=> Has(stream, k, in, q, i))
                 /\ q = Len(stream) + 1 => ~Has(u, k, in, q, i)
  BY <1>1, <1>2, <1>6, LongerHas
<1>15. Receiver(g, u, p, k, in) /\ InTurn(u, p, k, delivered \o dispatched)
  <2>1. Receiver(g, u, submitted + 1, k, in)
    BY <1>1, <1>2, <1>6, LongerReceiver, Zenon
  <2>2. InTurn(u, submitted + 1, k, delivered \o dispatched)
    BY <1>1, <1>2, <1>6, TurnLonger, Zenon
  <2>. QED BY <1>3, <2>1, <2>2
<1>16. Numbered(g)'
  <2>1. numbers'.reliable = NumOf(Newest(g, u))
    <3>1. a \in Nat
      OBVIOUS
    <3>. QED BY <1>2, <1>7, <3>1, NextNum
  <2>2. \A q \in 1..Len(u) : u[q] \in 1..p
    <3>1. 1..submitted \subseteq 1..p /\ p \in 1..p
      BY <1>1, <1>3
    <3>2. ASSUME NEW q \in 1..Len(u) PROVE q \in 1..Len(stream) \/ q = Len(stream) + 1
      BY <1>1, <1>7
    <3>. QED BY <1>2, <1>7, <3>1, <3>2
  <2>. QED BY <1>7, <1>8, <2>1, <2>2 DEF Numbered
<1>17. PICK new : new = NewCommands(p, a)
  OBVIOUS
<1>18. /\ new \in Seq(Out(n)) /\ Len(new) = a /\ outgoing' = outgoing \o new
       /\ \A i \in 1..a : /\ ~new[i].tried /\ new[i].cmd = CommandOf(g, u, Len(stream) + 1, i)
                          /\ IsPart(g, u, Len(stream) + 1, i)
                          /\ Pos(g, Len(stream) + 1, i) = Newest(f, stream) + i
  <2>1. new \in Seq(Out(n)) /\ Len(new) = a
    BY <1>1, <1>3, <1>17, NewCommandsType
  <2>2. \A i \in 1..a : new[i] = [tried |-> FALSE, cmd |-> CommandOf(g, u, Len(stream) + 1, i)]
    BY <1>2, <1>6, <1>17, NewCommandsAre
  <2>3. \A i \in 1..a : /\ IsPart(g, u, Len(stream) + 1, i)
                        /\ Pos(g, Len(stream) + 1, i) = Newest(f, stream) + i
    BY <1>2, <1>6, NewParts
  <2>4. outgoing' = outgoing \o new
    BY <1>3, <1>17
  <2>5. \A i \in 1..a : ~new[i].tried /\ new[i].cmd = CommandOf(g, u, Len(stream) + 1, i)
    <3>1. TAKE i \in 1..a
    <3>2. PICK c : c = CommandOf(g, u, Len(stream) + 1, i)
      OBVIOUS
    <3>3. new[i] = [tried |-> FALSE, cmd |-> c]
      BY <2>2, <3>2
    <3>. QED BY <3>2, <3>3
  <2>. QED BY <2>1, <2>3, <2>4, <2>5
<1>19. IsJoin(Out(n), outgoing, new, outgoing')
  BY <1>1, <1>18, Joined
<1>20. Line(g, top, m)'
  <2>1. Len(outgoing') = Len(outgoing) + a /\ m \in 0..Len(outgoing')
    BY <1>1, <1>2, <1>18, <1>19 DEF IsJoin
  <2>2. top + (Len(outgoing) - m) = Newest(f, stream) /\ Start <= top
    BY <1>2 DEF Line
  <2>3. top + (Len(outgoing') - m) = Newest(g, u)
    <3>1. PICK x : x = Len(outgoing)
      OBVIOUS
    <3>2. PICK y : y = Len(outgoing')
      OBVIOUS
    <3>3. PICK z : z = Newest(f, stream)
      OBVIOUS
    <3>4. /\ x \in Nat /\ m \in 0..x /\ y = x + a /\ top \in Nat /\ z \in Nat
          /\ top + (x - m) = z /\ Newest(g, u) = z + a
      BY <1>1, <1>2, <1>7, <2>1, <2>2, <3>1, <3>2, <3>3
    <3>5. top + (y - m) = z + a
      BY <3>4
    <3>. QED BY <3>2, <3>4, <3>5
  <2>4. ASSUME NEW j \in 1..m
        PROVE  outgoing'[j].tried /\ Aired(g, u, top, outgoing'[j].cmd)
    <3>1. outgoing'[j] = outgoing[j]
      BY <1>1, <1>2, <1>19 DEF IsJoin
    <3>2. outgoing[j].tried /\ Aired(f, stream, top, outgoing[j].cmd)
      BY <1>2 DEF Line
    <3>. QED BY <1>10, <3>1, <3>2
  <2>5. ASSUME NEW j \in m + 1 .. Len(outgoing')
        PROVE  ~outgoing'[j].tried /\ HasPos(g, u, outgoing'[j].cmd, top + (j - m))
    <3>1. CASE j <= Len(outgoing)
      <4>1. j \in 1..Len(outgoing) /\ j \in m + 1 .. Len(outgoing)
        BY <1>1, <1>2, <3>1
      <4>2. outgoing'[j] = outgoing[j]
        BY <1>19, <4>1 DEF IsJoin
      <4>3. ~outgoing[j].tried /\ HasPos(f, stream, outgoing[j].cmd, top + (j - m))
        BY <1>2, <4>1 DEF Line
      <4>. QED BY <1>9, <4>2, <4>3
    <3>2. CASE j > Len(outgoing)
      <4>1. PICK i \in 1..a : j = Len(outgoing) + i
        <5>1. j - Len(outgoing) \in 1..a /\ j = Len(outgoing) + (j - Len(outgoing))
          BY <1>1, <1>2, <2>1, <3>2
        <5>. QED BY <5>1
      <4>2. outgoing'[j] = new[i]
        BY <1>18, <1>19, <4>1 DEF IsJoin
      <4>3. top + (j - m) = Pos(g, Len(stream) + 1, i)
        <5>1. Newest(f, stream) + i = top + (j - m)
          BY <1>1, <1>2, <1>7, <2>2, <4>1
        <5>. QED BY <1>18, <5>1
      <4>4. HasPos(g, u, new[i].cmd, top + (j - m))
        <5>1. Len(stream) + 1 \in 1..Len(u) /\ i \in {1, 2}
          BY <1>1, <1>7
        <5>. QED BY <1>18, <4>3, <5>1 DEF HasPos
      <4>. QED BY <1>18, <4>2, <4>4
    <3>. QED BY <1>1, <1>2, <2>1, <3>1, <3>2, SMTT(30)
  <2>6. \A j \in 1..Len(sent') : Aired(g, u, top, sent'[j])
    BY <1>2, <1>10 DEF Line
  <2>. QED BY <1>2, <1>8, <2>1, <2>2, <2>3, <2>4, <2>5, <2>6 DEF Line
<1>21. Side'
  BY <1>8, <1>11 DEF Held, Side
<1>22. Way(g, top)'
  <2>1. \A d \in net : IF OfTheStream(d) THEN Aired(f, stream, top, d)
                                        ELSE Loose(stream, submitted, d.pkt)
    <3>1. Way(f, top)
      BY DEF Held
    <3>. QED BY <3>1, Zenon DEF Way
  <2>2. \A d \in net : IF OfTheStream(d) THEN Aired(g, u, top, d) ELSE Loose(u, p, d.pkt)
    BY <1>10, <1>11, <2>1, Zenon
  <2>3. net' = net
    OBVIOUS
  <2>4. \A d \in net' : IF OfTheStream(d) THEN Aired(g, stream', top, d) ELSE Loose(stream', submitted', d.pkt)
    BY <1>8, <2>2, <2>3
  <2>. QED BY <2>4, Zenon DEF Way, Aired, Loose, HasPos
<1>23. Told(g, top, k)'
  <2>1. \A x \in acks : \E q, i :
            /\ IsPart(g, u, q, i) /\ x = NumOf(Pos(g, q, i))
            /\ Recent(top, Pos(g, q, i)) /\ Has(u, k, in, q, i)
    <3>1. TAKE x \in acks
    <3>2. PICK q, i : /\ IsPart(f, stream, q, i) /\ x = NumOf(Pos(f, q, i))
                      /\ Recent(top, Pos(f, q, i)) /\ Has(stream, k, in, q, i)
      BY DEF Held, Told
    <3>. QED BY <1>12, <1>14, <3>2
  <2>2. u = stream' /\ acks' = acks /\ in' = in
    BY <1>8
  <2>3. ASSUME NEW x \in acks'
        PROVE  \E q, i : /\ IsPart(g, stream', q, i) /\ x = NumOf(Pos(g, q, i))
                         /\ Recent(top, Pos(g, q, i)) /\ Has(stream', k, in', q, i)
    <3>1. x \in acks
      BY <2>2
    <3>2. PICK q, i : /\ IsPart(g, u, q, i) /\ x = NumOf(Pos(g, q, i))
                      /\ Recent(top, Pos(g, q, i)) /\ Has(u, k, in, q, i)
      BY <2>1, <3>1, Zenon
    <3>3. IsPart(g, stream', q, i) /\ Has(stream', k, in', q, i)
      BY <2>2, <3>2
    <3>. QED BY <3>2, <3>3, Zenon
  <2>. QED BY <2>3, Zenon DEF Told
<1>24. Kept(g, k)'
  <2>1. \A c : Outstanding(c) => Outstanding(c)'
    <3>1. /\ \A j \in 1..Len(outgoing) : j \in 1..Len(outgoing') /\ outgoing'[j] = outgoing[j]
      BY <1>1, <1>18, <1>19 DEF IsJoin
    <3>. QED BY <3>1 DEF Outstanding
  <2>2. ASSUME NEW q, NEW i, IsPart(g, u, q, i)
        PROVE  Outstanding(CommandOf(g, u, q, i))' \/ Has(u, k, in, q, i)
    <3>1. PICK c : c = CommandOf(g, u, q, i)
      OBVIOUS
    <3>2. CASE IsPart(f, stream, q, i)
      <4>1. c = CommandOf(f, stream, q, i) /\ q \in 1..Len(stream)
        BY <1>12, <3>1, <3>2
      <4>2. Outstanding(c) \/ Has(stream, k, in, q, i)
        BY <3>2, <4>1 DEF Held, Kept
      <4>. QED BY <1>14, <2>1, <3>1, <4>1, <4>2
    <3>3. CASE q = Len(stream) + 1 /\ i \in 1..a
      <4>1. new[i].cmd = c
        BY <1>18, <3>1, <3>3
      <4>2. Len(outgoing) + i \in 1..Len(outgoing') /\ outgoing'[Len(outgoing) + i] = new[i]
        BY <1>1, <1>18, <1>19, <3>3 DEF IsJoin
      <4>3. Outstanding(c)'
        BY <4>1, <4>2 DEF Outstanding
      <4>. QED BY <3>1, <4>3
    <3>. QED BY <1>13, <2>2, <3>2, <3>3
  <2>. QED BY <1>8, <2>2 DEF Kept
<1>25. Reached(g, top, k)'
  <2>1. ASSUME NEW q, NEW i, IsPart(g, u, q, i), Has(u, k, in, q, i)
        PROVE  Pos(g, q, i) <= top
    <3>1. IsPart(f, stream, q, i)
      BY <1>13, <1>14, <2>1
    <3>. QED BY <1>12, <1>14, <2>1, <3>1 DEF Held, Reached
  <2>. QED BY <1>8, <2>1 DEF Reached
<1>26. Span(g, top, k)
  <2>1. Delivered(g, k) = Delivered(f, k)
    BY <1>2, <1>6, LongerDelivered, Zenon
  <2>. QED BY <2>1 DEF Held, Span
<1>. QED BY <1>8, <1>15, <1>16, <1>20, <1>21, <1>22, <1>23, <1>24, <1>25, <1>26 DEF Held, Span

LEMMA HeldSend ==
    ASSUME NEW n \in Nat, n = Len(script), SenderTypes(n), ReceiverTypes(n),
           NEW f, NEW top, NEW m, NEW k, Held(f, top, m, k), Send
    PROVE  \E g : Held(g, top, m, k)'
<1>1. PICK p : p = submitted + 1
  OBVIOUS
<1>2. /\ submitted' = p /\ p \in 1..n /\ submitted' = submitted + 1
      /\ UNCHANGED <<sent, net, acks, in, dispatched, delivered>>
  BY <1>1 DEF Send, SenderTypes, receiver
<1>3. \/ \E a \in {1, 2} : SetupReliable(submitted', a)
      \/ SetupUnsequenced(submitted')
      \/ SetupUnreliable(submitted')
  <2>1. 1 \in {1, 2} /\ 2 \in {1, 2}
    OBVIOUS
  <2>. QED BY <2>1, Zenon DEF Send
<1>4. numbers \in [reliable : 0..Numbers - 1, unreliable : 0..UnreliableLimit, group : Nat]
  BY DEF SenderTypes
<1>5. ASSUME NEW a \in {1, 2}, SetupReliable(submitted', a)
      PROVE  \E g : Held(g, top, m, k)'
  <2>1. /\ outgoing' = outgoing \o NewCommands(submitted', a)
        /\ numbers' = [numbers EXCEPT !.reliable = (numbers.reliable + a) % Numbers, !.unreliable = 0]
        /\ stream' = Append(stream, submitted') /\ unreliable' = unreliable
    BY <1>5, SetupFacts
  <2>2. outgoing' = outgoing \o NewCommands(submitted + 1, a) /\ stream' = Append(stream, submitted + 1)
    BY <1>2, <2>1
  <2>3. numbers'.reliable = (numbers.reliable + a) % Numbers
    <3>1. PICK x : x = (numbers.reliable + a) % Numbers
      OBVIOUS
    <3>2. numbers' = [numbers EXCEPT !.reliable = x, !.unreliable = 0]
      BY <2>1, <3>1
    <3>3. numbers'.reliable = x
      BY <1>4, <3>2
    <3>. QED BY <3>1, <3>3
  <2>4. UNCHANGED <<unreliable, sent, net, acks, in, dispatched, delivered>>
    BY <1>2, <2>1
  <2>5. submitted + 1 \in 1..n
    BY <1>1, <1>2
  <2>. QED BY <1>2, <2>2, <2>3, <2>4, <2>5, HeldSetup, Zenon
<1>6. ASSUME NEW c, unreliable' = Append(unreliable, c), ~OfTheStream(c), c.pkt = submitted + 1,
             numbers'.reliable = numbers.reliable, UNCHANGED <<outgoing, stream>>
      PROVE  \E g : Held(g, top, m, k)'
  <2>1. UNCHANGED <<stream, outgoing, sent, net, acks, in, dispatched, delivered>>
    BY <1>2, <1>6
  <2>2. Held(f, top, m, k)'
    BY <1>2, <1>6, <2>1, HeldBeside
  <2>. QED BY <2>2
<1>7. CASE SetupUnsequenced(submitted')
  <2>1. PICK c : c = Command("UNSEQUENCED", 0, numbers'.group, 0, 0, submitted')
    OBVIOUS
  <2>2. unreliable' = Append(unreliable, c) /\ UNCHANGED <<outgoing, stream>>
    BY <1>7, <2>1 DEF SetupUnsequenced
  <2>3. ~OfTheStream(c) /\ c.pkt = submitted + 1
    BY <1>2, <2>1 DEF OfTheStream, Command
  <2>4. numbers'.reliable = numbers.reliable
    <3>1. numbers' = [numbers EXCEPT !.group = (numbers.group + 1) % UnseqNumbers]
      BY <1>7 DEF SetupUnsequenced
    <3>2. PICK x : x = (numbers.group + 1) % UnseqNumbers
      OBVIOUS
    <3>3. numbers' = [numbers EXCEPT !.group = x]
      BY <3>1, <3>2
    <3>. QED BY <1>4, <3>3
  <2>. QED BY <1>6, <2>2, <2>3, <2>4
<1>8. CASE SetupUnreliable(submitted')
  <2>1. PICK c : c = Command("UNRELIABLE", numbers.reliable, numbers.unreliable + 1, 0, 0, submitted')
    OBVIOUS
  <2>2. unreliable' = Append(unreliable, c) /\ UNCHANGED <<outgoing, stream>>
    BY <1>8, <2>1 DEF SetupUnreliable
  <2>3. ~OfTheStream(c) /\ c.pkt = submitted + 1
    BY <1>2, <2>1 DEF OfTheStream, Command
  <2>4. numbers'.reliable = numbers.reliable
    BY <1>4, <1>8 DEF SetupUnreliable
  <2>. QED BY <1>6, <2>2, <2>3, <2>4
<1>. QED BY <1>3, <1>5, <1>7, <1>8

LEMMA StreamKept ==
    ASSUME Types, Counters(Len(script)), StreamInv, [Next]_vars
    PROVE  StreamInv'
<1>1. PICK n \in Nat : n = Len(script)
  BY ScriptLen DEF Types
<1>2. SenderTypes(n) /\ NetTypes(n) /\ ReceiverTypes(n) /\ Counters(n)
  BY <1>1, Zenon DEF Types
<1>3. PICK f, top, m, k : Held(f, top, m, k)
  BY Zenon DEF StreamInv
<1>4. CASE Send
  <2>1. \E g : Held(g, top, m, k)'
    BY <1>1, <1>2, <1>3, <1>4, HeldSend
  <2>. QED BY <2>1, Zenon DEF StreamInv
<1>5. CASE SendReliable
  <2>1. \E u, p : Held(f, u, p, k)'
    BY <1>2, <1>3, <1>5, HeldSendReliable
  <2>. QED BY <2>1, Zenon DEF StreamInv
<1>6. CASE SendUnreliable
  <2>1. Held(f, top, m, k)'
    BY <1>2, <1>3, <1>6, HeldSendUnreliable
  <2>. QED BY <2>1, Zenon DEF StreamInv
<1>7. CASE CheckTimeouts
  <2>1. \E p : Held(f, top, p, k)'
    BY <1>2, <1>3, <1>7, HeldCheckTimeouts
  <2>. QED BY <2>1, Zenon DEF StreamInv
<1>8. CASE Receive
  <2>1. Held(f, top, m, k)'
    BY <1>2, <1>3, <1>8, HeldReceive
  <2>. QED BY <2>1, Zenon DEF StreamInv
<1>9. ASSUME NEW x \in acks, HandleAcknowledge(x)
      PROVE  StreamInv'
  <2>1. \E p : Held(f, top, p, k)'
    BY <1>2, <1>3, <1>9, HeldHandleAcknowledge
  <2>. QED BY <2>1, Zenon DEF StreamInv
<1>10. ASSUME NEW c \in net, HandleCommand(c)
       PROVE  StreamInv'
  <2>1. \E j : Held(f, top, m, j)'
    BY <1>2, <1>3, <1>10, HeldHandleCommand
  <2>. QED BY <2>1, Zenon DEF StreamInv
<1>11. CASE UNCHANGED vars
  <2>1. Held(f, top, m, k)'
    <3>1. UNCHANGED <<submitted, stream, numbers, outgoing, sent, unreliable, net, acks, in, dispatched, delivered>>
      BY <1>11 DEF vars, sender, receiver
    <3>2. (Numbered(f) /\ Line(f, top, m) /\ Side /\ Told(f, top, k) /\ Reached(f, top, k))'
      BY <1>3, <3>1 DEF Held, Numbered, Line, Side, Told, Reached
    <3>3. Way(f, top)'
      BY <1>3, <3>1 DEF Held, Way
    <3>4. Kept(f, k)'
      BY <1>3, <3>1 DEF Held, Kept, Outstanding
    <3>5. /\ (Span(f, top, k) /\ Receiver(f, stream, submitted, k, in))'
          /\ InTurn(stream, submitted, k, delivered \o dispatched)'
      BY <1>3, <3>1 DEF Held, Span
    <3>. QED BY <3>2, <3>3, <3>4, <3>5 DEF Held
  <2>. QED BY <2>1, Zenon DEF StreamInv
<1>. QED BY <1>4, <1>5, <1>6, <1>7, <1>8, <1>9, <1>10, <1>11, Zenon DEF Next

-----------------------------------------------------------------------------
(***************************************************************************)
(* ENetChannel implements KcpStream.                                       *)
(***************************************************************************)
\* A command of the packet p was not acknowledged.
PacketOut(p) ==
    \/ \E j \in 1..Len(sent) : sent[j].pkt = p
    \/ \E j \in 1..Len(outgoing) : outgoing[j].cmd.pkt = p

LEMMA ForgottenAre ==
    ASSUME NEW n, SenderTypes(n)
    PROVE  \A q \in 1..Len(stream) : q \in Forgotten <=> ~PacketOut(stream[q])
<1>1. /\ DOMAIN stream = 1..Len(stream) /\ DOMAIN outgoing = 1..Len(outgoing)
      /\ DOMAIN sent = 1..Len(sent)
  BY SeqFacts DEF SenderTypes
<1>2. \A p : CommandsOf(p) = {} <=> ~PacketOut(p)
  BY <1>1 DEF CommandsOf, PacketOut
<1> QED
  BY <1>1, <1>2, Zenon DEF Forgotten

LEMMA ForgottenBegins ==
    ASSUME NEW n, SenderTypes(n)
    PROVE  /\ Len(stream) \in Nat /\ ForgottenUpTo \in 0..Len(stream)
           /\ \A q \in 1..ForgottenUpTo : ~PacketOut(stream[q])
           /\ ForgottenUpTo < Len(stream) => PacketOut(stream[ForgottenUpTo + 1])
<1>1. Len(stream) \in Nat
  BY SeqFacts DEF SenderTypes
<1> DEFINE u == Max({j \in 0..Len(stream) : \A i \in 1..j : i \in Forgotten})
<1>2. ForgottenUpTo = u
  BY DEF ForgottenUpTo
<1>3. u \in 0..Len(stream) /\ (\A i \in 1..u : i \in Forgotten)
      /\ (u < Len(stream) => u + 1 \notin Forgotten)
  BY <1>1, Beginning
<1> HIDE DEF u
<1>4. \A i \in 1..u : i \in 1..Len(stream)
  BY <1>1, <1>3
<1>5. u < Len(stream) => u + 1 \in 1..Len(stream)
  BY <1>1, <1>3
<1>6. \A q \in 1..u : ~PacketOut(stream[q])
  BY <1>3, <1>4, ForgottenAre, Zenon
<1>7. u < Len(stream) => PacketOut(stream[u + 1])
  BY <1>3, <1>5, ForgottenAre, Zenon
<1> QED
  BY <1>1, <1>2, <1>3, <1>6, <1>7

\* A packet none of whose commands is outstanding has arrived, and so have
\* the ones before it if they have none either.
LEMMA ForgottenArrived ==
    ASSUME NEW n \in Nat, SenderTypes(n), ReceiverTypes(n),
           NEW f, NEW top, NEW m, NEW k, Held(f, top, m, k), NEW u \in 0..Len(stream),
           \A q \in 1..u : ~PacketOut(stream[q])
    PROVE  u <= k
<1>1. Known(f, stream) /\ k \in 0..Len(stream) /\ in.rseq = NumOf(Delivered(f, k)) /\ Blocked(in)
      /\ Len(stream) \in Nat
  <2>1. Known(f, stream)
    BY DEF Held, Numbered
  <2> QED
    BY <2>1, SeqFacts DEF Held, Receiver, Queue, Known
<1> SUFFICES ASSUME k < u PROVE FALSE
  BY <1>1
<1> DEFINE q == k + 1
<1>2. q \in 1..u /\ q \in 1..Len(stream) /\ ~(q <= k) /\ k \in Nat
  BY <1>1
<1> HIDE DEF q
<1>3. ~PacketOut(stream[q])
  BY <1>2
<1>4. \A i : IsPart(f, stream, q, i) => ~Outstanding(CommandOf(f, stream, q, i))
  <2> SUFFICES ASSUME NEW i, Outstanding(CommandOf(f, stream, q, i)) PROVE PacketOut(stream[q])
    BY <1>3
  <2>1. CommandOf(f, stream, q, i).pkt = stream[q]
    BY CommandFields
  <2> QED
    BY <2>1 DEF Outstanding, PacketOut
<1>5. \A i : IsPart(f, stream, q, i) => Has(stream, k, in, q, i)
  BY <1>4 DEF Held, Kept
<1>6. PICK g : Slots(f, stream, k, in.reliable, g)
  BY DEF Held, Receiver, Queue
<1>7. in \in Chan(n)
  BY DEF ReceiverTypes
<1>8. PICK l \in Nat : l = Len(in.reliable)
  BY <1>7, ChanFacts
<1>9. \A i : IsPart(f, stream, q, i) =>
          \E j \in 1..l : in.reliable[j].pkt = stream[q] /\ (in.reliable[j].count = 0 \/ i \in in.reliable[j].got)
  BY <1>2, <1>5, <1>8, Zenon DEF Has
<1>10. \A j \in 1..l : in.reliable[j].pkt = stream[q] => j = 1
  <2> SUFFICES ASSUME NEW j \in 1..l, in.reliable[j].pkt = stream[q], j # 1 PROVE FALSE
    OBVIOUS
  <2>1. 1 \in 1..l /\ 1 < j
    BY <1>8
  <2>2. g[j] = q /\ g[1] < g[j]
    BY <1>1, <1>2, <1>6, <1>8, <2>1, SlotFacts
  <2>3. k < g[1] /\ g[1] \in 1..Len(stream)
    BY <1>1, <1>6, <1>8, <2>1, SlotFacts
  <2> QED
    BY <1>1, <1>2, <2>2, <2>3 DEF q
<1>11. Parts(f, q) \in {1, 2} /\ IsPart(f, stream, q, 1) /\ (Parts(f, q) = 2 => IsPart(f, stream, q, 2))
  <2>1. Parts(f, q) \in {1, 2}
    BY <1>1, <1>2, FirstsFacts DEF Known
  <2> QED
    BY <1>2, <2>1 DEF IsPart
<1>12. /\ 1 \in 1..l /\ in.reliable[1].pkt = stream[q]
       /\ in.reliable[1].count = 0 \/ 1 \in in.reliable[1].got
       /\ Parts(f, q) = 2 => in.reliable[1].count = 0 \/ 2 \in in.reliable[1].got
  BY <1>9, <1>10, <1>11, Zenon
<1>13. EntryOf(f, stream, in.reliable[1], q)
  <2>1. g[1] = q
    BY <1>1, <1>2, <1>6, <1>8, <1>12, SlotFacts
  <2>2. EntryOf(f, stream, in.reliable[1], g[1])
    BY <1>1, <1>6, <1>8, <1>12, SlotFacts
  <2> QED
    BY <2>1, <2>2, Zenon
<1>14. Complete(in.reliable[1])
  <2>1. CASE Parts(f, q) = 1
    BY <1>13, <2>1 DEF EntryOf, Complete
  <2>2. CASE Parts(f, q) = 2
    <3>1. in.reliable[1].count = 2
      BY <1>13, <2>2 DEF EntryOf
    <3>2. in.reliable[1].got = {1, 2}
      BY <1>12, <1>13, <2>2, <3>1 DEF EntryOf
    <3>3. Cardinality(1..2) = 2
      <4>1. 1 \in Int /\ 2 \in Int /\ (IF 1 > 2 THEN 0 ELSE (2 - 1) + 1) = 2
        OBVIOUS
      <4> QED
        BY <4>1, FS_Interval
    <3>4. 1..2 = {1, 2}
      OBVIOUS
    <3> QED
      BY <3>1, <3>2, <3>3, <3>4 DEF Complete
  <2> QED
    BY <1>11, <2>1, <2>2
<1>15. in.reliable[1].rseq = Next16(in.rseq)
  <2>1. in.reliable[1].rseq = NumOf(f[q])
    BY <1>13 DEF EntryOf
  <2>2. Next16(NumOf(Delivered(f, k))) = NumOf(f[k + 1])
    BY <1>1, NextOfDelivered
  <2> QED
    BY <1>1, <2>1, <2>2 DEF q
<1> QED
  BY <1>1, <1>8, <1>12, <1>14, <1>15 DEF Blocked, Continues

LEMMA ReliableIs ==
    ASSUME NEW S, NEW s \in Seq(S), stream \in Seq(Nat)
    PROVE  Reliable(s) = Count(s, OfStream(stream))
<1>1. \A x : Contains(stream, x) <=> x \in OfStream(stream)
  BY DEF Contains, OfStream
<1> QED
  BY <1>1 DEF Reliable, Count, Places

\* The fragments of KcpStream are packets: all of them given, those the sender
\* has forgotten, and at the receiver those that arrived and that were taken.
LEMMA StreamNumbers ==
    ASSUME NEW n \in Nat, SenderTypes(n), ReceiverTypes(n),
           NEW f, NEW top, NEW m, NEW k, Held(f, top, m, k)
    PROVE  /\ Len(stream) \in Nat /\ k \in 0..Len(stream)
           /\ Reliable(delivered \o dispatched) = k
           /\ Reliable(delivered) \in 0..k /\ ForgottenUpTo \in 0..k
<1>1. Known(f, stream) /\ k \in 0..Len(stream) /\ Len(stream) \in Nat /\ stream \in Seq(Nat)
      /\ InTurn(stream, submitted, k, delivered \o dispatched)
  <2>1. Known(f, stream)
    BY DEF Held, Numbered
  <2> QED
    BY <2>1, SeqFacts DEF Held, Receiver, Queue, Known
<1>2. delivered \in Seq(1..n) /\ dispatched \in Seq(1..n)
  BY DEF ReceiverTypes
<1>3. IsJoin(1..n, delivered, dispatched, delivered \o dispatched)
      /\ delivered \o dispatched \in Seq(1..n)
  BY <1>2, Joined DEF IsJoin
<1>4. Reliable(delivered \o dispatched) = k
  <2>1. Count(delivered \o dispatched, OfStream(stream)) = k
    BY <1>1, <1>3, TurnCount, Zenon
  <2> QED
    BY <1>1, <1>3, <2>1, ReliableIs
<1>5. Reliable(delivered) \in 0..k
  <2>1. PICK a \in Nat : a = Count(delivered, OfStream(stream))
    BY <1>2, PlacesFinite
  <2>2. PICK b \in Nat : b = Count(dispatched, OfStream(stream))
    BY <1>2, PlacesFinite
  <2>3. Count(delivered \o dispatched, OfStream(stream)) = a + b
    BY <1>2, <1>3, <2>1, <2>2, CountJoin
  <2>4. Reliable(delivered) = a /\ Reliable(delivered \o dispatched) = a + b
    BY <1>1, <1>2, <1>3, <2>1, <2>3, ReliableIs
  <2> QED
    BY <1>4, <2>4
<1>6. ForgottenUpTo \in 0..k
  <2>1. PICK u \in 0..Len(stream) : u = ForgottenUpTo /\ \A q \in 1..u : ~PacketOut(stream[q])
    BY ForgottenBegins
  <2>2. u <= k
    BY <2>1, ForgottenArrived
  <2> QED
    BY <1>1, <2>1, <2>2
<1> QED
  BY <1>1, <1>4, <1>5, <1>6

SndBar == Client(Len(stream))
UnaBar == Client(ForgottenUpTo)
RcvBar == Server(Reliable(delivered \o dispatched))
ReadBar == Server(Reliable(delivered))
Bars(s, u, r, d) == SndBar = Client(s) /\ UnaBar = Client(u) /\ RcvBar = Server(r) /\ ReadBar = Server(d)

LEMMA Sides ==
    ASSUME NEW a, NEW b
    PROVE  /\ Client(a)["client"] = a /\ Client(a)["server"] = 0
           /\ Server(a)["server"] = a /\ Server(a)["client"] = 0
           /\ [Client(a) EXCEPT !["client"] = b] = Client(b)
           /\ [Client(a) EXCEPT !["server"] = 0] = Client(a)
           /\ [Server(a) EXCEPT !["server"] = b] = Server(b)
           /\ [Server(a) EXCEPT !["client"] = 0] = Server(a)
BY DEF Client, Server

LEMMA StreamEnds ==
    /\ "client" \in Stream!Ends /\ "server" \in Stream!Ends
    /\ Stream!Peer["client"] = "server" /\ Stream!Peer["server"] = "client"
BY DEF Stream!Ends, Stream!Peer

LEMMA BarsSame ==
    ASSUME NEW s, NEW u, NEW r, NEW d, Bars(s, u, r, d), Bars(s, u, r, d)'
    PROVE  UNCHANGED Stream!streamVars
<1>1. SndBar' = SndBar /\ UnaBar' = UnaBar /\ RcvBar' = RcvBar /\ ReadBar' = ReadBar
  BY DEF Bars
<1> QED
  BY <1>1 DEF Stream!streamVars, SndBar, UnaBar, RcvBar, ReadBar

LEMMA BarsGive ==
    ASSUME NEW s \in Nat, NEW u, NEW r, NEW d, Bars(s, u, r, d), Bars(s + 1, u, r, d)'
    PROVE  Stream!StreamNext
<1>1. SndBar = Client(s) /\ SndBar' = Client(s + 1)
      /\ UnaBar' = UnaBar /\ RcvBar' = RcvBar /\ ReadBar' = ReadBar
  BY DEF Bars
<1>2. SndBar'["client"] = s + 1 /\ SndBar["client"] = s
      /\ SndBar' = [SndBar EXCEPT !["client"] = SndBar'["client"]]
  <2>1. Client(s + 1)["client"] = s + 1 /\ Client(s)["client"] = s
        /\ [Client(s) EXCEPT !["client"] = s + 1] = Client(s + 1)
    BY Sides, ZenonT(40)
  <2> QED
    BY <1>1, <2>1, Zenon
<1>3. SndBar'["client"] \in Nat /\ SndBar'["client"] > SndBar["client"]
  BY <1>2
<1>4. Stream!Give("client")
  BY <1>1, <1>2, <1>3, Zenon DEF Stream!Give, SndBar, UnaBar, RcvBar, ReadBar
<1> QED
  BY <1>4, StreamEnds, Zenon DEF Stream!StreamNext

LEMMA BarsForget ==
    ASSUME NEW s, NEW u, NEW r, NEW d, NEW v \in u..r, Bars(s, u, r, d), Bars(s, v, r, d)'
    PROVE  Stream!StreamNext
<1>1. SndBar = Client(s) /\ UnaBar = Client(u) /\ UnaBar' = Client(v) /\ RcvBar = Server(r)
      /\ SndBar' = SndBar /\ RcvBar' = RcvBar /\ ReadBar' = ReadBar
  BY DEF Bars
<1>2. /\ RcvBar["client"] = 0 /\ SndBar["server"] = 0 /\ RcvBar' = [RcvBar EXCEPT !["client"] = 0]
      /\ UnaBar["client"] = u /\ RcvBar["server"] = r /\ UnaBar' = [UnaBar EXCEPT !["client"] = v]
  <2>1. /\ Server(r)["client"] = 0 /\ Client(s)["server"] = 0 /\ Server(r) = [Server(r) EXCEPT !["client"] = 0]
        /\ Client(u)["client"] = u /\ Server(r)["server"] = r /\ Client(v) = [Client(u) EXCEPT !["client"] = v]
    BY Sides
  <2> QED
    BY <1>1, <2>1, Zenon
<1>3. 0 \in 0..0
  OBVIOUS
<1>4. Stream!Progress("client")
  <2>1. \E x \in RcvBar["client"]..SndBar["server"] : RcvBar' = [RcvBar EXCEPT !["client"] = x]
    BY <1>2, <1>3, Zenon
  <2>2. \E x \in UnaBar["client"]..RcvBar["server"] : UnaBar' = [UnaBar EXCEPT !["client"] = x]
    BY <1>2, Zenon
  <2> QED
    BY <1>1, <2>1, <2>2, StreamEnds, Zenon DEF Stream!Progress, SndBar, UnaBar, RcvBar, ReadBar
<1> QED
  BY <1>4, StreamEnds, Zenon DEF Stream!StreamNext

LEMMA BarsArrive ==
    ASSUME NEW s, NEW u, NEW r, NEW d, NEW v \in r..s, Bars(s, u, r, d), Bars(s, u, v, d)'
    PROVE  Stream!StreamNext
<1>1. SndBar = Client(s) /\ UnaBar = Client(u) /\ RcvBar' = Server(v) /\ RcvBar = Server(r)
      /\ SndBar' = SndBar /\ UnaBar' = UnaBar /\ ReadBar' = ReadBar
  BY DEF Bars
<1>2. /\ RcvBar["server"] = r /\ SndBar["client"] = s /\ RcvBar' = [RcvBar EXCEPT !["server"] = v]
      /\ UnaBar["server"] = 0 /\ RcvBar["client"] = 0 /\ UnaBar' = [UnaBar EXCEPT !["server"] = 0]
  <2>1. /\ Server(r)["server"] = r /\ Client(s)["client"] = s /\ Server(v) = [Server(r) EXCEPT !["server"] = v]
        /\ Client(u)["server"] = 0 /\ Server(r)["client"] = 0 /\ Client(u) = [Client(u) EXCEPT !["server"] = 0]
    BY Sides
  <2> QED
    BY <1>1, <2>1, Zenon
<1>3. 0 \in 0..0
  OBVIOUS
<1>4. Stream!Progress("server")
  <2>1. \E x \in RcvBar["server"]..SndBar["client"] : RcvBar' = [RcvBar EXCEPT !["server"] = x]
    BY <1>2, Zenon
  <2>2. \E x \in UnaBar["server"]..RcvBar["client"] : UnaBar' = [UnaBar EXCEPT !["server"] = x]
    BY <1>2, <1>3, Zenon
  <2> QED
    BY <1>1, <2>1, <2>2, StreamEnds, Zenon DEF Stream!Progress, SndBar, UnaBar, RcvBar, ReadBar
<1> QED
  BY <1>4, StreamEnds, Zenon DEF Stream!StreamNext

LEMMA BarsTake ==
    ASSUME NEW s, NEW u, NEW r, NEW d, NEW v \in d + 1 .. r, Bars(s, u, r, d), Bars(s, u, r, v)'
    PROVE  Stream!StreamNext
<1>1. ReadBar = Server(d) /\ ReadBar' = Server(v) /\ RcvBar = Server(r)
      /\ SndBar' = SndBar /\ UnaBar' = UnaBar /\ RcvBar' = RcvBar
  BY DEF Bars
<1>2. ReadBar["server"] = d /\ RcvBar["server"] = r /\ ReadBar' = [ReadBar EXCEPT !["server"] = v]
  <2>1. Server(d)["server"] = d /\ Server(r)["server"] = r /\ Server(v) = [Server(d) EXCEPT !["server"] = v]
    BY Sides
  <2> QED
    BY <1>1, <2>1, Zenon
<1>3. \E x \in ReadBar["server"] + 1 .. RcvBar["server"] : ReadBar' = [ReadBar EXCEPT !["server"] = x]
  BY <1>2, Zenon
<1>4. Stream!Take("server")
  BY <1>1, <1>3, Zenon DEF Stream!Take, SndBar, UnaBar, RcvBar, ReadBar
<1> QED
  BY <1>4, StreamEnds, Zenon DEF Stream!StreamNext

\* What the steps need: s packets of the stream were given, the first u are
\* forgotten, r arrived, and d of these were taken.
Facts(s, u, r, d) ==
    /\ s \in Nat /\ r \in 0..s /\ u \in 0..r /\ d \in 0..r
    /\ Len(stream) = s /\ Bars(s, u, r, d)
    /\ \A q \in 1..u : ~PacketOut(stream[q])
    /\ u < s => PacketOut(stream[u + 1])
    /\ d = Count(delivered, OfStream(stream)) /\ r = d + Count(dispatched, OfStream(stream))
    /\ \A q \in 1..s : stream[q] # submitted + 1
    /\ \A i \in 1..Len(delivered) : delivered[i] # submitted + 1
    /\ \A i \in 1..Len(dispatched) : dispatched[i] # submitted + 1
StreamFacts == \E s, u, r, d : Facts(s, u, r, d)

LEMMA FactsHold ==
    ASSUME Types, StreamInv
    PROVE  StreamFacts
<1>1. PICK n \in Nat : n = Len(script) /\ SenderTypes(n) /\ ReceiverTypes(n)
  BY ScriptLen DEF Types
<1>2. PICK f, top, m, k : Held(f, top, m, k)
  BY DEF StreamInv
<1>3. PICK s : s = Len(stream)
  OBVIOUS
<1>4. PICK u : u = ForgottenUpTo
  OBVIOUS
<1>5. PICK d : d = Reliable(delivered)
  OBVIOUS
<1>6. /\ s \in Nat /\ k \in 0..s /\ Reliable(delivered \o dispatched) = k /\ d \in 0..k /\ u \in 0..k
  BY <1>1, <1>2, <1>3, <1>4, <1>5, StreamNumbers
<1>7. Bars(s, u, k, d)
  BY <1>3, <1>4, <1>5, <1>6 DEF Bars, SndBar, UnaBar, RcvBar, ReadBar
<1>8. (\A q \in 1..u : ~PacketOut(stream[q])) /\ (u < s => PacketOut(stream[u + 1]))
  BY <1>1, <1>3, <1>4, ForgottenBegins
<1>9. Known(f, stream) /\ stream \in Seq(Nat) /\ InTurn(stream, submitted, k, delivered \o dispatched)
      /\ \A q \in 1..s : stream[q] \in 1..submitted
  BY <1>2, <1>3 DEF Held, Numbered, Known
<1>10. delivered \in Seq(1..n) /\ dispatched \in Seq(1..n) /\ submitted \in Nat
  BY <1>1 DEF ReceiverTypes, SenderTypes
<1>11. IsJoin(1..n, delivered, dispatched, delivered \o dispatched)
  BY <1>10, Joined
<1>12. d = Count(delivered, OfStream(stream)) /\ k = d + Count(dispatched, OfStream(stream))
  <2>1. Count(delivered \o dispatched, OfStream(stream))
            = Count(delivered, OfStream(stream)) + Count(dispatched, OfStream(stream))
    BY <1>10, <1>11, CountJoin
  <2>2. Reliable(delivered) = Count(delivered, OfStream(stream))
        /\ Reliable(delivered \o dispatched) = Count(delivered \o dispatched, OfStream(stream))
    BY <1>9, <1>10, <1>11, ReliableIs DEF IsJoin
  <2> QED
    BY <1>5, <1>6, <2>1, <2>2
<1>13. \A i \in 1..Len(delivered \o dispatched) : (delivered \o dispatched)[i] \in 1..submitted
  <2>1. PICK h : TurnsAt(stream, submitted, k, delivered \o dispatched, h)
    BY <1>9 DEF InTurn
  <2>2. \A q \in 1..k : q \in 1..s
    BY <1>6
  <2> QED
    BY <1>9, <2>1, <2>2, Zenon DEF TurnsAt, Loose
<1>14. PICK a \in Nat, b \in Nat : a = Len(delivered) /\ b = Len(dispatched)
  BY <1>10, SeqFacts
<1>15. \A i \in 1..a : delivered[i] \in 1..submitted
  <2>1. \A i \in 1..a : i \in 1..a + b
    BY <1>14
  <2> QED
    BY <1>11, <1>13, <1>14, <2>1 DEF IsJoin
<1>16. \A i \in 1..b : dispatched[i] \in 1..submitted
  <2>1. \A i \in 1..b : a + i \in 1..a + b
    BY <1>14
  <2> QED
    BY <1>11, <1>13, <1>14, <2>1 DEF IsJoin
<1>17. submitted + 1 \notin 1..submitted
  BY <1>10
<1>18. /\ \A q \in 1..s : stream[q] # submitted + 1
       /\ \A i \in 1..Len(delivered) : delivered[i] # submitted + 1
       /\ \A i \in 1..Len(dispatched) : dispatched[i] # submitted + 1
  BY <1>9, <1>14, <1>15, <1>16, <1>17, Zenon
<1> QED
  BY <1>3, <1>6, <1>7, <1>8, <1>12, <1>18, Zenon DEF StreamFacts, Facts

\* A step that leaves the packets as they are, but for a new one z.
OnlyOut(s, t, z) ==
    /\ t \in {s, s + 1} /\ \A q \in 1..s : stream'[q] = stream[q] /\ stream[q] # z
    /\ t = s + 1 => PacketOut(stream[t])'
    /\ \A p : p # z => (PacketOut(p)' <=> PacketOut(p))

LEMMA SameCount ==
    ASSUME NEW S, NEW s \in Seq(S), NEW P, NEW Q, \A i \in 1..Len(s) : s[i] \in P <=> s[i] \in Q
    PROVE  Count(s, P) = Count(s, Q)
<1>1. DOMAIN s = 1..Len(s)
  BY SeqFacts
<1> QED
  BY <1>1 DEF Count, Places

\* What is forgotten depends on the packets that are outstanding.
LEMMA ForgottenStays ==
    ASSUME NEW s, NEW u, NEW r, NEW d, Facts(s, u, r, d),
           NEW t, NEW v, NEW x, NEW e, Facts(t, v, x, e)',
           NEW z, OnlyOut(s, t, z)
    PROVE  v = u
<1> USE DEF OnlyOut
<1>1. /\ s \in Nat /\ u \in 0..s /\ \A q \in 1..u : ~PacketOut(stream[q])
      /\ u < s => PacketOut(stream[u + 1])
  BY DEF Facts
<1>2. /\ t \in Nat /\ v \in 0..t /\ \A q \in 1..v : ~PacketOut(stream[q])'
      /\ v < t => PacketOut(stream[v + 1])'
  BY DEF Facts
<1>3. \A q \in 1..s : PacketOut(stream[q])' <=> PacketOut(stream[q])
  <2> SUFFICES ASSUME NEW q \in 1..s PROVE PacketOut(stream[q])' <=> PacketOut(stream[q])
    OBVIOUS
  <2>1. PICK p : p = stream[q]
    OBVIOUS
  <2>2. p # z /\ stream'[q] = p
    BY <2>1
  <2>3. PacketOut(stream[q])' <=> PacketOut(p)'
    BY <2>2 DEF PacketOut
  <2> QED
    BY <2>1, <2>2, <2>3
<1>4. v <= s
  <2> SUFFICES ASSUME v > s PROVE FALSE
    BY <1>1, <1>2
  <2>1. t = s + 1 /\ t \in 1..v
    BY <1>1, <1>2
  <2> QED
    BY <1>2, <2>1
<1>5. ~(u < v)
  <2> SUFFICES ASSUME u < v PROVE FALSE
    OBVIOUS
  <2>1. PICK q \in Nat : q = u + 1
    BY <1>1
  <2>2. q \in 1..s /\ q \in 1..v /\ u < s
    BY <1>1, <1>2, <1>4, <2>1
  <2>3. PacketOut(stream[q]) /\ ~PacketOut(stream[q])'
    BY <1>1, <1>2, <2>1, <2>2
  <2> QED
    BY <1>3, <2>2, <2>3
<1>6. ~(v < u)
  <2> SUFFICES ASSUME v < u PROVE FALSE
    OBVIOUS
  <2>1. PICK q \in Nat : q = v + 1
    BY <1>2
  <2>2. q \in 1..s /\ q \in 1..u /\ v < t
    BY <1>1, <1>2, <2>1
  <2>3. ~PacketOut(stream[q]) /\ PacketOut(stream[q])'
    BY <1>1, <1>2, <2>1, <2>2
  <2> QED
    BY <1>3, <2>2, <2>3
<1> QED
  BY <1>1, <1>2, <1>5, <1>6

LEMMA ForgottenGrows ==
    ASSUME NEW s, NEW u, NEW r, NEW d, Facts(s, u, r, d),
           NEW v, NEW x, NEW e, Facts(s, v, x, e)', stream' = stream,
           \A p : PacketOut(p)' => PacketOut(p)
    PROVE  u <= v
<1>1. s \in Nat /\ u \in 0..s /\ \A q \in 1..u : ~PacketOut(stream[q])
  BY DEF Facts
<1>2. v \in 0..s /\ (v < s => PacketOut(stream[v + 1])')
  BY DEF Facts
<1> SUFFICES ASSUME v < u PROVE FALSE
  BY <1>1, <1>2
<1>3. v < s /\ v + 1 \in 1..u
  BY <1>1, <1>2
<1>4. PICK p : p = stream[v + 1]
  OBVIOUS
<1>5. PacketOut(p)' <=> PacketOut(stream[v + 1])'
  BY <1>4 DEF PacketOut
<1> QED
  BY <1>1, <1>2, <1>3, <1>4, <1>5

\* The commands of packet p, counted.
OutOf(n, p) == {o \in Out(n) : o.cmd.pkt = p}
SentOf(n, p) == {c \in Cmd(n) : c.pkt = p}
Commands(n, p) == Count(outgoing, OutOf(n, p)) + Count(sent, SentOf(n, p))

LEMMA SomeCounted ==
    ASSUME NEW n, NEW p, NEW o \in Seq(Out(n)), NEW c \in Seq(Cmd(n))
    PROVE  /\ Count(o, OutOf(n, p)) \in Nat /\ Count(c, SentOf(n, p)) \in Nat
           /\ (\E j \in 1..Len(o) : o[j].cmd.pkt = p) <=> Count(o, OutOf(n, p)) # 0
           /\ (\E j \in 1..Len(c) : c[j].pkt = p) <=> Count(c, SentOf(n, p)) # 0
<1>1. (\A j \in 1..Len(o) : o[j] \in Out(n)) /\ (\A j \in 1..Len(c) : c[j] \in Cmd(n))
  BY SeqFacts
<1>2. \A j \in 1..Len(o) : o[j] \in OutOf(n, p) <=> o[j].cmd.pkt = p
  BY <1>1, Zenon DEF OutOf
<1>3. \A j \in 1..Len(c) : c[j] \in SentOf(n, p) <=> c[j].pkt = p
  BY <1>1, Zenon DEF SentOf
<1>4. Count(o, OutOf(n, p)) = 0 <=> \A i \in 1..Len(o) : o[i] \notin OutOf(n, p)
  BY CountNone
<1>5. Count(c, SentOf(n, p)) = 0 <=> \A i \in 1..Len(c) : c[i] \notin SentOf(n, p)
  BY CountNone
<1>6. Count(o, OutOf(n, p)) \in Nat /\ Count(c, SentOf(n, p)) \in Nat
  BY PlacesFinite, Zenon
<1> QED
  BY <1>2, <1>3, <1>4, <1>5, <1>6, Zenon

LEMMA OutCounted ==
    ASSUME NEW n, SenderTypes(n), outgoing' \in Seq(Out(n)), sent' \in Seq(Cmd(n)), NEW p
    PROVE  /\ Commands(n, p) \in Nat /\ Commands(n, p)' \in Nat
           /\ PacketOut(p) <=> Commands(n, p) # 0
           /\ PacketOut(p)' <=> Commands(n, p)' # 0
<1>1. outgoing \in Seq(Out(n)) /\ sent \in Seq(Cmd(n))
  BY DEF SenderTypes
<1>2. PICK a \in Nat, b \in Nat : a = Count(outgoing, OutOf(n, p)) /\ b = Count(sent, SentOf(n, p))
  BY <1>1, SomeCounted, Zenon
<1>3. PICK c \in Nat, d \in Nat : c = Count(outgoing', OutOf(n, p)) /\ d = Count(sent', SentOf(n, p))
  BY SomeCounted, Zenon
<1>4. Commands(n, p) = a + b /\ Commands(n, p)' = c + d
  BY <1>2, <1>3 DEF Commands
<1>5. PacketOut(p) <=> b # 0 \/ a # 0
  BY <1>1, <1>2, SomeCounted DEF PacketOut
<1>6. PacketOut(p)' <=> d # 0 \/ c # 0
  BY <1>3, SomeCounted DEF PacketOut
<1> QED
  BY <1>4, <1>5, <1>6

\* A step that leaves the number of a packet's commands.
LEMMA CountedSendReliable ==
    ASSUME NEW n \in Nat, SenderTypes(n), SendReliable, NEW p
    PROVE  /\ outgoing' \in Seq(Out(n)) /\ sent' \in Seq(Cmd(n))
           /\ Commands(n, p)' = Commands(n, p)
<1>1. outgoing \in Seq(Out(n)) /\ sent \in Seq(Cmd(n))
  BY DEF SenderTypes
<1>2. PICK o \in Out(n) : o = Head(outgoing) /\ o = outgoing[1]
  BY <1>1, SendReliableFacts, HeadTail
<1>3. /\ outgoing # << >> /\ outgoing' = Tail(outgoing) /\ sent' = Append(sent, o.cmd)
      /\ o.cmd \in Cmd(n)
  BY <1>2, SendReliableFacts DEF Out
<1>4. outgoing' \in Seq(Out(n)) /\ sent' \in Seq(Cmd(n))
  BY <1>1, <1>3, HeadTail
<1>5. PICK x \in Nat : x = IF o.cmd.pkt = p THEN 1 ELSE 0
  OBVIOUS
<1>6. Count(outgoing, OutOf(n, p)) = x + Count(outgoing', OutOf(n, p))
  <2>1. Count(outgoing, OutOf(n, p)) =
            (IF o \in OutOf(n, p) THEN 1 ELSE 0) + Count(Tail(outgoing), OutOf(n, p))
    BY <1>1, <1>2, <1>3, CountTail
  <2>2. o \in OutOf(n, p) <=> o.cmd.pkt = p
    BY DEF OutOf
  <2> QED
    BY <1>3, <1>5, <2>1, <2>2
<1>7. Count(sent', SentOf(n, p)) = Count(sent, SentOf(n, p)) + x
  <2>1. Count(Append(sent, o.cmd), SentOf(n, p)) =
            Count(sent, SentOf(n, p)) + (IF o.cmd \in SentOf(n, p) THEN 1 ELSE 0)
    BY <1>1, <1>3, CountAppend
  <2>2. o.cmd \in SentOf(n, p) <=> o.cmd.pkt = p
    BY <1>3 DEF SentOf
  <2> QED
    BY <1>3, <1>5, <2>1, <2>2
<1>8. PICK a \in Nat, b \in Nat : a = Count(outgoing', OutOf(n, p)) /\ b = Count(sent, SentOf(n, p))
  BY <1>1, <1>4, SomeCounted, Zenon
<1>9. Commands(n, p) = (x + a) + b /\ Commands(n, p)' = a + (b + x)
  BY <1>6, <1>7, <1>8 DEF Commands
<1> QED
  BY <1>4, <1>9

LEMMA CountedCheckTimeouts ==
    ASSUME NEW n \in Nat, SenderTypes(n), CheckTimeouts, NEW p
    PROVE  /\ outgoing' \in Seq(Out(n)) /\ sent' \in Seq(Cmd(n))
           /\ Commands(n, p)' = Commands(n, p)
<1>1. outgoing \in Seq(Out(n)) /\ sent \in Seq(Cmd(n))
  BY DEF SenderTypes
<1>2. PICK a \in Nat, b \in Nat : a = Count(outgoing, OutOf(n, p)) /\ b = Count(sent, SentOf(n, p))
  BY <1>1, SomeCounted, Zenon
<1>3. CASE outgoing' = Retried(sent) \o outgoing /\ sent' = << >>
  <2>1. PICK t \in Seq(Out(n)) : t = Retried(sent) /\ Len(t) = Len(sent)
                 /\ \A i \in 1..Len(sent) : t[i].cmd = sent[i] /\ t[i] \in Out(n)
    <3>1. /\ Retried(sent) \in Seq(Out(n)) /\ Len(Retried(sent)) = Len(sent)
          /\ \A i \in 1..Len(sent) : Retried(sent)[i].tried = TRUE /\ Retried(sent)[i].cmd = sent[i]
      BY <1>1, RetriedFacts
    <3>2. \A i \in 1..Len(sent) : Retried(sent)[i] \in Out(n)
      BY <3>1, SeqFacts, Zenon
    <3>. QED BY <3>1, <3>2, Zenon
  <2>2. IsJoin(Out(n), t, outgoing, outgoing')
    BY <1>1, <1>3, <2>1, Joined
  <2>3. \A i \in 1..Len(t) : t[i] \in OutOf(n, p) <=> sent[i] \in SentOf(n, p)
    <3>1. \A i \in 1..Len(sent) : sent[i] \in Cmd(n)
      BY <1>1, SeqFacts
    <3>. QED BY <2>1, <3>1 DEF OutOf, SentOf
  <2>4. Count(t, OutOf(n, p)) = Count(sent, SentOf(n, p))
    BY <1>1, <2>1, <2>3, CountSame
  <2>5. Count(outgoing', OutOf(n, p)) = Count(t, OutOf(n, p)) + Count(outgoing, OutOf(n, p))
    BY <1>1, <2>2, CountJoin
  <2>6. Count(sent', SentOf(n, p)) = 0
    BY <1>3, CountEmpty
  <2>7. Commands(n, p) = a + b /\ Commands(n, p)' = (b + a) + 0
    BY <1>2, <2>4, <2>5, <2>6 DEF Commands
  <2>8. outgoing' \in Seq(Out(n)) /\ sent' \in Seq(Cmd(n))
    BY <1>3, <2>2 DEF IsJoin
  <2> QED
    BY <2>7, <2>8
<1>4. CASE \E i \in DOMAIN sent :
             /\ outgoing' = <<[tried |-> TRUE, cmd |-> sent[i]]>> \o outgoing
             /\ sent' = RemoveAt(sent, i)
  <2>1. PICK i \in 1..Len(sent) :
             /\ outgoing' = <<[tried |-> TRUE, cmd |-> sent[i]]>> \o outgoing
             /\ sent' = RemoveAt(sent, i)
    BY <1>1, <1>4, SeqFacts
  <2>2. sent[i] \in Cmd(n)
    BY <1>1, <2>1
  <2>3. PICK o \in Out(n) : o = [tried |-> TRUE, cmd |-> sent[i]] /\ o.cmd = sent[i]
    <3>1. [tried |-> TRUE, cmd |-> sent[i]] \in Out(n)
      BY <2>2 DEF Out
    <3>2. [tried |-> TRUE, cmd |-> sent[i]].cmd = sent[i]
      OBVIOUS
    <3>. QED BY <3>1, <3>2
  <2>4. PICK x \in Nat : x = IF sent[i].pkt = p THEN 1 ELSE 0
    OBVIOUS
  <2>5. Count(outgoing', OutOf(n, p)) = x + Count(outgoing, OutOf(n, p))
    <3>1. Count(<<o>> \o outgoing, OutOf(n, p))
              = (IF o \in OutOf(n, p) THEN 1 ELSE 0) + Count(outgoing, OutOf(n, p))
      BY <1>1, CountFront
    <3>2. o \in OutOf(n, p) <=> sent[i].pkt = p
      BY <2>3 DEF OutOf
    <3> QED
      BY <2>1, <2>3, <2>4, <3>1, <3>2
  <2>6. Count(sent, SentOf(n, p)) = x + Count(sent', SentOf(n, p))
    <3>1. Count(sent, SentOf(n, p))
              = (IF sent[i] \in SentOf(n, p) THEN 1 ELSE 0) + Count(RemoveAt(sent, i), SentOf(n, p))
      BY <1>1, CountRemoved
    <3>2. sent[i] \in SentOf(n, p) <=> sent[i].pkt = p
      BY <2>2 DEF SentOf
    <3> QED
      BY <2>1, <2>4, <3>1, <3>2
  <2>7. outgoing' \in Seq(Out(n)) /\ sent' \in Seq(Cmd(n))
    <3>1. sent' \in Seq(Cmd(n))
      BY <1>1, <2>1, RemovedAt DEF IsRemoved
    <3>2. <<o>> \in Seq(Out(n))
      OBVIOUS
    <3>3. outgoing' \in Seq(Out(n))
      BY <1>1, <2>1, <2>3, <3>2
    <3> QED
      BY <3>1, <3>3
  <2>8. PICK c \in Nat : c = Count(sent', SentOf(n, p))
    BY <2>7, SomeCounted, Zenon
  <2>9. Commands(n, p) = a + (x + c) /\ Commands(n, p)' = (x + a) + c
    BY <1>2, <2>5, <2>6, <2>8 DEF Commands
  <2> QED
    BY <2>7, <2>9
<1> QED
  BY <1>3, <1>4, Zenon DEF CheckTimeouts, Retried

\* An acknowledgement only takes commands away.
LEMMA CountedHandleAcknowledge ==
    ASSUME NEW n \in Nat, SenderTypes(n), NEW m, HandleAcknowledge(m), NEW p
    PROVE  /\ outgoing' \in Seq(Out(n)) /\ sent' \in Seq(Cmd(n))
           /\ Commands(n, p)' <= Commands(n, p)
<1>1. outgoing \in Seq(Out(n)) /\ sent \in Seq(Cmd(n))
  BY DEF SenderTypes
<1>2. \/ \E i \in 1..Len(sent) : AckSent(m, i)
      \/ \E i \in 1..TriedCount : AckTried(m, i)
      \/ UNCHANGED <<sent, outgoing, inTransit, windows, used>>
  BY <1>1, AckFacts, Zenon
<1>3. PICK a \in Nat, b \in Nat : a = Count(outgoing, OutOf(n, p)) /\ b = Count(sent, SentOf(n, p))
  BY <1>1, SomeCounted, Zenon
<1>4. ASSUME NEW i \in 1..Len(sent), AckSent(m, i)
      PROVE  /\ outgoing' \in Seq(Out(n)) /\ sent' \in Seq(Cmd(n))
             /\ Commands(n, p)' <= Commands(n, p)
  <2>1. sent' = RemoveAt(sent, i) /\ outgoing' = outgoing
    BY <1>4, Zenon DEF AckSent
  <2>2. sent' \in Seq(Cmd(n))
    <3>1. IsRemoved(Cmd(n), sent, i, RemoveAt(sent, i))
      BY <1>1, RemovedAt
    <3> QED
      BY <2>1, <3>1 DEF IsRemoved
  <2>3. Count(sent, SentOf(n, p))
            = (IF sent[i] \in SentOf(n, p) THEN 1 ELSE 0) + Count(sent', SentOf(n, p))
    <3>1. Count(sent, SentOf(n, p))
              = (IF sent[i] \in SentOf(n, p) THEN 1 ELSE 0) + Count(RemoveAt(sent, i), SentOf(n, p))
      BY <1>1, CountRemoved
    <3> QED
      BY <2>1, <3>1, Zenon
  <2>4. PICK c \in Nat : c = Count(sent', SentOf(n, p))
    BY <1>1, <2>2, SomeCounted, Zenon
  <2>5. Commands(n, p) = a + b /\ Commands(n, p)' = a + c /\ c <= b
    BY <1>3, <2>1, <2>3, <2>4 DEF Commands
  <2> QED
    BY <1>1, <2>1, <2>2, <2>5
<1>5. ASSUME NEW i \in 1..TriedCount, AckTried(m, i)
      PROVE  /\ outgoing' \in Seq(Out(n)) /\ sent' \in Seq(Cmd(n))
             /\ Commands(n, p)' <= Commands(n, p)
  <2>1. sent' = sent /\ outgoing' = RemoveAt(outgoing, i)
    BY <1>5, Zenon DEF AckTried
  <2>2. i \in 1..Len(outgoing)
    <3>1. TriedCount \in 0..Len(outgoing) /\ Len(outgoing) \in Nat
      BY <1>1, TriedFacts, SeqFacts
    <3> QED
      BY <3>1
  <2>3. outgoing' \in Seq(Out(n))
    <3>1. IsRemoved(Out(n), outgoing, i, RemoveAt(outgoing, i))
      BY <1>1, <2>2, RemovedAt
    <3> QED
      BY <2>1, <3>1 DEF IsRemoved
  <2>4. Count(outgoing, OutOf(n, p))
            = (IF outgoing[i] \in OutOf(n, p) THEN 1 ELSE 0) + Count(outgoing', OutOf(n, p))
    <3>1. Count(outgoing, OutOf(n, p))
              = (IF outgoing[i] \in OutOf(n, p) THEN 1 ELSE 0) + Count(RemoveAt(outgoing, i), OutOf(n, p))
      BY <1>1, <2>2, CountRemoved
    <3> QED
      BY <2>1, <3>1, Zenon
  <2>5. PICK c \in Nat : c = Count(outgoing', OutOf(n, p))
    BY <1>1, <2>3, SomeCounted, Zenon
  <2>6. Commands(n, p) = a + b /\ Commands(n, p)' = c + b /\ c <= a
    BY <1>3, <2>1, <2>4, <2>5 DEF Commands
  <2> QED
    BY <1>1, <2>1, <2>3, <2>6
<1>6. CASE UNCHANGED <<sent, outgoing, inTransit, windows, used>>
  <2>1. Commands(n, p) = a + b /\ Commands(n, p)' = a + b
    BY <1>3, <1>6 DEF Commands
  <2> QED
    BY <1>1, <1>6, <2>1
<1> QED
  BY <1>2, <1>4, <1>5, <1>6

\* A step that changes neither the stream nor what went to the application.
LEMMA QuietMaps ==
    ASSUME NEW n \in Nat, SenderTypes(n), outgoing' \in Seq(Out(n)), sent' \in Seq(Cmd(n)),
           StreamFacts, StreamFacts', UNCHANGED <<stream, delivered, dispatched>>,
           \A p : Commands(n, p)' <= Commands(n, p)
    PROVE  Stream!StreamNext
<1>1. PICK s, u, r, d : Facts(s, u, r, d)
  BY Zenon DEF StreamFacts
<1>2. PICK t, v, x, e : Facts(t, v, x, e)'
  BY Zenon DEF StreamFacts
<1>3. t = s /\ e = d /\ x = r
  BY <1>1, <1>2 DEF Facts
<1>4. Facts(s, v, r, d)'
  BY <1>2, <1>3
<1>5. \A p : PacketOut(p)' => PacketOut(p)
  <2> SUFFICES ASSUME NEW p PROVE PacketOut(p)' => PacketOut(p)
    OBVIOUS
  <2>1. /\ Commands(n, p) \in Nat /\ Commands(n, p)' \in Nat
        /\ PacketOut(p) <=> Commands(n, p) # 0
        /\ PacketOut(p)' <=> Commands(n, p)' # 0
    BY OutCounted
  <2> QED
    BY <2>1
<1>6. u <= v
  BY <1>1, <1>4, <1>5, ForgottenGrows
<1>7. v \in u..r
  BY <1>1, <1>4, <1>6 DEF Facts
<1>8. Bars(s, u, r, d) /\ Bars(s, v, r, d)'
  BY <1>1, <1>4 DEF Facts
<1> QED
  BY <1>7, <1>8, BarsForget

LEMMA ReceiveMaps ==
    ASSUME NEW n \in Nat, SenderTypes(n), ReceiverTypes(n), StreamFacts, StreamFacts', Receive
    PROVE  Stream!StreamNext \/ UNCHANGED Stream!streamVars
<1>1. PICK s, u, r, d : Facts(s, u, r, d)
  BY Zenon DEF StreamFacts
<1>2. PICK t, v, x, e : Facts(t, v, x, e)'
  BY Zenon DEF StreamFacts
<1>3. stream' = stream /\ sent' = sent /\ outgoing' = outgoing
      /\ delivered' = Append(delivered, Head(dispatched)) /\ dispatched' = Tail(dispatched)
      /\ dispatched # << >>
  BY DEF Receive, sender
<1>4. delivered \in Seq(1..n) /\ dispatched \in Seq(1..n)
  BY DEF ReceiverTypes
<1>5. PICK o \in {0, 1} : o = IF Head(dispatched) \in OfStream(stream) THEN 1 ELSE 0
  OBVIOUS
<1>6. Count(delivered', OfStream(stream)) = Count(delivered, OfStream(stream)) + o
  <2>1. Head(dispatched) \in 1..n
    BY <1>3, <1>4, HeadTail
  <2>2. Count(Append(delivered, Head(dispatched)), OfStream(stream)) = Count(delivered, OfStream(stream))
            + (IF Head(dispatched) \in OfStream(stream) THEN 1 ELSE 0)
    BY <1>4, <2>1, CountAppend, ZenonT(40)
  <2> QED
    BY <1>3, <1>5, <2>2, Zenon
<1>7. Count(dispatched, OfStream(stream)) = o + Count(dispatched', OfStream(stream))
  <2>1. Count(dispatched, OfStream(stream)) = (IF Head(dispatched) \in OfStream(stream) THEN 1 ELSE 0)
            + Count(Tail(dispatched), OfStream(stream))
    BY <1>3, <1>4, CountTail
  <2> QED
    BY <1>3, <1>5, <2>1, Zenon
<1>8. PICK a \in Nat, b \in Nat : a = Count(delivered, OfStream(stream))
                                  /\ b = Count(dispatched', OfStream(stream))
  <2>1. Tail(dispatched) \in Seq(1..n)
    BY <1>3, <1>4, HeadTail
  <2> QED
    BY <1>3, <1>4, <2>1, PlacesFinite, Zenon
<1>9. d = a /\ r = a + (o + b) /\ s = Len(stream) /\ s \in Nat
  BY <1>1, <1>7, <1>8 DEF Facts
<1>10. e = a + o /\ x = (a + o) + b /\ t = s
  <2>1. e = Count(delivered', OfStream(stream)) /\ x = e + Count(dispatched', OfStream(stream)) /\ t = Len(stream)
    <3>1. /\ e = Count(delivered', OfStream(stream'))
          /\ x = e + Count(dispatched', OfStream(stream')) /\ t = Len(stream')
      BY <1>2 DEF Facts
    <3> QED
      BY <1>3, <3>1, Zenon
  <2> QED
    BY <1>6, <1>8, <1>9, <2>1
<1>11. v = u
  <2>1. \A p : PacketOut(p)' <=> PacketOut(p)
    BY <1>3 DEF PacketOut
  <2>2. \A q \in 1..s : stream'[q] = stream[q] /\ stream[q] # submitted + 1
    BY <1>1, <1>3 DEF Facts
  <2>3. t # s + 1
    BY <1>9, <1>10
  <2>4. PICK z : z = submitted + 1
    OBVIOUS
  <2>5. OnlyOut(s, t, z)
    BY <1>10, <2>1, <2>2, <2>3, <2>4 DEF OnlyOut
  <2> QED
    BY <1>1, <1>2, <2>5, ForgottenStays, Zenon
<1>12. Bars(s, u, r, d) /\ Bars(s, u, r, d + o)'
  <2>1. x = r /\ e = d + o
    BY <1>8, <1>9, <1>10
  <2>2. Bars(t, v, x, e)'
    BY <1>2 DEF Facts
  <2> QED
    BY <1>1, <1>10, <1>11, <2>1, <2>2 DEF Facts
<1>13. CASE o = 1
  <2>1. d + o \in d + 1 .. r
    BY <1>8, <1>9, <1>13
  <2> QED
    BY <1>12, <2>1, BarsTake
<1>14. CASE o = 0
  <2>1. d + o = d
    BY <1>8, <1>9, <1>14
  <2> QED
    BY <1>12, <2>1, BarsSame
<1> QED
  BY <1>13, <1>14

LEMMA HandleMaps ==
    ASSUME NEW n \in Nat, SenderTypes(n), NetTypes(n), ReceiverTypes(n), StreamFacts, StreamFacts',
           NEW c \in net, HandleCommand(c)
    PROVE  Stream!StreamNext
<1>1. PICK s, u, r, d : Facts(s, u, r, d)
  BY Zenon DEF StreamFacts
<1>2. PICK t, v, x, e : Facts(t, v, x, e)'
  BY Zenon DEF StreamFacts
<1>3. PICK more \in Seq(1..n) : dispatched' = dispatched \o more
  <2>1. in \in Chan(n) /\ c \in Cmd(n) /\ dispatched \in Seq(1..n) /\ Waiting(in) <= MaxWaiting
    BY DEF NetTypes, ReceiverTypes
  <2>2. Handle(in, c) \in Res(n)
    <3>1. Fits(n, Handle(in, c))
      BY <2>1, HandleFits, Zenon
    <3> QED
      BY <3>1, Zenon DEF Fits
  <2>3. Handle(in, c).out \in Seq(1..n)
    BY <2>2, Zenon DEF Res
  <2>4. dispatched' = dispatched \o Handle(in, c).out
    BY DEF HandleCommand
  <2> QED
    BY <2>3, <2>4, Zenon
<1>4. stream' = stream /\ sent' = sent /\ outgoing' = outgoing /\ delivered' = delivered
  BY DEF HandleCommand, sender
<1>5. dispatched \in Seq(1..n) /\ delivered \in Seq(1..n)
  BY DEF ReceiverTypes
<1>6. Count(dispatched', OfStream(stream)) = Count(dispatched, OfStream(stream)) + Count(more, OfStream(stream))
  <2>1. IsJoin(1..n, dispatched, more, dispatched')
    BY <1>3, <1>5, Joined
  <2> QED
    BY <1>5, <2>1, CountJoin
<1>7. PICK a \in Nat, b \in Nat, o \in Nat :
          /\ a = Count(delivered, OfStream(stream)) /\ b = Count(dispatched, OfStream(stream))
          /\ o = Count(more, OfStream(stream))
  BY <1>5, PlacesFinite, Zenon
<1>8. d = a /\ r = a + b /\ s = Len(stream) /\ s \in Nat
  BY <1>1, <1>7 DEF Facts
<1>9. e = a /\ x = a + (b + o) /\ t = s /\ x \in 0..s
  <2>1. e = Count(delivered', OfStream(stream')) /\ x = e + Count(dispatched', OfStream(stream'))
        /\ t = Len(stream') /\ x \in 0..t
    BY <1>2 DEF Facts
  <2>2. e = a /\ t = s
    BY <1>4, <1>7, <1>8, <2>1, Zenon
  <2>3. Count(dispatched', OfStream(stream')) = b + o
    BY <1>4, <1>6, <1>7, Zenon
  <2> QED
    BY <2>1, <2>2, <2>3
<1>10. v = u
  <2>1. \A p : PacketOut(p)' <=> PacketOut(p)
    BY <1>4 DEF PacketOut
  <2>2. \A q \in 1..s : stream'[q] = stream[q] /\ stream[q] # submitted + 1
    BY <1>1, <1>4 DEF Facts
  <2>3. t # s + 1
    BY <1>8, <1>9
  <2>4. PICK z : z = submitted + 1
    OBVIOUS
  <2>5. OnlyOut(s, t, z)
    BY <1>9, <2>1, <2>2, <2>3, <2>4 DEF OnlyOut
  <2> QED
    BY <1>1, <1>2, <2>5, ForgottenStays, Zenon
<1>11. x \in r..s
  BY <1>7, <1>8, <1>9, SMTT(30)
<1>12. Bars(s, u, r, d) /\ Bars(s, u, x, d)'
  <2>1. Bars(t, v, x, e)'
    BY <1>2 DEF Facts
  <2>2. e = d
    BY <1>8, <1>9
  <2> QED
    BY <1>1, <1>9, <1>10, <2>1, <2>2 DEF Facts
<1> QED
  BY <1>11, <1>12, BarsArrive

\* A reliable packet is given: its commands are outstanding.
LEMMA SetupMaps ==
    ASSUME NEW n \in Nat, SenderTypes(n), ReceiverTypes(n), StreamFacts, StreamFacts',
           NEW a \in {1, 2}, submitted + 1 \in 1..n,
           outgoing' = outgoing \o NewCommands(submitted + 1, a),
           stream' = Append(stream, submitted + 1),
           UNCHANGED <<sent, delivered, dispatched>>
    PROVE  Stream!StreamNext
<1>1. PICK s, u, r, d : Facts(s, u, r, d)
  BY Zenon DEF StreamFacts
<1>2. PICK t, v, x, e : Facts(t, v, x, e)'
  BY Zenon DEF StreamFacts
<1>3. PICK new \in 1..n : new = submitted + 1
  OBVIOUS
<1>4. stream \in Seq(1..n) /\ outgoing \in Seq(Out(n)) /\ sent \in Seq(Cmd(n))
      /\ delivered \in Seq(1..n) /\ dispatched \in Seq(1..n)
      /\ numbers.reliable \in 0..Numbers - 1
  BY DEF SenderTypes, ReceiverTypes
<1>5. s \in Nat /\ s = Len(stream) /\ t = s + 1 /\ stream'[t] = new
      /\ \A q \in 1..s : stream'[q] = stream[q] /\ stream[q] # new
  <2>1. s \in Nat /\ s = Len(stream) /\ t = Len(stream') /\ \A q \in 1..s : stream[q] # new
    BY <1>1, <1>2, <1>3 DEF Facts
  <2>2. stream' = Append(stream, new)
    BY <1>3
  <2> QED
    BY <1>4, <2>1, <2>2
<1>6. PICK add \in Seq(Out(n)) : /\ add = NewCommands(new, a) /\ Len(add) = a
                                 /\ \A i \in 1..a : add[i].cmd.pkt = new
  <2>1. NewCommands(new, a) \in Seq(Out(n)) /\ Len(NewCommands(new, a)) = a
    BY <1>4, NewCommandsType
  <2>2. \A i \in 1..a : NewCommands(new, a)[i].cmd.pkt = new
    BY DEF NewCommands, Command
  <2> QED
    BY <2>1, <2>2, Zenon
<1>7. IsJoin(Out(n), outgoing, add, outgoing')
  BY <1>3, <1>4, <1>6, Joined
<1>8. PICK l \in Nat : l = Len(outgoing)
  BY <1>4
<1>9. PacketOut(new)'
  <2>1. 1 \in 1..Len(add) /\ l + 1 \in 1..Len(outgoing')
    BY <1>6, <1>7, <1>8 DEF IsJoin
  <2>2. outgoing'[l + 1].cmd.pkt = new
    BY <1>6, <1>7, <1>8, <2>1 DEF IsJoin
  <2> QED
    BY <2>1, <2>2 DEF PacketOut
<1>10. \A p : p # new => (PacketOut(p)' <=> PacketOut(p))
  <2> SUFFICES ASSUME NEW p, p # new
               PROVE  (\E j \in 1..Len(outgoing') : outgoing'[j].cmd.pkt = p)
                          <=> \E j \in 1..Len(outgoing) : outgoing[j].cmd.pkt = p
    BY DEF PacketOut
  <2>1. \A j \in 1..Len(outgoing') :
            \/ j \in 1..l /\ outgoing'[j] = outgoing[j]
            \/ outgoing'[j].cmd.pkt = new
    <3> SUFFICES ASSUME NEW j \in 1..Len(outgoing')
                 PROVE  \/ j \in 1..l /\ outgoing'[j] = outgoing[j]
                        \/ outgoing'[j].cmd.pkt = new
      OBVIOUS
    <3>1. Len(outgoing') = l + a
      BY <1>6, <1>7, <1>8 DEF IsJoin
    <3>2. CASE j <= l
      BY <1>7, <1>8, <3>1, <3>2 DEF IsJoin
    <3>3. CASE j > l
      <4>1. PICK i \in 1..a : j = l + i
        <5>1. j - l \in 1..a /\ j = l + (j - l)
          BY <1>8, <3>1, <3>3
        <5> QED
          BY <5>1
      <4>2. outgoing'[l + i] = add[i]
        BY <1>6, <1>7, <1>8 DEF IsJoin
      <4> QED
        BY <1>6, <4>1, <4>2
    <3> QED
      BY <1>8, <3>1, <3>2, <3>3
  <2>2. \A j \in 1..l : j \in 1..Len(outgoing') /\ outgoing'[j] = outgoing[j]
    BY <1>6, <1>7, <1>8 DEF IsJoin
  <2> QED
    BY <1>8, <2>1, <2>2
<1>11. v = u
  <2>1. PacketOut(stream[t])'
    BY <1>5, <1>9 DEF PacketOut
  <2>2. OnlyOut(s, t, new)
    BY <1>5, <1>10, <2>1 DEF OnlyOut
  <2> QED
    BY <1>1, <1>2, <2>2, ForgottenStays, Zenon
<1>12. /\ \A i \in 1..Len(delivered) : delivered[i] # new
       /\ \A i \in 1..Len(dispatched) : dispatched[i] # new
  BY <1>1, <1>3 DEF Facts
<1>13. \A p : p # new => (p \in OfStream(stream') <=> p \in OfStream(stream))
  <2>1. t = Len(stream') /\ s = Len(stream)
    BY <1>2, <1>5 DEF Facts
  <2>2. \A q \in 1..t : q \in 1..s \/ q = t
    BY <1>5
  <2>3. \A q \in 1..s : q \in 1..t
    BY <1>5
  <2> QED
    BY <1>5, <2>1, <2>2, <2>3 DEF OfStream
<1>14. /\ Count(delivered', OfStream(stream')) = Count(delivered, OfStream(stream))
       /\ Count(dispatched', OfStream(stream')) = Count(dispatched, OfStream(stream))
  <2>1. PICK P, Q : P = OfStream(stream') /\ Q = OfStream(stream)
    OBVIOUS
  <2>2. \A i \in 1..Len(delivered) : delivered[i] \in P <=> delivered[i] \in Q
    BY <1>12, <1>13, <2>1, Zenon
  <2>3. \A i \in 1..Len(dispatched) : dispatched[i] \in P <=> dispatched[i] \in Q
    BY <1>12, <1>13, <2>1, Zenon
  <2>4. Count(delivered, P) = Count(delivered, Q)
    BY <1>4, <2>2, SameCount
  <2>5. Count(dispatched, P) = Count(dispatched, Q)
    BY <1>4, <2>3, SameCount
  <2>6. delivered' = delivered /\ dispatched' = dispatched
    OBVIOUS
  <2> QED
    BY <2>1, <2>4, <2>5, <2>6, Zenon
<1>15. e = d /\ x = r
  <2>1. e = Count(delivered', OfStream(stream')) /\ x = e + Count(dispatched', OfStream(stream'))
    BY <1>2 DEF Facts
  <2>2. d = Count(delivered, OfStream(stream)) /\ r = d + Count(dispatched, OfStream(stream))
    BY <1>1 DEF Facts
  <2> QED
    BY <1>14, <2>1, <2>2, Zenon
<1>16. Bars(s, u, r, d) /\ Bars(s + 1, u, r, d)'
  <2>1. Bars(t, v, x, e)'
    BY <1>2 DEF Facts
  <2> QED
    BY <1>1, <1>5, <1>11, <1>15, <2>1 DEF Facts
<1> QED
  BY <1>5, <1>16, BarsGive

LEMMA SendMaps ==
    ASSUME NEW n \in Nat, n = Len(script), SenderTypes(n), ReceiverTypes(n),
           StreamFacts, StreamFacts', Send
    PROVE  Stream!StreamNext
<1>1. /\ submitted' = submitted + 1 /\ submitted + 1 \in 1..n
      /\ UNCHANGED <<sent, dispatched, delivered>>
  BY DEF Send, SenderTypes, receiver
<1>2. \/ \E a \in {1, 2} : SetupReliable(submitted', a)
      \/ UNCHANGED <<outgoing, stream>>
  <2>1. 1 \in {1, 2} /\ 2 \in {1, 2}
    OBVIOUS
  <2> QED
    BY <2>1, Zenon DEF Send, SetupUnsequenced, SetupUnreliable
<1>3. ASSUME NEW a \in {1, 2}, SetupReliable(submitted', a)
      PROVE  Stream!StreamNext
  <2>1. outgoing' = outgoing \o NewCommands(submitted', a) /\ stream' = Append(stream, submitted')
    BY <1>3, SetupFacts
  <2>2. outgoing' = outgoing \o NewCommands(submitted + 1, a) /\ stream' = Append(stream, submitted + 1)
    BY <1>1, <2>1
  <2> QED
    BY <1>1, <2>2, SetupMaps
<1>4. CASE UNCHANGED <<outgoing, stream>>
  <2>1. outgoing \in Seq(Out(n)) /\ sent \in Seq(Cmd(n))
    BY DEF SenderTypes
  <2>2. \A p : Commands(n, p)' <= Commands(n, p)
    <3> TAKE p
    <3>1. Commands(n, p) \in Nat
      <4>1. PICK a \in Nat, b \in Nat : a = Count(outgoing, OutOf(n, p)) /\ b = Count(sent, SentOf(n, p))
        BY <2>1, SomeCounted, Zenon
      <4> QED
        BY <4>1 DEF Commands
    <3>2. Commands(n, p)' = Commands(n, p)
      BY <1>1, <1>4 DEF Commands
    <3> QED
      BY <3>1, <3>2
  <2> QED
    BY <1>1, <1>4, <2>1, <2>2, QuietMaps
<1> QED
  BY <1>2, <1>3, <1>4

LEMMA StepMaps ==
    ASSUME Types, StreamFacts, StreamFacts', [Next]_vars
    PROVE  Stream!StreamNext \/ UNCHANGED Stream!streamVars
<1>1. PICK n \in Nat : n = Len(script) /\ SenderTypes(n) /\ NetTypes(n) /\ ReceiverTypes(n)
  BY ScriptLen DEF Types
<1>2. ASSUME outgoing' \in Seq(Out(n)), sent' \in Seq(Cmd(n)),
             UNCHANGED <<stream, delivered, dispatched>>,
             \A p : Commands(n, p)' <= Commands(n, p)
      PROVE  Stream!StreamNext
  BY <1>1, <1>2, QuietMaps
<1>3. \A p : Commands(n, p) \in Int
  <2> TAKE p
  <2>1. outgoing \in Seq(Out(n)) /\ sent \in Seq(Cmd(n))
    BY <1>1 DEF SenderTypes
  <2>2. PICK a \in Nat, b \in Nat : a = Count(outgoing, OutOf(n, p)) /\ b = Count(sent, SentOf(n, p))
    BY <2>1, SomeCounted, Zenon
  <2> QED
    BY <2>2 DEF Commands
<1>4. CASE SendReliable
  <2>1. UNCHANGED <<stream, delivered, dispatched>>
    BY <1>4 DEF SendReliable, receiver
  <2>2. \A p : Commands(n, p)' = Commands(n, p) /\ outgoing' \in Seq(Out(n)) /\ sent' \in Seq(Cmd(n))
    BY <1>1, <1>4, CountedSendReliable
  <2>3. \A p : Commands(n, p)' <= Commands(n, p)
    BY <1>3, <2>2
  <2> QED
    BY <1>2, <2>1, <2>2, <2>3
<1>5. CASE CheckTimeouts
  <2>1. UNCHANGED <<stream, delivered, dispatched>>
    BY <1>5 DEF CheckTimeouts, receiver
  <2>2. \A p : Commands(n, p)' = Commands(n, p) /\ outgoing' \in Seq(Out(n)) /\ sent' \in Seq(Cmd(n))
    BY <1>1, <1>5, CountedCheckTimeouts
  <2>3. \A p : Commands(n, p)' <= Commands(n, p)
    BY <1>3, <2>2
  <2> QED
    BY <1>2, <2>1, <2>2, <2>3
<1>6. ASSUME NEW m \in acks, HandleAcknowledge(m)
      PROVE  Stream!StreamNext
  <2>1. UNCHANGED <<stream, delivered, dispatched>>
    BY <1>6 DEF HandleAcknowledge, receiver
  <2>2. \A p : Commands(n, p)' <= Commands(n, p) /\ outgoing' \in Seq(Out(n)) /\ sent' \in Seq(Cmd(n))
    BY <1>1, <1>6, CountedHandleAcknowledge
  <2> QED
    BY <1>2, <2>1, <2>2
<1>7. CASE UNCHANGED <<stream, outgoing, sent, delivered, dispatched>>
  <2>1. outgoing' \in Seq(Out(n)) /\ sent' \in Seq(Cmd(n))
    BY <1>1, <1>7 DEF SenderTypes
  <2>2. \A p : Commands(n, p)' = Commands(n, p)
    BY <1>7 DEF Commands
  <2>3. \A p : Commands(n, p)' <= Commands(n, p)
    BY <1>3, <2>2
  <2>4. UNCHANGED <<stream, delivered, dispatched>>
    BY <1>7
  <2> QED
    BY <1>2, <2>1, <2>3, <2>4
<1>8. CASE SendUnreliable
  BY <1>7, <1>8 DEF SendUnreliable, receiver
<1>9. CASE UNCHANGED vars
  BY <1>7, <1>9 DEF vars, sender, receiver
<1>10. ASSUME NEW c \in net, HandleCommand(c)
       PROVE  Stream!StreamNext
  BY <1>1, <1>10, HandleMaps
<1>11. CASE Send
  BY <1>1, <1>11, SendMaps
<1>12. CASE Receive
  BY <1>1, <1>12, ReceiveMaps
<1> QED
  BY <1>4, <1>5, <1>6, <1>8, <1>9, <1>10, <1>11, <1>12 DEF Next

LEMMA InitMaps ==
    ASSUME Init, StreamFacts
    PROVE  Stream!StreamInit
<1>1. PICK s, u, r, d : Facts(s, u, r, d)
  BY Zenon DEF StreamFacts
<1>2. s = 0 /\ u = 0 /\ r = 0 /\ d = 0
  BY <1>1 DEF Init, Facts
<1>3. /\ SndBar = Client(0) /\ UnaBar = Client(0) /\ RcvBar = Server(0) /\ ReadBar = Server(0)
  BY <1>1, <1>2 DEF Facts, Bars
<1>4. Client(0) = [e \in Stream!Ends |-> 0] /\ Server(0) = [e \in Stream!Ends |-> 0]
  BY DEF Client, Server, Stream!Ends
<1> QED
  BY <1>3, <1>4, Zenon DEF Stream!StreamInit, SndBar, UnaBar, RcvBar, ReadBar

\* What holds of all the states that are reached.
ChannelInv == Types /\ Counters(Len(script)) /\ StreamInv

LEMMA ChannelHolds == Spec => []ChannelInv
<1>1. Init => ChannelInv
  BY TypesInit, CountersInit, StreamInit DEF ChannelInv
<1>2. ChannelInv /\ [Next]_vars => ChannelInv'
  <2> SUFFICES ASSUME ChannelInv, [Next]_vars PROVE ChannelInv'
    OBVIOUS
  <2>1. Types /\ Counters(Len(script)) /\ StreamInv
    BY DEF ChannelInv
  <2>2. Types'
    BY <2>1, TypesKept
  <2>3. Counters(Len(script))'
    BY <2>1, CountersKept
  <2>4. StreamInv'
    BY <2>1, StreamKept
  <2> QED
    BY <2>2, <2>3, <2>4 DEF ChannelInv
<1> QED
  BY <1>1, <1>2, PTL DEF Spec

\* The reliable packets of the channel are a stream: whatever the network
\* loses, repeats, delays and reorders, and although the numbers wrap, they go
\* to the application (peer.c, enet_peer_dispatch_incoming_reliable_commands)
\* one after the other, and the sender forgets (protocol.c,
\* enet_protocol_remove_sent_reliable_command) only what arrived.
THEOREM Implementation == Spec => ImplementsStream
<1>1. ChannelInv => StreamFacts
  BY FactsHold DEF ChannelInv
<1>2. ChannelInv' => StreamFacts'
  BY <1>1, PTL
<1>3. Init /\ ChannelInv => Stream!StreamInit
  BY <1>1, InitMaps
<1>4. ChannelInv /\ ChannelInv' /\ [Next]_vars => [Stream!StreamNext]_(Stream!streamVars)
  <2> SUFFICES ASSUME ChannelInv, ChannelInv', [Next]_vars
               PROVE  Stream!StreamNext \/ UNCHANGED Stream!streamVars
    OBVIOUS
  <2>1. Types
    BY DEF ChannelInv
  <2> QED
    BY <1>1, <1>2, <2>1, StepMaps
<1> QED
  BY <1>3, <1>4, ChannelHolds, PTL DEF Spec, ImplementsStream, Stream!StreamSpec

\* No more packets were taken than arrived, no more arrived than were given,
\* and the sender has forgotten no more than arrived.
THEOREM PacketsOrdered == Spec => []Stream!StreamOrder
<1>1. ChannelInv => Stream!StreamOrder
  <2> SUFFICES ASSUME ChannelInv PROVE Stream!StreamOrder
    OBVIOUS
  <2>1. PICK s, u, r, d : Facts(s, u, r, d)
    BY FactsHold, Zenon DEF ChannelInv, StreamFacts
  <2>2. /\ SndBar = Client(s) /\ UnaBar = Client(u) /\ RcvBar = Server(r) /\ ReadBar = Server(d)
        /\ d <= r /\ r <= s /\ u <= r
    BY <2>1 DEF Facts, Bars
  <2>3. ASSUME NEW e \in {"client", "server"}
        PROVE  /\ ReadBar[e] <= RcvBar[e]
               /\ RcvBar[e] <= SndBar[Stream!Peer[e]]
               /\ UnaBar[e] <= RcvBar[Stream!Peer[e]]
    <3>1. 0 <= 0
      OBVIOUS
    <3>2. /\ Client(s)["client"] = s /\ Client(s)["server"] = 0
          /\ Client(u)["client"] = u /\ Client(u)["server"] = 0
          /\ Server(r)["client"] = 0 /\ Server(r)["server"] = r
          /\ Server(d)["client"] = 0 /\ Server(d)["server"] = d
      BY Sides
    <3>3. CASE e = "client"
      BY <2>2, <3>1, <3>2, <3>3, StreamEnds, Zenon
    <3>4. CASE e = "server"
      BY <2>2, <3>1, <3>2, <3>4, StreamEnds, Zenon
    <3> QED
      BY <3>3, <3>4
  <2> QED
    BY <2>3, Zenon DEF Stream!StreamOrder, SndBar, UnaBar, RcvBar, ReadBar, Stream!Ends
<1> QED
  BY <1>1, ChannelHolds, PTL
=============================================================================
