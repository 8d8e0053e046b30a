--------------------------- MODULE Console_proofs ---------------------------
(***************************************************************************)
(* The line fits its buffer and the row shows it, for every set of words,  *)
(* size of the buffer, length of the history and width of the row.         *)
(***************************************************************************)
EXTENDS Console, WellFoundedInduction, TLAPS

Chars   == Letters \cup {SPACE}
Glyphs  == Chars \cup {MARK, OLD}
Screens == [ok : BOOLEAN, off : BOOLEAN, base : Nat, at : Nat, cells : [Columns -> Glyphs]]

Typed ==
    /\ line \in Seq(Chars) /\ history \in Seq(Seq(Chars))
    /\ screen \in Screens /\ prompted \in BOOLEAN

\* What push_history keeps was a line.
HistoryFits == \A i \in 1 .. Len(history) : Len(history[i]) < MAX_LINE

\* ush waits for its program with nothing typed.
WaitsEmpty == shell = "ush" /\ ~prompted => line = << >>

\* The character of line l in column j, and a row that has it after n columns
\* of the prompt, with c of its characters left of the cursor.
Char(l, j) == IF j <= Len(l) THEN l[j] ELSE SPACE

Shows(t, n, l, c) ==
    t.ok /\ ~t.off =>
        /\ t.at = t.base + n + c
        /\ \A i \in Columns : i > t.base =>
              t.cells[i] = IF i <= t.base + n THEN MARK ELSE Char(l, i - (t.base + n))

From == IF prompted THEN PROMPT ELSE 0

Shown == Shows(screen, From, line, cursor_pos)

IInv == Typed /\ LineFits /\ HistoryFits /\ WaitsEmpty /\ Shown

\* The states that are followed.
Live == IInv /\ ~Overrun
-----------------------------------------------------------------------------
(* Words *)

LEMMA Least ==
  ASSUME NEW S, S \subseteq Nat, S # {}
  PROVE  \E m \in S : \A s \in S : m <= s
<1> DEFINE R == OpToRel(<, Nat)
<1>1. IsWellFoundedOn(R, Nat)
  BY NatLessThanWellFounded
<1>2. PICK x \in S : \A y \in S : <<y, x>> \notin R
  <2> HIDE DEF R
  <2> QED BY <1>1, WFMin
<1>3. \A y \in S : x <= y
  <2> SUFFICES ASSUME NEW y \in S, y < x PROVE FALSE
    OBVIOUS
  <2>1. <<y, x>> \in R
    BY DEF OpToRel
  <2> QED BY <1>2, <2>1
<1> QED BY <1>3

LEMMA Greatest ==
  ASSUME NEW S, S \subseteq Nat, S # {}, NEW B \in Nat, \A s \in S : s <= B
  PROVE  \E m \in S : \A s \in S : m >= s
<1> DEFINE T == {B - s : s \in S}
<1>1. T \subseteq Nat /\ T # {}
  <2>1. \A s \in S : B - s \in Nat
    OBVIOUS
  <2>2. T \subseteq Nat
    BY <2>1
  <2>3. T # {}
    OBVIOUS
  <2> QED BY <2>2, <2>3
<1>2. PICK x \in T : \A y \in T : x <= y
  <2> HIDE DEF T
  <2> QED BY <1>1, Least
<1>3. PICK m \in S : x = B - m
  OBVIOUS
<1>4. \A s \in S : m >= s
  <2> SUFFICES ASSUME NEW s \in S PROVE m >= s
    OBVIOUS
  <2>1. B - s \in T
    OBVIOUS
  <2>2. B - m <= B - s
    BY <1>2, <1>3, <2>1
  <2> QED BY <2>2
<1> QED BY <1>4

\* The word at the cursor.
LEMMA WordBounds ==
  ASSUME Typed, LineFits
  PROVE  WordStart \in 0 .. cursor_pos /\ WordEnd \in cursor_pos .. Len(line)
<1>1. cursor_pos \in Nat /\ Len(line) \in Nat /\ cursor_pos <= Len(line)
  BY DEF Typed, LineFits
<1> DEFINE S == {0} \cup {i \in 1 .. cursor_pos : Blank(i)}
           E == {Len(line)} \cup {i \in cursor_pos .. Len(line) - 1 : Blank(i + 1)}
<1>2. S \subseteq 0 .. cursor_pos /\ S # {} /\ S \subseteq Nat /\ \A s \in S : s <= cursor_pos
  BY <1>1
<1>3. E \subseteq cursor_pos .. Len(line) /\ E # {} /\ E \subseteq Nat
  BY <1>1
<1>4. WordStart = (CHOOSE x \in S : \A y \in S : x >= y)
  BY DEF WordStart, Max
<1>5. WordEnd = (CHOOSE x \in E : \A y \in E : x =< y)
  BY DEF WordEnd, Min
<1> HIDE DEF S, E
<1>6. \E x \in S : \A y \in S : x >= y
  BY <1>1, <1>2, Greatest
<1>7. \E x \in E : \A y \in E : x <= y
  BY <1>3, Least
<1>8. WordStart \in S
  BY <1>4, <1>6
<1>9. WordEnd \in E
  BY <1>5, <1>7
<1> QED BY <1>2, <1>3, <1>8, <1>9

\* The parts of a line.
LEMMA Parts ==
  ASSUME NEW C, NEW l \in Seq(C), NEW c \in 0 .. Len(l)
  PROVE  /\ Rest(l, c) \in Seq(C) /\ Len(Rest(l, c)) = Len(l) - c
         /\ \A j \in 1 .. Len(l) - c : Rest(l, c)[j] = l[c + j]
         /\ SubSeq(l, 1, c) \in Seq(C) /\ Len(SubSeq(l, 1, c)) = c
         /\ \A j \in 1 .. c : SubSeq(l, 1, c)[j] = l[j]
BY DEF Rest

LEMMA Joined ==
  ASSUME NEW C, NEW a \in Seq(C), NEW b \in Seq(C), NEW m, m = a \o b
  PROVE  /\ m \in Seq(C) /\ Len(m) = Len(a) + Len(b)
         /\ \A j \in 1 .. Len(a) + Len(b) : m[j] = IF j <= Len(a) THEN a[j] ELSE b[j - Len(a)]
OBVIOUS

LEMMA Inserted ==
  ASSUME NEW C, NEW l \in Seq(C), NEW c \in 0 .. Len(l), NEW x \in C,
         NEW p, p = c + 1, NEW m, m = InsertAt(l, p, x)
  PROVE  m \in Seq(C) /\ Len(m) = Len(l) + 1 /\ \A j \in 1 .. c : m[j] = l[j]
<1> DEFINE a == SubSeq(l, 1, c)
           b == Rest(l, c)
<1>1. m = a \o <<x>> \o b
  <2>1. \A k : InsertAt(l, k, x) = SubSeq(l, 1, k - 1) \o <<x>> \o SubSeq(l, k, Len(l))
    BY DEF InsertAt
  <2>2. p - 1 = c
    OBVIOUS
  <2>3. m = SubSeq(l, 1, p - 1) \o <<x>> \o SubSeq(l, p, Len(l))
    BY <2>1
  <2> QED BY <2>2, <2>3 DEF Rest
<1>2. /\ a \in Seq(C) /\ Len(a) = c /\ \A j \in 1 .. c : a[j] = l[j]
      /\ b \in Seq(C) /\ Len(b) = Len(l) - c /\ \A j \in 1 .. Len(l) - c : b[j] = l[c + j]
  BY Parts
<1> HIDE DEF a, b
<1>3. a \o <<x>> \in Seq(C) /\ Len(a \o <<x>>) = c + 1
      /\ \A j \in 1 .. c + 1 : (a \o <<x>>)[j] = IF j <= c THEN l[j] ELSE x
  BY <1>2
<1> DEFINE d == a \o <<x>>
<1>4. m = d \o b
  BY <1>1
<1>5. d \in Seq(C) /\ Len(d) = c + 1 /\ \A j \in 1 .. c + 1 : d[j] = IF j <= c THEN l[j] ELSE x
  BY <1>3
<1> HIDE DEF d
<1>6. /\ m \in Seq(C) /\ Len(m) = Len(d) + Len(b)
      /\ \A j \in 1 .. Len(d) + Len(b) : m[j] = IF j <= Len(d) THEN d[j] ELSE b[j - Len(d)]
  <2>1. d \in Seq(C) /\ b \in Seq(C)
    BY <1>2, <1>5
  <2>2. ASSUME NEW e, e = d \o b
        PROVE  /\ e \in Seq(C) /\ Len(e) = Len(d) + Len(b)
               /\ \A j \in 1 .. Len(d) + Len(b) : e[j] = IF j <= Len(d) THEN d[j] ELSE b[j - Len(d)]
    BY <2>1, <2>2, Joined
  <2> QED BY <1>4, <2>2, Zenon
<1>7. Len(d) + Len(b) = Len(l) + 1
  BY <1>2, <1>5
<1>8. ASSUME NEW j \in 1 .. c PROVE m[j] = l[j]
  <2>1. j \in 1 .. Len(d) + Len(b) /\ j <= Len(d) /\ j \in 1 .. c + 1
    BY <1>5, <1>7
  <2>2. m[j] = d[j]
    BY <2>1, <1>6
  <2> QED BY <2>1, <2>2, <1>5
<1> QED BY <1>6, <1>7, <1>8

LEMMA Removed ==
  ASSUME NEW C, NEW l \in Seq(C), NEW c \in 1 .. Len(l), NEW m, m = RemoveAt(l, c)
  PROVE  /\ m \in Seq(C) /\ Len(m) = Len(l) - 1
         /\ \A j \in 1 .. c - 1 : m[j] = l[j]
<1> DEFINE a == SubSeq(l, 1, c - 1)
           b == Rest(l, c)
<1>1. m = a \o b
  BY DEF RemoveAt, Rest
<1>2. /\ a \in Seq(C) /\ Len(a) = c - 1 /\ \A j \in 1 .. c - 1 : a[j] = l[j]
      /\ b \in Seq(C) /\ Len(b) = Len(l) - c /\ \A j \in 1 .. Len(l) - c : b[j] = l[c + j]
  <2>1. c - 1 \in 0 .. Len(l) /\ c \in 0 .. Len(l)
    OBVIOUS
  <2> QED BY <2>1, Parts
<1> HIDE DEF a, b
<1>3. /\ m \in Seq(C) /\ Len(m) = Len(a) + Len(b)
      /\ \A j \in 1 .. Len(a) + Len(b) : m[j] = IF j <= Len(a) THEN a[j] ELSE b[j - Len(a)]
  <2>1. a \in Seq(C) /\ b \in Seq(C)
    BY <1>2
  <2> QED BY <1>1, <2>1, Joined
<1>4. Len(a) + Len(b) = Len(l) - 1
  BY <1>2
<1>5. ASSUME NEW j \in 1 .. c - 1 PROVE m[j] = l[j]
  <2>1. j \in 1 .. Len(a) + Len(b) /\ j <= Len(a)
    BY <1>2, <1>4
  <2>2. m[j] = a[j]
    BY <2>1, <1>3
  <2> QED BY <2>2, <1>2
<1> QED BY <1>3, <1>4, <1>5

LEMMA Replaced ==
  ASSUME NEW C, NEW l \in Seq(C), NEW s \in 0 .. Len(l), NEW e \in s .. Len(l), NEW w \in Seq(C),
         NEW a, a = SubSeq(l, 1, s), NEW b, b = Rest(l, e), NEW d, d = a \o w, NEW m, m = d \o b
  PROVE  /\ m \in Seq(C) /\ Len(m) = s + Len(w) + (Len(l) - e)
         /\ \A j \in 1 .. s : m[j] = l[j]
<1>1. /\ a \in Seq(C) /\ Len(a) = s /\ \A j \in 1 .. s : a[j] = l[j]
      /\ b \in Seq(C) /\ Len(b) = Len(l) - e
  <2>1. e \in 0 .. Len(l)
    OBVIOUS
  <2> QED BY <2>1, Parts
<1>2. m = d \o b
  OBVIOUS
<1>3. d = a \o w
  OBVIOUS
<1>4. /\ d \in Seq(C) /\ Len(d) = Len(a) + Len(w)
      /\ \A j \in 1 .. Len(a) + Len(w) : d[j] = IF j <= Len(a) THEN a[j] ELSE w[j - Len(a)]
  <2>1. a \in Seq(C)
    BY <1>1
  <2>2. ASSUME NEW x, x = a \o w
        PROVE  /\ x \in Seq(C) /\ Len(x) = Len(a) + Len(w)
               /\ \A j \in 1 .. Len(a) + Len(w) : x[j] = IF j <= Len(a) THEN a[j] ELSE w[j - Len(a)]
    BY <2>1, <2>2, Joined
  <2> QED BY <1>3, <2>2, Zenon
<1>5. /\ m \in Seq(C) /\ Len(m) = Len(d) + Len(b)
      /\ \A j \in 1 .. Len(d) + Len(b) : m[j] = IF j <= Len(d) THEN d[j] ELSE b[j - Len(d)]
  <2>1. d \in Seq(C) /\ b \in Seq(C)
    BY <1>1, <1>4
  <2>2. ASSUME NEW x, x = d \o b
        PROVE  /\ x \in Seq(C) /\ Len(x) = Len(d) + Len(b)
               /\ \A j \in 1 .. Len(d) + Len(b) : x[j] = IF j <= Len(d) THEN d[j] ELSE b[j - Len(d)]
    BY <2>1, <2>2, Joined
  <2> QED BY <1>2, <2>2, Zenon
<1>6. Len(d) = s + Len(w) /\ Len(w) \in Nat /\ Len(b) \in Nat
  BY <1>1, <1>4
<1>7. ASSUME NEW j \in 1 .. s PROVE m[j] = l[j]
  <2>1. j \in 1 .. Len(d) + Len(b) /\ j <= Len(d) /\ j \in 1 .. Len(a) + Len(w) /\ j <= Len(a)
    BY <1>1, <1>6
  <2>2. m[j] = d[j]
    BY <2>1, <1>5
  <2>3. d[j] = a[j]
    BY <2>1, <1>4
  <2> QED BY <2>2, <2>3, <1>1
<1> QED BY <1>1, <1>5, <1>6, <1>7
-----------------------------------------------------------------------------
(* The terminal *)

LEMMA RowFacts ==
  ASSUME NEW b \in Nat
  PROVE  /\ Row(b) \in Screens /\ Row(b).ok /\ ~Row(b).off /\ Row(b).at = b /\ Row(b).base = b
         /\ \A i \in Columns : i > b => Row(b).cells[i] = SPACE
<1> DEFINE f == [i \in Columns |-> IF i <= b THEN OLD ELSE SPACE]
<1>1. f \in [Columns -> Glyphs]
  BY DEF Glyphs, Chars
<1>2. \A i \in Columns : i > b => f[i] = SPACE
  BY DEF Columns
<1>3. Row(b) = [ok |-> TRUE, off |-> FALSE, base |-> b, at |-> b, cells |-> f]
  BY DEF Row
<1> HIDE DEF f
<1> QED BY <1>1, <1>2, <1>3 DEF Screens

LEMMA GarbledFacts == Garbled \in Screens /\ ~Garbled.ok
<1> DEFINE r == Row(0)
<1>1. r \in Screens
  BY RowFacts
<1>2. Garbled = [r EXCEPT !.ok = FALSE]
  BY DEF Garbled
<1> HIDE DEF r
<1> QED BY <1>1, <1>2 DEF Screens

LEMMA PutFacts ==
  ASSUME NEW t \in Screens, NEW s \in Seq(Glyphs), NEW u, u = Put(t, s)
  PROVE  /\ u \in Screens
         /\ u.ok => /\ t.ok /\ u.off = t.off /\ u.base = t.base /\ u.at = t.at + Len(s)
                    /\ \A i \in Columns :
                         u.cells[i] = IF i > t.at /\ i <= t.at + Len(s) THEN s[i - t.at] ELSE t.cells[i]
<1> DEFINE n == t.at
           m == Len(s)
           f == [i \in Columns |-> IF i \in n + 1 .. n + m THEN s[i - n] ELSE t.cells[i]]
<1>0. n \in Nat /\ m \in Nat /\ t.cells \in [Columns -> Glyphs] /\ Columns \subseteq Int
  BY DEF Screens, Columns
<1>1. CASE ~t.ok \/ t.at + Len(s) >= WIDTH
  <2>1. u = Garbled
    BY <1>1 DEF Put
  <2> QED BY <2>1, GarbledFacts
<1>2. CASE t.ok /\ ~(t.at + Len(s) >= WIDTH)
  <2>1. u = [t EXCEPT !.at = n + m, !.cells = f]
    BY <1>2 DEF Put
  <2>2. f \in [Columns -> Glyphs]
    <3>1. \A i \in n + 1 .. n + m : s[i - n] \in Glyphs
      <4> SUFFICES ASSUME NEW i \in n + 1 .. n + m PROVE s[i - n] \in Glyphs
        OBVIOUS
      <4>1. i - n \in 1 .. Len(s)
        BY <1>0
      <4> QED BY <4>1
    <3> QED BY <3>1, <1>0
  <2>3. \A i \in Columns : f[i] = IF i > n /\ i <= n + m THEN s[i - n] ELSE t.cells[i]
    BY <1>0
  <2> HIDE DEF f
  <2>4. u.at = n + m /\ u.cells = f /\ u.ok = t.ok /\ u.off = t.off /\ u.base = t.base /\ u \in Screens
    <3> DEFINE g == n + m
    <3>1. g \in Nat /\ u = [t EXCEPT !.at = g, !.cells = f] /\ f \in [Columns -> Glyphs]
      BY <2>1, <2>2, <1>0
    <3> HIDE DEF g
    <3>2. u.at = g /\ u.cells = f /\ u.ok = t.ok /\ u.off = t.off /\ u.base = t.base /\ u \in Screens
      BY <3>1 DEF Screens
    <3> QED BY <3>2 DEF g
  <2> QED BY <2>3, <2>4, <1>2
<1>3. t.ok \in BOOLEAN
  BY DEF Screens
<1> QED BY <1>1, <1>2, <1>3

LEMMA LeftFacts ==
  ASSUME NEW t \in Screens, NEW n \in Nat, NEW u, u = Left(t, n)
  PROVE  /\ u \in Screens /\ u.ok = t.ok /\ u.off = t.off /\ u.base = t.base /\ u.cells = t.cells
         /\ n <= t.at => u.at = t.at - n
BY DEF Left, Screens

\* A row that shows the line still does when nothing is wrong, and need not
\* when something is.
LEMMA SpoilFacts ==
  ASSUME NEW t \in Screens, NEW wrong \in BOOLEAN, NEW u, u = Spoil(t, wrong)
  PROVE  u \in Screens /\ \A n, l, c : (~wrong => Shows(t, n, l, c)) => Shows(u, n, l, c)
<1>1. u = [t EXCEPT !.off = t.off \/ wrong] /\ t.off \in BOOLEAN
  BY DEF Spoil, Screens
<1>2. CASE wrong
  <2>1. u = [t EXCEPT !.off = TRUE]
    BY <1>1, <1>2
  <2>2. u \in Screens /\ u.off
    BY <2>1 DEF Screens
  <2> QED BY <2>2, <1>2 DEF Shows
<1>3. CASE ~wrong
  <2>1. u = t
    BY <1>1, <1>3 DEF Screens
  <2> QED BY <2>1, <1>3
<1> QED BY <1>2, <1>3

\* Writing s after the first k characters of line l turns it into line m.
LEMMA Overwrite ==
  ASSUME NEW t \in Screens, NEW n \in Nat, NEW l \in Seq(Chars), NEW k \in Nat,
         NEW s \in Seq(Chars), NEW m \in Seq(Chars), Shows(t, n, l, k),
         \A j \in 1 .. k : Char(m, j) = Char(l, j),
         \A j \in 1 .. Len(s) : s[j] = Char(m, k + j),
         \A j \in Nat : j > k + Len(s) => Char(m, j) = Char(l, j),
         NEW u, u = Put(t, s)
  PROVE  u \in Screens /\ Shows(u, n, m, k + Len(s))
<1> DEFINE b == t.base
           N == b + n
<1>1. s \in Seq(Glyphs)
  <2>1. Chars \subseteq Glyphs
    BY DEF Glyphs
  <2> QED BY <2>1
<1>2. /\ u \in Screens
      /\ u.ok => /\ t.ok /\ u.off = t.off /\ u.base = t.base /\ u.at = t.at + Len(s)
                 /\ \A i \in Columns :
                      u.cells[i] = IF i > t.at /\ i <= t.at + Len(s) THEN s[i - t.at] ELSE t.cells[i]
  BY <1>1, PutFacts
<1>3. SUFFICES ASSUME u.ok, ~u.off, u.base = b
               PROVE  /\ u.at = N + (k + Len(s))
                      /\ \A i \in Columns : i > b => u.cells[i] = IF i <= N THEN MARK ELSE Char(m, i - N)
  BY <1>2 DEF Shows
<1>b. b \in Nat /\ N \in Nat /\ b <= N
  BY DEF Screens
<1>4. /\ t.ok /\ t.at = N + k /\ Len(s) \in Nat /\ u.at = N + k + Len(s)
      /\ \A i \in Columns : i > b => t.cells[i] = IF i <= N THEN MARK ELSE Char(l, i - N)
      /\ \A i \in Columns :
           u.cells[i] = IF i > N + k /\ i <= N + k + Len(s) THEN s[i - (N + k)] ELSE t.cells[i]
  BY <1>2, <1>3 DEF Shows
<1> HIDE DEF b, N
<1>5. ASSUME NEW i \in Columns, i > b
      PROVE  u.cells[i] = IF i <= N THEN MARK ELSE Char(m, i - N)
  <2>0. i \in Int
    BY DEF Columns
  <2>1. CASE i <= N
    <3>1. ~(i > N + k)
      BY <2>0, <2>1, <1>b
    <3> QED BY <2>1, <3>1, <1>4, <1>5
  <2>2. CASE i > N /\ i <= N + k
    <3>1. i - N \in 1 .. k /\ ~(i > N + k) /\ ~(i <= N)
      BY <2>0, <2>2, <1>b
    <3>2. u.cells[i] = Char(l, i - N)
      BY <3>1, <1>4, <1>5
    <3> QED BY <3>1, <3>2
  <2>3. CASE i > N + k /\ i <= N + k + Len(s)
    <3>1. i - (N + k) \in 1 .. Len(s) /\ k + (i - (N + k)) = i - N /\ ~(i <= N)
      BY <2>0, <2>3, <1>4, <1>b
    <3>2. u.cells[i] = s[i - (N + k)]
      BY <2>3, <1>4
    <3>3. s[i - (N + k)] = Char(m, k + (i - (N + k)))
      BY <3>1
    <3> QED BY <3>1, <3>2, <3>3
  <2>4. CASE i > N + k + Len(s)
    <3>1. i - N \in Nat /\ i - N > k + Len(s) /\ ~(i <= N) /\ ~(i <= N + k + Len(s))
      BY <2>0, <2>4, <1>4, <1>b
    <3>2. u.cells[i] = Char(l, i - N)
      BY <2>4, <3>1, <1>4, <1>5
    <3> QED BY <3>1, <3>2
  <2> QED BY <2>0, <2>1, <2>2, <2>3, <2>4, <1>4, <1>b
<1> QED BY <1>4, <1>5, <1>b

\* Moving the cursor back.
LEMMA MoveLeft ==
  ASSUME NEW t \in Screens, NEW n \in Nat, NEW l, NEW k \in Nat, Shows(t, n, l, k),
         NEW d \in 0 .. k, NEW u, u = Left(t, d)
  PROVE  u \in Screens /\ Shows(u, n, l, k - d)
<1>1. /\ u \in Screens /\ u.ok = t.ok /\ u.off = t.off /\ u.base = t.base /\ u.cells = t.cells
      /\ (d <= t.at => u.at = t.at - d) /\ t.at \in Nat /\ t.base \in Nat
  BY LeftFacts DEF Screens
<1>2. t.at = t.base + n + k => d <= t.at /\ t.at - d = t.base + n + (k - d)
  BY <1>1
<1> QED BY <1>1, <1>2 DEF Shows

\* The prompt at the cursor, with nothing to the right.
LEMMA PromptDrawn ==
  ASSUME NEW t \in Screens, NEW u, u = DrawPrompt(t),
         t.ok /\ ~t.off => \A i \in Columns : i > t.at => t.cells[i] = SPACE
  PROVE  u \in Screens /\ Shows(u, PROMPT, << >>, 0)
<1>0. PROMPT \in Nat
  BY ConsoleAssumption
<1> DEFINE marks == Marks
           b == t.at
           w == [t EXCEPT !.base = b]
<1>1. marks \in Seq(Glyphs) /\ Len(marks) = PROMPT /\ \A i \in 1 .. PROMPT : marks[i] = MARK
  <2>1. MARK \in Glyphs
    BY DEF Glyphs
  <2> QED BY <1>0, <2>1 DEF Marks
<1>2. /\ w \in Screens /\ w.at = b /\ w.base = b /\ w.ok = t.ok /\ w.off = t.off
      /\ w.cells = t.cells /\ b \in Nat
  BY DEF Screens
<1>3. u = Put(w, marks)
  BY DEF DrawPrompt
<1>4. t.ok /\ ~t.off => \A i \in Columns : i > b => t.cells[i] = SPACE
  OBVIOUS
<1> HIDE DEF marks, b, w
<1>5. /\ u \in Screens
      /\ u.ok => /\ w.ok /\ u.off = w.off /\ u.base = w.base /\ u.at = w.at + Len(marks)
                 /\ \A i \in Columns :
                      u.cells[i] = IF i > w.at /\ i <= w.at + Len(marks) THEN marks[i - w.at] ELSE w.cells[i]
  BY <1>1, <1>2, <1>3, PutFacts
<1>6. SUFFICES ASSUME u.ok, ~u.off, u.base = b
               PROVE  /\ u.at = b + PROMPT + 0
                      /\ \A i \in Columns : i > b =>
                           u.cells[i] = IF i <= b + PROMPT THEN MARK ELSE Char(<< >>, i - (b + PROMPT))
  BY <1>2, <1>5 DEF Shows
<1>7. u.at = b + PROMPT + 0
  BY <1>0, <1>1, <1>2, <1>5, <1>6
<1>8. ASSUME NEW i \in Columns, i > b
      PROVE  u.cells[i] = IF i <= b + PROMPT THEN MARK ELSE Char(<< >>, i - (b + PROMPT))
  <2>1. i \in Int
    BY DEF Columns
  <2>2. u.cells[i] = IF i <= b + PROMPT THEN marks[i - b] ELSE SPACE
    BY <1>1, <1>2, <1>4, <1>5, <1>6, <1>8
  <2>3. CASE i <= b + PROMPT
    <3>1. i - b \in 1 .. PROMPT
      BY <1>0, <1>2, <1>8, <2>1, <2>3
    <3> QED BY <1>1, <2>2, <2>3, <3>1
  <2>4. CASE ~(i <= b + PROMPT)
    <3>1. ~(i - (b + PROMPT) <= 0)
      BY <1>0, <1>2, <2>1, <2>4
    <3>2. Char(<< >>, i - (b + PROMPT)) = SPACE
      BY <3>1 DEF Char
    <3> QED BY <2>2, <2>4, <3>2
  <2> QED BY <2>3, <2>4
<1> QED BY <1>7, <1>8

LEMMA PromptShown ==
  ASSUME NEW b \in STARTS, NEW l \in Seq(Chars), NEW c \in 0 .. Len(l), NEW u, u = Prompted(b, l, c)
  PROVE  u \in Screens /\ Shows(u, PROMPT, l, c)
<1>0. PROMPT \in Nat /\ b \in Nat
  BY ConsoleAssumption
<1> DEFINE r == Row(b)
           t == DrawPrompt(r)
           v == Put(t, l)
<1>1. u = Left(v, Len(l) - c)
  BY DEF Prompted
<1>2. r \in Screens /\ (\A i \in Columns : i > r.at => r.cells[i] = SPACE)
  BY <1>0, RowFacts
<1>x. t = DrawPrompt(r) /\ v = Put(t, l)
  OBVIOUS
<1> HIDE DEF r, t, v
<1>3. t \in Screens /\ Shows(t, PROMPT, << >>, 0)
  BY <1>2, <1>x, PromptDrawn
<1>4. v \in Screens /\ Shows(v, PROMPT, l, 0 + Len(l))
  <2>1. << >> \in Seq(Chars)
    OBVIOUS
  <2>2. \A j \in 1 .. Len(l) : l[j] = Char(l, 0 + j)
    BY DEF Char
  <2>3. \A j \in Nat : j > 0 + Len(l) => Char(l, j) = Char(<< >>, j)
    BY DEF Char
  <2>4. \A j \in 1 .. 0 : Char(l, j) = Char(<< >>, j)
    OBVIOUS
  <2> QED BY <1>0, <1>3, <1>x, <2>1, <2>2, <2>3, <2>4, Overwrite
<1>5. Len(l) \in Nat /\ 0 + Len(l) = Len(l) /\ Len(l) - c \in 0 .. Len(l) /\ Len(l) - (Len(l) - c) = c
  OBVIOUS
<1>6. Shows(v, PROMPT, l, Len(l))
  BY <1>4, <1>5
<1>7. u \in Screens /\ Shows(u, PROMPT, l, Len(l) - (Len(l) - c))
  BY <1>0, <1>1, <1>4, <1>5, <1>6, MoveLeft
<1> QED BY <1>5, <1>7

LEMMA RowShown ==
  ASSUME NEW b \in STARTS
  PROVE  Row(b) \in Screens /\ Shows(Row(b), 0, << >>, 0)
<1>0. b \in Nat
  BY ConsoleAssumption
<1> DEFINE w == Row(b)
<1>1. w \in Screens /\ w.at = b /\ w.base = b /\ \A i \in Columns : i > b => w.cells[i] = SPACE
  BY <1>0, RowFacts
<1> HIDE DEF w
<1>2. ASSUME NEW i \in Columns, i > b
      PROVE  w.cells[i] = IF i <= b + 0 THEN MARK ELSE Char(<< >>, i - (b + 0))
  <2>1. i \in Int /\ ~(i <= b + 0) /\ ~(i - (b + 0) <= 0)
    BY <1>0, <1>2 DEF Columns
  <2>2. Char(<< >>, i - (b + 0)) = SPACE
    BY <2>1 DEF Char
  <2> QED BY <1>1, <1>2, <2>1, <2>2
<1>3. w.at = w.base + 0 + 0
  BY <1>0, <1>1
<1>4. Shows(w, 0, << >>, 0)
  BY <1>1, <1>2, <1>3 DEF Shows
<1> QED BY <1>1, <1>4 DEF w

\* Writing the rest of line m over a line l that is no longer, or that is
\* longer by the character the space covers.
LEMMA WriteRest ==
  ASSUME NEW t \in Screens, NEW n \in Nat, NEW l \in Seq(Chars), NEW m \in Seq(Chars),
         NEW k \in 0 .. Len(m), k <= Len(l), Shows(t, n, l, k), \A j \in 1 .. k : m[j] = l[j]
  PROVE  /\ Len(l) <= Len(m) =>
              Put(t, Rest(m, k)) \in Screens /\ Shows(Put(t, Rest(m, k)), n, m, Len(m))
         /\ Len(l) <= Len(m) + 1 =>
              /\ Put(t, Covered(Rest(m, k))) \in Screens
              /\ Shows(Put(t, Covered(Rest(m, k))), n, m, Len(m) + 1)
              /\ Len(Covered(Rest(m, k))) = Len(m) - k + 1
<1>0. Len(l) \in Nat /\ Len(m) \in Nat /\ k \in Nat
  OBVIOUS
<1>1. \A j \in 1 .. k : Char(m, j) = Char(l, j)
  BY <1>0 DEF Char
<1>2. /\ Rest(m, k) \in Seq(Chars) /\ Len(Rest(m, k)) = Len(m) - k
      /\ \A j \in 1 .. Len(m) - k : Rest(m, k)[j] = m[k + j]
  BY Parts
<1> DEFINE s == Rest(m, k)
           c == Covered(s)
<1>3. s \in Seq(Chars) /\ Len(s) = Len(m) - k /\ \A j \in 1 .. Len(s) : s[j] = Char(m, k + j)
  BY <1>0, <1>2 DEF Char
<1>c. c = Append(s, SPACE)
  BY DEF Covered
<1> HIDE DEF s, c
<1>4. c \in Seq(Chars) /\ Len(c) = Len(m) - k + 1 /\ \A j \in 1 .. Len(c) : c[j] = Char(m, k + j)
  <2>1. SPACE \in Chars
    BY DEF Chars
  <2>2. /\ c \in Seq(Chars) /\ Len(c) = Len(s) + 1 /\ c[Len(s) + 1] = SPACE
        /\ \A j \in 1 .. Len(s) : c[j] = s[j]
    BY <1>3, <1>c, <2>1
  <2>3. Char(m, k + (Len(s) + 1)) = SPACE
    BY <1>0, <1>3 DEF Char
  <2>4. Len(c) = Len(m) - k + 1
    BY <1>0, <1>3, <2>2
  <2>5. ASSUME NEW j \in 1 .. Len(c) PROVE c[j] = Char(m, k + j)
    <3>0. Len(s) \in Nat
      BY <1>3
    <3>1. CASE j = Len(s) + 1
      BY <2>2, <2>3, <3>1
    <3>2. CASE j # Len(s) + 1
      <4>1. j \in 1 .. Len(s)
        BY <2>2, <3>0, <3>2
      <4> QED BY <4>1, <2>2, <1>3
    <3> QED BY <3>1, <3>2
  <2> QED BY <2>2, <2>4, <2>5
<1>5. ASSUME Len(l) <= Len(m)
      PROVE  Put(t, s) \in Screens /\ Shows(Put(t, s), n, m, Len(m))
  <2>1. k + Len(s) = Len(m)
    BY <1>0, <1>3
  <2>2. \A j \in Nat : j > k + Len(s) => Char(m, j) = Char(l, j)
    BY <1>0, <1>5, <2>1 DEF Char
  <2>3. Put(t, s) \in Screens /\ Shows(Put(t, s), n, m, k + Len(s))
    BY <1>0, <1>1, <1>3, <2>2, Overwrite
  <2> QED BY <2>1, <2>3
<1>6. ASSUME Len(l) <= Len(m) + 1
      PROVE  Put(t, c) \in Screens /\ Shows(Put(t, c), n, m, Len(m) + 1)
  <2>1. k + Len(c) = Len(m) + 1
    BY <1>0, <1>4
  <2>2. \A j \in Nat : j > k + Len(c) => Char(m, j) = Char(l, j)
    BY <1>0, <1>6, <2>1 DEF Char
  <2>3. Put(t, c) \in Screens /\ Shows(Put(t, c), n, m, k + Len(c))
    BY <1>0, <1>1, <1>4, <2>2, Overwrite
  <2> QED BY <2>1, <2>3
<1> QED BY <1>4, <1>5, <1>6 DEF s, c
-----------------------------------------------------------------------------
(* The keys *)

LEMMA Facts ==
  ASSUME Live
  PROVE  /\ line \in Seq(Chars) /\ Len(line) \in Nat /\ cursor_pos \in 0 .. Len(line)
         /\ Len(line) < MAX_LINE /\ screen \in Screens /\ prompted \in BOOLEAN
         /\ From \in Nat /\ Shows(screen, From, line, cursor_pos)
         /\ MAX_LINE \in Nat \ {0} /\ MAX_HIST \in Nat \ {0}
         /\ history \in Seq(Seq(Chars)) /\ Len(history) \in Nat /\ Len(history) <= MAX_HIST
         /\ history_index \in -1 .. Len(history) - 1
<1>1. From \in Nat
  BY ConsoleAssumption DEF From
<1> QED BY <1>1, ConsoleAssumption DEF Live, IInv, Overrun, Typed, LineFits, Shown

\* A key that changes the line and draws it, in front of the same prompt.
LEMMA EditKeeps ==
  ASSUME Live, line' \in Seq(Chars), shell' = "kernel" => Len(line') < MAX_LINE,
         cursor_pos' \in 0 .. Len(line'), history' = history, history_index' \in -1 .. Len(history) - 1,
         prompted' = prompted, screen' \in Screens, Shows(screen', From, line', cursor_pos'),
         shell' = "ush" => prompted
  PROVE  IInv'
<1>1. Typed' /\ LineFits' /\ HistoryFits'
  BY DEF Live, IInv, Typed, LineFits, HistoryFits
<1>2. WaitsEmpty'
  BY DEF WaitsEmpty
<1>3. Shown'
  BY DEF Shown, Shows, From
<1> QED BY <1>1, <1>2, <1>3 DEF Live, IInv

\* A step that draws the prompt and the line on a row of their own.
LEMMA RedrawKeeps ==
  ASSUME Live, line' \in Seq(Chars), Len(line') < MAX_LINE, cursor_pos' \in 0 .. Len(line'),
         history' \in Seq(Seq(Chars)), Len(history') <= MAX_HIST, HistoryFits',
         history_index' \in -1 .. Len(history') - 1,
         Redraw(line', cursor_pos')
  PROVE  IInv'
<1>1. PICK b \in STARTS : screen' = Prompted(b, line', cursor_pos')
  BY DEF Redraw
<1>2. prompted' = TRUE
  BY DEF Redraw
<1>3. screen' \in Screens /\ Shows(screen', PROMPT, line', cursor_pos')
  BY <1>1, PromptShown
<1>4. Typed' /\ LineFits'
  BY <1>2, <1>3 DEF Typed, LineFits, HistoryFits
<1>5. WaitsEmpty'
  BY <1>2 DEF WaitsEmpty
<1>6. Shown'
  BY <1>2, <1>3 DEF Shown, Shows, From
<1> QED BY <1>4, <1>5, <1>6 DEF Live, IInv

\* A step that leaves the line alone and ruins the row, or changes nothing.
LEMMA RestKeeps ==
  ASSUME IInv, UNCHANGED editVars, shell' = shell,
         \/ UNCHANGED <<screen, prompted>>
         \/ screen' = Garbled /\ prompted' = prompted
  PROVE  IInv'
<1>0. line' = line /\ cursor_pos' = cursor_pos /\ history' = history /\ history_index' = history_index
  BY DEF editVars
<1>1. Typed' /\ LineFits' /\ HistoryFits'
  BY <1>0, GarbledFacts DEF IInv, Typed, LineFits, HistoryFits
<1>2. WaitsEmpty'
  BY <1>0 DEF WaitsEmpty, IInv
<1>3. Shown'
  BY <1>0, GarbledFacts DEF Shown, Shows, From, IInv
<1> QED BY <1>1, <1>2, <1>3 DEF IInv

LEMMA InsertStep ==
  ASSUME Live, Reading, NEW c \in Chars, Insert(c)
  PROVE  IInv'
<1> DEFINE n == From
           k == cursor_pos
           t == Put(screen, Rest(line', k))
<1>0. /\ line \in Seq(Chars) /\ Len(line) \in Nat /\ k \in 0 .. Len(line)
      /\ screen \in Screens /\ n \in Nat /\ Shows(screen, n, line, k) /\ MAX_LINE \in Nat
      /\ history_index \in -1 .. Len(history) - 1
  BY Facts
<1>1. /\ Len(line) < MAX_LINE - 1 /\ line' = InsertAt(line, k + 1, c) /\ cursor_pos' = k + 1
      /\ screen' = Left(t, Len(line) - k) /\ prompted' = prompted
      /\ shell' = shell /\ history' = history /\ history_index' = history_index
  BY DEF Insert, Draw
<1> HIDE DEF n, k, t
<1>2. line' \in Seq(Chars) /\ Len(line') = Len(line) + 1 /\ \A j \in 1 .. k : line'[j] = line[j]
  <2>1. line \in Seq(Chars) /\ k \in 0 .. Len(line) /\ c \in Chars
    BY <1>0
  <2>2. PICK p : p = k + 1
    OBVIOUS
  <2>3. line' = InsertAt(line, p, c)
    BY <1>1, <2>2, Zenon
  <2>4. line' \in Seq(Chars) /\ Len(line') = Len(line) + 1
    BY <2>1, <2>2, <2>3, Inserted
  <2>5. \A j \in 1 .. k : line'[j] = line[j]
    <3>1. \A C : \A l \in Seq(C) : \A i \in 0 .. Len(l) : \A x \in C : \A r :
             r = i + 1 => \A j \in 1 .. i : InsertAt(l, r, x)[j] = l[j]
      BY Inserted
    <3>2. \A j \in 1 .. k : InsertAt(line, p, c)[j] = line[j]
      BY <3>1, <2>1, <2>2
    <3> QED BY <3>2, <2>3
  <2> QED BY <2>4, <2>5
<1>3. k \in 0 .. Len(line') /\ k <= Len(line) /\ Len(line) <= Len(line') /\ \A j \in 1 .. k : line'[j] = line[j]
  BY <1>0, <1>2
<1>4. t \in Screens /\ Shows(t, n, line', Len(line'))
  BY <1>0, <1>2, <1>3, WriteRest DEF t
<1>5. Len(line') \in Nat /\ Len(line) - k \in 0 .. Len(line') /\ Len(line') - (Len(line) - k) = k + 1
  BY <1>0, <1>2
<1>6. screen' \in Screens /\ Shows(screen', n, line', Len(line') - (Len(line) - k))
  BY <1>0, <1>1, <1>4, <1>5, MoveLeft
<1>7. /\ Shows(screen', From, line', cursor_pos') /\ Len(line') < MAX_LINE
      /\ cursor_pos' \in 0 .. Len(line')
  BY <1>0, <1>1, <1>2, <1>5, <1>6 DEF n
<1>8. shell' = "ush" => prompted
  BY <1>1 DEF Reading
<1> QED BY <1>0, <1>1, <1>2, <1>6, <1>7, <1>8, EditKeeps

LEMMA BackspaceStep ==
  ASSUME Live, Reading, Backspace
  PROVE  IInv'
<1> DEFINE n == From
           k == cursor_pos
           s == Left(screen, 1)
           d == Covered(Rest(line', k - 1))
           t == Put(s, d)
<1>0. /\ line \in Seq(Chars) /\ Len(line) \in Nat /\ k \in 0 .. Len(line) /\ Len(line) < MAX_LINE
      /\ screen \in Screens /\ n \in Nat /\ Shows(screen, n, line, k) /\ MAX_LINE \in Nat
      /\ history_index \in -1 .. Len(history) - 1
  BY Facts
<1>1. /\ k > 0 /\ line' = RemoveAt(line, k) /\ cursor_pos' = k - 1
      /\ screen' = Left(t, Len(d)) /\ prompted' = prompted
      /\ shell' = shell /\ history' = history /\ history_index' = history_index
  BY DEF Backspace, Draw
<1>x. s = Left(screen, 1) /\ d = Covered(Rest(line', k - 1)) /\ t = Put(s, d)
  OBVIOUS
<1> HIDE DEF n, k, s, t, d
<1>2. k \in 1 .. Len(line) /\ k \in Nat /\ 1 \in 0 .. k
  BY <1>0, <1>1
<1>3. /\ line' \in Seq(Chars) /\ Len(line') = Len(line) - 1
      /\ \A j \in 1 .. k - 1 : line'[j] = line[j]
  <2>1. line \in Seq(Chars) /\ k \in 1 .. Len(line)
    BY <1>0, <1>2
  <2>2. line' = RemoveAt(line, k)
    BY <1>1
  <2>3. \A C : \A l \in Seq(C) : \A i \in 1 .. Len(l) :
           /\ RemoveAt(l, i) \in Seq(C) /\ Len(RemoveAt(l, i)) = Len(l) - 1
           /\ \A j \in 1 .. i - 1 : RemoveAt(l, i)[j] = l[j]
    BY Removed
  <2>4. /\ RemoveAt(line, k) \in Seq(Chars) /\ Len(RemoveAt(line, k)) = Len(line) - 1
        /\ \A j \in 1 .. k - 1 : RemoveAt(line, k)[j] = line[j]
    BY <2>1, <2>3
  <2> QED BY <2>2, <2>4, Zenon
<1>4. s \in Screens /\ Shows(s, n, line, k - 1)
  BY <1>0, <1>2, <1>x, MoveLeft
<1>5. /\ k - 1 \in 0 .. Len(line') /\ k - 1 <= Len(line) /\ Len(line) <= Len(line') + 1
      /\ \A j \in 1 .. k - 1 : line'[j] = line[j]
  BY <1>0, <1>2, <1>3
<1>6. /\ t \in Screens /\ Shows(t, n, line', Len(line') + 1) /\ Len(d) = Len(line') - (k - 1) + 1
  <2> DEFINE j == k - 1
  <2>1. /\ s \in Screens /\ n \in Nat /\ line \in Seq(Chars) /\ line' \in Seq(Chars)
        /\ j \in 0 .. Len(line') /\ j <= Len(line) /\ Shows(s, n, line, j)
        /\ \A i \in 1 .. j : line'[i] = line[i]
    BY <1>0, <1>3, <1>4, <1>5
  <2>2. Len(line) <= Len(line') + 1
    BY <1>5
  <2>3. d = Covered(Rest(line', j)) /\ t = Put(s, d)
    BY <1>x
  <2> HIDE DEF j
  <2>4. /\ Put(s, Covered(Rest(line', j))) \in Screens
        /\ Shows(Put(s, Covered(Rest(line', j))), n, line', Len(line') + 1)
        /\ Len(Covered(Rest(line', j))) = Len(line') - j + 1
    BY <2>1, <2>2, WriteRest
  <2>5. t \in Screens /\ Shows(t, n, line', Len(line') + 1) /\ Len(d) = Len(line') - j + 1
    BY <2>3, <2>4
  <2> QED BY <2>5 DEF j
<1>7. Len(line') + 1 \in Nat /\ Len(d) \in 0 .. Len(line') + 1 /\ Len(line') + 1 - Len(d) = k - 1
  BY <1>2, <1>3, <1>5, <1>6
<1>8. screen' \in Screens /\ Shows(screen', n, line', Len(line') + 1 - Len(d))
  BY <1>0, <1>1, <1>6, <1>7, MoveLeft
<1>9. /\ Shows(screen', From, line', cursor_pos') /\ Len(line') < MAX_LINE
      /\ cursor_pos' \in 0 .. Len(line')
  BY <1>0, <1>1, <1>3, <1>5, <1>7, <1>8 DEF n
<1>10. shell' = "ush" => prompted
  BY <1>1 DEF Reading
<1> QED BY <1>0, <1>1, <1>3, <1>8, <1>9, <1>10, EditKeeps

LEMMA ArrowStep ==
  ASSUME Live, Reading, KeyLeft \/ KeyRight
  PROVE  IInv'
<1> DEFINE n == From
           k == cursor_pos
<1>0. /\ line \in Seq(Chars) /\ Len(line) \in Nat /\ k \in 0 .. Len(line) /\ Len(line) < MAX_LINE
      /\ screen \in Screens /\ n \in Nat /\ Shows(screen, n, line, k) /\ MAX_LINE \in Nat
      /\ history_index \in -1 .. Len(history) - 1 /\ k \in Nat
  BY Facts
<1>1. /\ line' = line /\ prompted' = prompted
      /\ shell' = shell /\ history' = history /\ history_index' = history_index
  BY DEF KeyLeft, KeyRight, Draw
<1>8. shell' = "ush" => prompted
  BY <1>1 DEF Reading
<1>2. CASE KeyLeft
  <2>1. k > 0 /\ cursor_pos' = k - 1 /\ screen' = Left(screen, 1)
    BY <1>2 DEF KeyLeft, Draw
  <2> HIDE DEF n, k
  <2>2. screen' \in Screens /\ Shows(screen', n, line, k - 1)
    <3>1. 1 \in 0 .. k
      BY <1>0, <2>1
    <3> QED BY <1>0, <2>1, <3>1, MoveLeft
  <2>3. Shows(screen', From, line', cursor_pos') /\ cursor_pos' \in 0 .. Len(line')
    BY <1>0, <1>1, <2>1, <2>2 DEF n
  <2> QED BY <1>0, <1>1, <1>8, <2>2, <2>3, EditKeeps
<1>3. CASE KeyRight
  <2> DEFINE s == <<line[k + 1]>>
  <2>1. k < Len(line) /\ cursor_pos' = k + 1 /\ screen' = Put(screen, s)
    BY <1>3 DEF KeyRight, Draw
  <2>2. s \in Seq(Chars) /\ Len(s) = 1 /\ s[1] = line[k + 1]
    <3>1. line[k + 1] \in Chars
      BY <1>0, <2>1
    <3> QED BY <3>1
  <2>3. s[1] = Char(line, k + 1)
    BY <1>0, <2>1, <2>2 DEF Char
  <2> HIDE DEF n, k, s
  <2>4. screen' \in Screens /\ Shows(screen', n, line, k + Len(s))
    <3>1. \A j \in 1 .. Len(s) : s[j] = Char(line, k + j)
      BY <2>2, <2>3
    <3> QED BY <1>0, <2>1, <2>2, <3>1, Overwrite
  <2>5. Shows(screen', From, line', cursor_pos') /\ cursor_pos' \in 0 .. Len(line')
    BY <1>0, <1>1, <2>1, <2>2, <2>4 DEF n
  <2> QED BY <1>0, <1>1, <1>8, <2>4, <2>5, EditKeeps
<1> QED BY <1>2, <1>3

\* clear_display_line leaves the prompt alone on its row.
LEMMA ClearedShows ==
  ASSUME Live
  PROVE  Cleared \in Screens /\ Shows(Cleared, From, << >>, 0)
<1> DEFINE n == From
           k == cursor_pos
           N == Len(line)
           t == Put(screen, Rest(line, k))
           u == Left(t, N)
           v == Put(u, Blanks(N))
<1>0. /\ line \in Seq(Chars) /\ N \in Nat /\ k \in 0 .. N /\ screen \in Screens
      /\ n \in Nat /\ Shows(screen, n, line, k)
  BY Facts
<1>x. /\ t = Put(screen, Rest(line, k)) /\ u = Left(t, N) /\ v = Put(u, Blanks(N))
      /\ Cleared = Left(v, N) /\ N = Len(line)
  BY DEF Cleared, Erase
<1> HIDE DEF n, k, N, t, u, v
<1>1. t \in Screens /\ Shows(t, n, line, N)
  <2>1. k \in 0 .. Len(line) /\ k <= Len(line) /\ Len(line) <= Len(line) /\ \A j \in 1 .. k : line[j] = line[j]
    BY <1>0, <1>x
  <2>2. Put(screen, Rest(line, k)) \in Screens /\ Shows(Put(screen, Rest(line, k)), n, line, Len(line))
    BY <2>1, <1>0, WriteRest
  <2> QED BY <2>2, <1>x
<1>2. u \in Screens /\ Shows(u, n, line, 0)
  <2>1. N \in 0 .. N /\ N - N = 0
    BY <1>0
  <2>2. u \in Screens /\ Shows(u, n, line, N - N)
    BY <1>0, <1>1, <1>x, <2>1, MoveLeft
  <2> QED BY <2>1, <2>2
<1>3. v \in Screens /\ Shows(v, n, << >>, N)
  <2> DEFINE b == Blanks(N)
  <2>1. b \in Seq(Chars) /\ Len(b) = N /\ \A j \in 1 .. N : b[j] = SPACE
    BY <1>0 DEF Blanks, Chars
  <2>2. v = Put(u, b) /\ << >> \in Seq(Chars) /\ 0 \in Nat
    BY <1>x
  <2> HIDE DEF b
  <2>3. \A j \in Nat : j > 0 => Char(<< >>, j) = SPACE
    BY DEF Char
  <2>4. \A j \in 1 .. 0 : Char(<< >>, j) = Char(line, j)
    OBVIOUS
  <2>5. \A j \in 1 .. Len(b) : b[j] = Char(<< >>, 0 + j)
    BY <1>0, <2>1, <2>3
  <2>6. \A j \in Nat : j > 0 + Len(b) => Char(<< >>, j) = Char(line, j)
    BY <1>0, <1>x, <2>1 DEF Char
  <2>7. v \in Screens /\ Shows(v, n, << >>, 0 + Len(b))
    BY <1>0, <1>2, <2>1, <2>2, <2>4, <2>5, <2>6, Overwrite
  <2> QED BY <1>0, <2>1, <2>7
<1>4. Cleared \in Screens /\ Shows(Cleared, n, << >>, N - N)
  <2>1. N \in 0 .. N
    BY <1>0
  <2> QED BY <1>0, <1>3, <1>x, <2>1, MoveLeft
<1> QED BY <1>0, <1>4 DEF n

LEMMA LoadStep ==
  ASSUME Live, Reading, NEW i \in -1 .. Len(history) - 1, Load(i)
  PROVE  IInv'
<1> DEFINE n == From
           t == Cleared
<1>0. n \in Nat /\ MAX_LINE \in Nat \ {0} /\ history \in Seq(Seq(Chars)) /\ Len(history) \in Nat
  BY Facts
<1>1. /\ history_index' = i /\ line' = (IF i < 0 THEN << >> ELSE history[Len(history) - i])
      /\ cursor_pos' = Len(line') /\ screen' = Put(t, line') /\ prompted' = prompted
      /\ shell' = shell /\ history' = history
  BY DEF Load, Draw
<1>2. t \in Screens /\ Shows(t, n, << >>, 0)
  BY ClearedShows
<1> HIDE DEF n, t
<1>3. line' \in Seq(Chars) /\ Len(line') < MAX_LINE /\ Len(line') \in Nat
  <2>1. CASE i < 0
    BY <1>0, <1>1, <2>1
  <2>2. CASE ~(i < 0)
    <3>1. Len(history) - i \in 1 .. Len(history)
      BY <1>0, <2>2
    <3>2. history[Len(history) - i] \in Seq(Chars) /\ Len(history[Len(history) - i]) < MAX_LINE
      BY <1>0, <3>1 DEF Live, IInv, HistoryFits
    <3> QED BY <1>1, <2>2, <3>2
  <2> QED BY <2>1, <2>2
<1>4. screen' \in Screens /\ Shows(screen', n, line', 0 + Len(line'))
  <2>0. PICK m, u : m = line' /\ u = screen'
    OBVIOUS
  <2>1. << >> \in Seq(Chars) /\ 0 \in Nat /\ m \in Seq(Chars) /\ u = Put(t, m)
    BY <1>1, <1>3, <2>0
  <2>2. \A j \in 1 .. Len(m) : m[j] = Char(m, 0 + j)
    BY <2>1 DEF Char
  <2>3. \A j \in Nat : j > 0 + Len(m) => Char(m, j) = Char(<< >>, j)
    BY <2>1 DEF Char
  <2>4. \A j \in 1 .. 0 : Char(m, j) = Char(<< >>, j)
    OBVIOUS
  <2>5. u \in Screens /\ Shows(u, n, m, 0 + Len(m))
    BY <1>0, <1>2, <2>1, <2>2, <2>3, <2>4, Overwrite
  <2> QED BY <2>0, <2>5
<1>5. Shows(screen', From, line', cursor_pos') /\ cursor_pos' \in 0 .. Len(line')
  BY <1>1, <1>3, <1>4 DEF n
<1>6. shell' = "ush" => prompted
  BY <1>1 DEF Reading
<1> QED BY <1>1, <1>3, <1>4, <1>5, <1>6, EditKeeps

LEMMA CompleteStep ==
  ASSUME Live, Reading, NEW w \in COMMANDS \cup FILES, Complete(w)
  PROVE  IInv'
<1> DEFINE n == From
           k == cursor_pos
           back == IF shell = "kernel" THEN WordEnd - WordStart ELSE cursor_pos - WordStart
           drawn == Left(Put(Left(screen, back), Covered(Rest(line', WordStart))),
                         Len(line') - cursor_pos' + 1)
           wrong == back # k - WordStart \/ Len(line') < Len(line) - 1
<1>0. /\ line \in Seq(Chars) /\ Len(line) \in Nat /\ k \in 0 .. Len(line)
      /\ screen \in Screens /\ n \in Nat /\ Shows(screen, n, line, k) /\ k \in Nat
      /\ history_index \in -1 .. Len(history) - 1
  BY Facts
<1>1. WordStart \in 0 .. k /\ WordEnd \in k .. Len(line)
  BY WordBounds DEF Live, IInv
<1>2. /\ line' = Completed(w) /\ cursor_pos' = WordStart + Len(w)
      /\ shell = "kernel" => Len(line') < MAX_LINE
      /\ screen' = Spoil(drawn, wrong)
      /\ prompted' = prompted /\ shell' = shell /\ history' = history /\ history_index' = history_index
  BY DEF Complete, Draw, Fits
<1>3. PICK a, e : a = WordStart /\ e = WordEnd
  OBVIOUS
<1>b. back \in Nat /\ (back = k - a \/ back = e - a)
  BY <1>0, <1>1, <1>3
<1>d. drawn = Left(Put(Left(screen, back), Covered(Rest(line', a))), Len(line') - cursor_pos' + 1)
  BY <1>3
<1>g. wrong \in BOOLEAN /\ (~wrong => back = k - a /\ ~(Len(line') < Len(line) - 1))
  BY <1>3
<1> HIDE DEF n, k, back, drawn, wrong
<1>4. a \in 0 .. k /\ a \in 0 .. Len(line) /\ e \in a .. Len(line) /\ a \in Nat
  BY <1>0, <1>1, <1>3
<1>w. w \in Seq(Chars)
  <2>1. w \in Seq(Letters)
    BY ConsoleAssumption
  <2>2. Letters \subseteq Chars
    BY DEF Chars
  <2> QED BY <2>1, <2>2
<1>5. /\ line' \in Seq(Chars) /\ Len(line') = a + Len(w) + (Len(line) - e)
      /\ \A j \in 1 .. a : line'[j] = line[j]
  <2>1. line' = SubSeq(line, 1, a) \o w \o Rest(line, e)
    BY <1>2, <1>3 DEF Completed
  <2>2. PICK x, y, z, m : x = SubSeq(line, 1, a) /\ y = Rest(line, e) /\ z = x \o w /\ m = z \o y
    OBVIOUS
  <2>3. line' = m
    BY <2>1, <2>2, Zenon
  <2>4. line \in Seq(Chars) /\ a \in 0 .. Len(line) /\ e \in a .. Len(line) /\ w \in Seq(Chars)
    BY <1>0, <1>4, <1>w
  <2>5. m \in Seq(Chars) /\ Len(m) = a + Len(w) + (Len(line) - e)
    <3>1. m \in Seq(Chars)
      BY <2>2, <2>4, Replaced
    <3>2. x \in Seq(Chars) /\ Len(x) = a
      BY <2>2, <2>4, Parts
    <3>3. y \in Seq(Chars) /\ Len(y) = Len(line) - e
      <4>1. e \in 0 .. Len(line)
        BY <2>4
      <4> QED BY <2>2, <2>4, <4>1, Parts
    <3>4. z \in Seq(Chars) /\ Len(z) = a + Len(w)
      BY <2>2, <2>4, <3>2
    <3>5. Len(m) = Len(z) + Len(y)
      BY <2>2, <3>3, <3>4
    <3>6. Len(m) = a + Len(w) + (Len(line) - e)
      BY <3>3, <3>4, <3>5
    <3> QED BY <3>1, <3>6
  <2>6. \A j \in 1 .. a : m[j] = line[j]
    BY <2>2, <2>4, Replaced
  <2> QED BY <2>3, <2>5, <2>6
<1>6. /\ cursor_pos' = a + Len(w) /\ cursor_pos' \in 0 .. Len(line') /\ a \in 0 .. Len(line')
      /\ Len(line') \in Nat
  <2>1. Len(w) \in Nat
    BY <1>w
  <2> QED BY <1>0, <1>2, <1>3, <1>4, <1>5, <2>1
<1>7. drawn \in Screens /\ (~wrong => Shows(drawn, n, line', cursor_pos'))
  <2>0. PICK m, s, c, t, u : /\ m = line' /\ s = Left(screen, back) /\ c = Covered(Rest(m, a))
                             /\ t = Put(s, c) /\ u = Len(line') - cursor_pos' + 1
    OBVIOUS
  <2>1. drawn = Left(t, u)
    BY <1>d, <2>0
  <2>2. u \in Nat /\ m \in Seq(Chars) /\ a \in 0 .. Len(m)
    BY <1>5, <1>6, <2>0
  <2>3. s \in Screens
    BY <1>0, <1>b, <2>0, LeftFacts
  <2>4. c \in Seq(Glyphs)
    <3>1. Rest(m, a) \in Seq(Chars)
      BY <2>2, Parts
    <3>2. Chars \subseteq Glyphs /\ SPACE \in Glyphs
      BY DEF Glyphs, Chars
    <3>3. Rest(m, a) \in Seq(Glyphs)
      BY <3>1, <3>2
    <3> QED BY <2>0, <3>2, <3>3 DEF Covered
  <2>5. t \in Screens
    BY <2>0, <2>3, <2>4, PutFacts
  <2>6. drawn \in Screens
    BY <2>1, <2>2, <2>5, LeftFacts
  <2>7. ASSUME ~wrong PROVE Shows(drawn, n, line', cursor_pos')
    <3>0. PICK d : d = k - a
      OBVIOUS
    <3>1. d \in 0 .. k /\ k - d = a /\ s = Left(screen, d)
      BY <1>0, <1>4, <1>g, <2>0, <2>7, <3>0
    <3>2. Shows(s, n, line, a)
      <4>1. Shows(s, n, line, k - d)
        BY <1>0, <3>1, MoveLeft
      <4> QED BY <3>1, <4>1
    <3>3. Shows(t, n, m, Len(m) + 1)
      <4>1. /\ m \in Seq(Chars) /\ a \in 0 .. Len(m) /\ a <= Len(line) /\ Len(line) <= Len(m) + 1
            /\ \A i \in 1 .. a : m[i] = line[i]
        <5>1. m = line'
          BY <2>0
        <5>2. a <= Len(line) /\ Len(line) <= Len(line') + 1
          BY <1>0, <1>4, <1>6, <1>g, <2>7
        <5> QED BY <1>5, <1>6, <5>1, <5>2, Zenon
      <4>2. Shows(Put(s, Covered(Rest(m, a))), n, m, Len(m) + 1)
        BY <1>0, <2>3, <3>2, <4>1, WriteRest
      <4> QED BY <2>0, <4>2
    <3>4. PICK i : i = Len(m) + 1
      OBVIOUS
    <3>5. i \in Nat /\ u \in 0 .. i /\ i - u = cursor_pos'
      BY <1>6, <2>0, <3>4
    <3>6. Shows(drawn, n, m, i - u)
      BY <1>0, <2>1, <2>5, <3>3, <3>4, <3>5, MoveLeft
    <3> QED BY <2>0, <3>5, <3>6
  <2> QED BY <2>6, <2>7
<1>9. screen' \in Screens /\ Shows(screen', n, line', cursor_pos')
  BY <1>2, <1>7, <1>g, SpoilFacts
<1>8. shell' = "ush" => prompted
  BY <1>2 DEF Reading
<1> QED BY <1>0, <1>2, <1>5, <1>6, <1>9, <1>8, EditKeeps DEF n

LEMMA TabStep ==
  ASSUME Live, Reading, KeyTab
  PROVE  IInv'
<1>1. CASE \E w \in Matches : Complete(w)
  <2>1. PICK w \in Matches : Complete(w)
    BY <1>1
  <2>2. w \in COMMANDS \cup FILES
    BY DEF Matches
  <2> QED BY <2>1, <2>2, CompleteStep
<1>2. CASE List
  <2>1. /\ line' = line /\ cursor_pos' = cursor_pos /\ history' = history
        /\ history_index' = history_index /\ Redraw(line, cursor_pos)
    BY <1>2 DEF List, editVars
  <2>2. HistoryFits' /\ Redraw(line', cursor_pos')
    BY <2>1 DEF Live, IInv, HistoryFits, Redraw
  <2>3. /\ line \in Seq(Chars) /\ cursor_pos \in 0 .. Len(line) /\ Len(line) < MAX_LINE
        /\ history \in Seq(Seq(Chars)) /\ Len(history) <= MAX_HIST
        /\ history_index \in -1 .. Len(history) - 1
    BY Facts
  <2> QED BY <2>1, <2>2, <2>3, RedrawKeeps
<1> QED BY <1>1, <1>2 DEF KeyTab

\* Ctrl+L and Ctrl+C.
LEMMA ClearStep ==
  ASSUME Live, KeyClear \/ KeyCancel
  PROVE  IInv'
<1>1. history' = history /\ HistoryFits'
  BY DEF KeyClear, KeyCancel, editVars, Live, IInv, HistoryFits
<1>2. /\ line \in Seq(Chars) /\ cursor_pos \in 0 .. Len(line) /\ Len(line) < MAX_LINE
      /\ history \in Seq(Seq(Chars)) /\ Len(history) \in Nat /\ Len(history) <= MAX_HIST
      /\ history_index \in -1 .. Len(history) - 1 /\ MAX_LINE \in Nat \ {0}
  BY Facts
<1>3. /\ line' \in Seq(Chars) /\ cursor_pos' \in 0 .. Len(line') /\ Len(line') < MAX_LINE
      /\ history_index' \in -1 .. Len(history) - 1
  <2>1. CASE KeyClear
    <3>1. line' = line /\ cursor_pos' = cursor_pos /\ history_index' = history_index
      BY <2>1 DEF KeyClear, editVars
    <3> QED BY <1>2, <3>1
  <2>2. CASE KeyCancel
    <3>1. line' = << >> /\ cursor_pos' = 0 /\ history_index' = -1
      BY <2>2 DEF KeyCancel, NewLine
    <3> QED BY <1>2, <3>1
  <2> QED BY <2>1, <2>2
<1>4. Redraw(line', cursor_pos')
  BY DEF KeyClear, KeyCancel, NewLine, editVars, Redraw
<1> QED BY <1>1, <1>2, <1>3, <1>4, RedrawKeeps

\* push_history keeps the newest lines.
LEMMA PushedFits ==
  ASSUME Live
  PROVE  /\ Pushed \in Seq(Seq(Chars)) /\ Len(Pushed) <= MAX_HIST /\ Len(Pushed) \in Nat
         /\ \A i \in 1 .. Len(Pushed) : Len(Pushed[i]) < MAX_LINE
<1>0. /\ line \in Seq(Chars) /\ Len(line) < MAX_LINE
      /\ history \in Seq(Seq(Chars)) /\ Len(history) \in Nat /\ Len(history) <= MAX_HIST
      /\ MAX_HIST \in Nat \ {0}
  BY Facts
<1>1. \A i \in 1 .. Len(history) : Len(history[i]) < MAX_LINE
  BY DEF Live, IInv, HistoryFits
<1>2. CASE line = << >>
  BY <1>0, <1>1, <1>2 DEF Pushed
<1>3. CASE line # << >>
  <2> DEFINE h == IF Len(history) = MAX_HIST THEN Tail(history) ELSE history
             p == Append(h, line)
  <2>1. Pushed = p
    BY <1>3 DEF Pushed
  <2>2. /\ h \in Seq(Seq(Chars)) /\ Len(h) \in Nat /\ Len(h) < MAX_HIST
        /\ \A i \in 1 .. Len(h) : Len(h[i]) < MAX_LINE
    <3>1. CASE Len(history) = MAX_HIST
      <4>1. history # << >>
        BY <1>0, <3>1
      <4>2. /\ Tail(history) \in Seq(Seq(Chars)) /\ Len(Tail(history)) = Len(history) - 1
            /\ \A i \in 1 .. Len(history) - 1 : Tail(history)[i] = history[i + 1]
        BY <1>0, <4>1
      <4>3. \A i \in 1 .. Len(history) - 1 : i + 1 \in 1 .. Len(history)
        BY <1>0
      <4>4. \A i \in 1 .. Len(history) - 1 : Len(history[i + 1]) < MAX_LINE
        BY <1>1, <4>3
      <4>5. h = Tail(history)
        BY <3>1
      <4> HIDE DEF h
      <4> QED BY <1>0, <3>1, <4>2, <4>4, <4>5
    <3>2. CASE Len(history) # MAX_HIST
      <4>1. h = history
        BY <3>2
      <4> HIDE DEF h
      <4> QED BY <1>0, <1>1, <3>2, <4>1
    <3> QED BY <3>1, <3>2
  <2>3. p = Append(h, line)
    OBVIOUS
  <2> HIDE DEF h, p
  <2>4. /\ p \in Seq(Seq(Chars)) /\ Len(p) = Len(h) + 1 /\ p[Len(h) + 1] = line
        /\ \A i \in 1 .. Len(h) : p[i] = h[i]
    BY <1>0, <2>2, <2>3
  <2>5. ASSUME NEW i \in 1 .. Len(p) PROVE Len(p[i]) < MAX_LINE
    <3>1. CASE i = Len(h) + 1
      BY <1>0, <2>4, <3>1
    <3>2. CASE i # Len(h) + 1
      <4>1. i \in 1 .. Len(h)
        BY <2>2, <2>4, <3>2
      <4> QED BY <2>2, <2>4, <4>1
    <3> QED BY <3>1, <3>2
  <2>6. p \in Seq(Seq(Chars)) /\ Len(p) <= MAX_HIST /\ Len(p) \in Nat
    BY <1>0, <2>2, <2>4
  <2> QED BY <2>1, <2>5, <2>6
<1> QED BY <1>2, <1>3

LEMMA EnterStep ==
  ASSUME Live, Enter
  PROVE  IInv'
<1>1. /\ line' = << >> /\ cursor_pos' = 0 /\ history_index' = -1 /\ history' = Pushed
  BY DEF Enter, NewLine
<1>2. /\ history' \in Seq(Seq(Chars)) /\ Len(history') <= MAX_HIST /\ Len(history') \in Nat
      /\ HistoryFits'
  <2>1. \A i \in 1 .. Len(history') : Len(history'[i]) < MAX_LINE
    BY <1>1, PushedFits
  <2> QED BY <1>1, <2>1, PushedFits DEF HistoryFits
<1>3. MAX_LINE \in Nat \ {0}
  BY Facts
<1>4. /\ line' \in Seq(Chars) /\ cursor_pos' \in 0 .. Len(line') /\ Len(line') < MAX_LINE
      /\ history_index' \in -1 .. Len(history') - 1
  BY <1>1, <1>2, <1>3
<1>5. CASE Redraw(<< >>, 0)
  <2>1. Redraw(line', cursor_pos')
    BY <1>1, <1>5 DEF Redraw
  <2> QED BY <1>2, <1>4, <2>1, RedrawKeeps
<1>6. CASE (\E b \in STARTS : screen' = Row(b)) /\ prompted' = FALSE
  <2>1. screen' \in Screens /\ Shows(screen', 0, << >>, 0)
    BY <1>6, RowShown
  <2>2. Typed' /\ LineFits'
    BY <1>2, <1>4, <1>6, <2>1 DEF Typed, LineFits, HistoryFits
  <2>3. WaitsEmpty'
    BY <1>1 DEF WaitsEmpty
  <2>4. Shown'
    BY <1>1, <1>6, <2>1 DEF Shown, Shows, From
  <2> QED BY <1>2, <2>2, <2>3, <2>4 DEF Live, IInv
<1> QED BY <1>5, <1>6 DEF Enter

LEMMA KeyStep ==
  ASSUME Live, Key
  PROVE  IInv'
<1>0. Reading
  BY DEF Key
<1>1. CASE \E c \in Letters \cup {SPACE} : Insert(c)
  BY <1>0, <1>1, InsertStep DEF Chars
<1>2. CASE Backspace
  BY <1>0, <1>2, BackspaceStep
<1>3. CASE KeyLeft \/ KeyRight
  BY <1>0, <1>3, ArrowStep
<1>4. CASE KeyUp
  <2>1. Len(history) \in Nat /\ history_index \in -1 .. Len(history) - 1
    BY Facts
  <2>2. PICK i : i = history_index + 1
    OBVIOUS
  <2>3. i \in -1 .. Len(history) - 1 /\ Load(i)
    BY <1>4, <2>1, <2>2 DEF KeyUp
  <2> QED BY <1>0, <2>3, LoadStep
<1>5. CASE KeyDown
  <2>1. Len(history) \in Nat /\ history_index \in -1 .. Len(history) - 1
    BY Facts
  <2>2. PICK i : i = history_index - 1
    OBVIOUS
  <2>3. i \in -1 .. Len(history) - 1 /\ Load(i)
    BY <1>5, <2>1, <2>2 DEF KeyDown
  <2> QED BY <1>0, <2>3, LoadStep
<1>6. CASE KeyTab
  BY <1>0, <1>6, TabStep
<1>7. CASE KeyClear \/ KeyCancel
  BY <1>7, ClearStep
<1>8. CASE Enter
  BY <1>8, EnterStep
<1> QED BY <1>1, <1>2, <1>3, <1>4, <1>5, <1>6, <1>7, <1>8 DEF Key
-----------------------------------------------------------------------------
(* Programs *)

LEMMA PromptKeeps ==
  ASSUME Live, UNCHANGED editVars, Redraw(line, cursor_pos)
  PROVE  IInv'
<1>1. /\ line' = line /\ cursor_pos' = cursor_pos /\ history' = history
      /\ history_index' = history_index
  BY DEF editVars
<1>2. HistoryFits' /\ Redraw(line', cursor_pos')
  BY <1>1 DEF Live, IInv, HistoryFits, Redraw
<1>3. /\ line \in Seq(Chars) /\ cursor_pos \in 0 .. Len(line) /\ Len(line) < MAX_LINE
      /\ history \in Seq(Seq(Chars)) /\ Len(history) <= MAX_HIST
      /\ history_index \in -1 .. Len(history) - 1
  BY Facts
<1> QED BY <1>1, <1>2, <1>3, RedrawKeeps

LEMMA WriteStep ==
  ASSUME Live, Write
  PROVE  IInv'
<1>0. UNCHANGED editVars /\ prompted' = prompted /\ shell' = shell
  BY DEF Write
<1>1. CASE screen' = Garbled
  BY <1>0, <1>1, RestKeeps DEF Live
<1>2. CASE screen' # Garbled
  <2>1. PICK b \in STARTS : screen' = Row(b)
    BY <1>2 DEF Write
  <2>2. line = << >> /\ ~prompted
    BY <1>2 DEF Write
  <2>3. screen' \in Screens /\ Shows(screen', 0, << >>, 0)
    BY <2>1, RowShown
  <2>4. /\ line' = line /\ cursor_pos' = cursor_pos /\ history' = history
        /\ history_index' = history_index /\ cursor_pos = 0
    BY <1>0, <2>2, Facts DEF editVars
  <2>5. Shows(screen', From, line', cursor_pos')
    BY <2>2, <2>3, <2>4 DEF From
  <2>6. Typed' /\ LineFits' /\ HistoryFits'
    BY <1>0, <2>3, <2>4 DEF Live, IInv, Typed, LineFits, HistoryFits
  <2>7. WaitsEmpty'
    BY <2>2, <2>4 DEF WaitsEmpty
  <2>8. Shown'
    BY <1>0, <2>5 DEF Shown, Shows, From
  <2> QED BY <2>6, <2>7, <2>8 DEF IInv
<1> QED BY <1>1, <1>2

\* The prompt at the cursor is right if nothing has been typed.
LEMMA ReapFgStep ==
  ASSUME Live, ReapFg
  PROVE  IInv'
<1> DEFINE t == DrawPrompt(screen)
           wrong == line # << >>
<1>0. /\ line' = line /\ cursor_pos' = cursor_pos /\ history' = history
      /\ history_index' = history_index /\ shell' = shell /\ prompted' = TRUE
      /\ screen' = Spoil(t, wrong)
  BY DEF ReapFg, editVars
<1>1. /\ cursor_pos \in 0 .. Len(line) /\ From \in Nat /\ Shows(screen, From, line, cursor_pos)
      /\ screen \in Screens
  BY Facts
<1>2. t \in Screens /\ (~wrong => Shows(t, PROMPT, line, cursor_pos))
  <2>1. CASE wrong
    <3>1. Marks \in Seq(Glyphs)
      <4>1. MARK \in Glyphs /\ PROMPT \in Nat
        BY ConsoleAssumption DEF Glyphs
      <4> QED BY <4>1 DEF Marks
    <3>2. [screen EXCEPT !.base = screen.at] \in Screens
      BY <1>1 DEF Screens
    <3>3. t = Put([screen EXCEPT !.base = screen.at], Marks)
      BY DEF DrawPrompt
    <3> HIDE DEF t
    <3> QED BY <2>1, <3>1, <3>2, <3>3, PutFacts
  <2>2. CASE ~wrong
    <3>1. line = << >> /\ cursor_pos = 0
      BY <1>1, <2>2
    <3>2. screen.at \in Nat /\ screen.base \in Nat
      BY <1>1 DEF Screens
    <3>3. ASSUME screen.ok, ~screen.off, NEW i \in Columns, i > screen.at
          PROVE  screen.cells[i] = SPACE
      <4>1. screen.at = screen.base + From + 0
        BY <1>1, <3>1, <3>3 DEF Shows
      <4>2. i \in Int /\ i > screen.base /\ ~(i <= screen.base + From) /\ ~(i - (screen.base + From) <= 0)
        BY <1>1, <3>2, <3>3, <4>1 DEF Columns
      <4>3. screen.cells[i] = Char(<< >>, i - (screen.base + From))
        BY <1>1, <3>1, <3>3, <4>2 DEF Shows
      <4> QED BY <4>2, <4>3 DEF Char
    <3>4. t = DrawPrompt(screen)
      OBVIOUS
    <3> HIDE DEF t
    <3>5. t \in Screens /\ Shows(t, PROMPT, << >>, 0)
      BY <1>1, <3>3, <3>4, PromptDrawn
    <3> QED BY <3>1, <3>5
  <2> QED BY <2>1, <2>2
<1>3. wrong \in BOOLEAN
  OBVIOUS
<1> HIDE DEF t, wrong
<1>4. screen' \in Screens /\ Shows(screen', PROMPT, line, cursor_pos)
  BY <1>0, <1>2, <1>3, SpoilFacts
<1>5. Typed' /\ LineFits' /\ HistoryFits'
  BY <1>0, <1>4 DEF Live, IInv, Typed, LineFits, HistoryFits
<1>6. WaitsEmpty'
  BY <1>0 DEF WaitsEmpty
<1>7. Shown'
  BY <1>0, <1>4 DEF Shown, Shows, From
<1> QED BY <1>5, <1>6, <1>7 DEF IInv

LEMMA ProgramStep ==
  ASSUME Live, Write \/ FgExit \/ BgExit \/ ReapFg \/ ReapBg \/ UshPrompt
  PROVE  IInv'
<1>1. CASE Write
  BY <1>1, WriteStep
<1>2. CASE FgExit \/ BgExit
  BY <1>2, RestKeeps DEF FgExit, BgExit, Live
<1>3. CASE ReapFg
  BY <1>3, ReapFgStep
<1>4. CASE ReapBg
  BY <1>4, PromptKeeps DEF ReapBg, NoticeCursor
<1>5. CASE UshPrompt
  <2>1. line = << >>
    BY <1>5 DEF UshPrompt, Live, IInv, WaitsEmpty
  <2>2. cursor_pos = 0
    BY <2>1, Facts
  <2> QED BY <1>5, <2>1, <2>2, PromptKeeps DEF UshPrompt
<1> QED BY <1>1, <1>2, <1>3, <1>4, <1>5
-----------------------------------------------------------------------------
LEMMA InitInv == Init => IInv
<1> SUFFICES ASSUME Init PROVE IInv
  OBVIOUS
<1>1. /\ line = << >> /\ cursor_pos = 0 /\ history = << >> /\ history_index = -1
      /\ prompted = TRUE
  BY DEF Init
<1>2. PICK b \in STARTS : screen = Prompted(b, << >>, 0)
  BY DEF Init
<1>3. << >> \in Seq(Chars) /\ 0 \in 0 .. Len(<< >>)
  OBVIOUS
<1>4. screen \in Screens /\ Shows(screen, PROMPT, << >>, 0)
  BY <1>2, <1>3, PromptShown
<1>5. Typed /\ HistoryFits
  BY <1>1, <1>4 DEF Typed, HistoryFits
<1>6. LineFits
  BY <1>1, <1>5, ConsoleAssumption DEF LineFits, HistoryFits
<1>7. WaitsEmpty /\ Shown
  BY <1>1, <1>4 DEF WaitsEmpty, Shown, From
<1> QED BY <1>5, <1>6, <1>7 DEF IInv

LEMMA StepInv == IInv /\ [Next]_vars => IInv'
<1> SUFFICES ASSUME IInv, [Next]_vars PROVE IInv'
  OBVIOUS
<1>1. CASE ~Overrun /\ Key
  BY <1>1, KeyStep DEF Live
<1>2. CASE ~Overrun /\ (Write \/ FgExit \/ BgExit \/ ReapFg \/ ReapBg \/ UshPrompt)
  BY <1>2, ProgramStep DEF Live
<1>3. CASE UNCHANGED vars
  BY <1>3, RestKeeps DEF vars
<1> QED BY <1>1, <1>2, <1>3 DEF Next, Step, Astray

\* Every reachable state satisfies the inductive invariant: in the kernel shell
\* the line is inside its buffer, in both the cursor and the history are, and a
\* row that is followed shows the line unless one of the three drawings named at
\* ScreenShowsLine has spoiled it.
THEOREM Invariance == Spec => []IInv
<1>1. Init => IInv
  BY InitInv
<1>2. IInv /\ [Next]_vars => IInv'
  BY StepInv
<1> QED BY <1>1, <1>2, PTL DEF Spec

\* In the kernel shell no key, recalled line or completion makes the line longer
\* than input_buffer; in both shells the cursor stays in the line, browsing in
\* the history, and no line of the history is too long to be recalled, whatever
\* the sizes and the words are.  The line of ush is not bounded: do_tab may pass
\* the end of g_input.
THEOREM BuffersHold == Spec => []LineFits
<1>1. IInv => LineFits
  BY DEF IInv
<1> QED BY <1>1, Invariance, PTL

\* The row shows after its prompt the line that Enter will run, and the cursor
\* where the next character goes, after any sequence of keys, programs that end
\* and notices, for every prompt and width of the row, until the code draws
\* something else (the three cases of ScreenShowsLine) or a program writes into
\* the line.
THEOREM WhatYouSee == Spec => []ScreenShowsLine
<1>1. IInv => ScreenShowsLine
  <2> DEFINE f == screen.base + From
  <2> SUFFICES ASSUME IInv, Reading, screen.ok, ~screen.off
               PROVE  /\ screen.at = f + cursor_pos
                      /\ \A i \in Columns : i > screen.base =>
                           screen.cells[i] = IF i <= f THEN MARK
                                             ELSE IF i <= f + Len(line) THEN line[i - f]
                                             ELSE SPACE
    BY DEF ScreenShowsLine, From
  <2>0. From \in Nat /\ Len(line) \in Nat /\ screen.base \in Nat /\ Shows(screen, From, line, cursor_pos)
    BY ConsoleAssumption DEF IInv, Typed, Shown, Screens, From
  <2>1. /\ f \in Nat /\ screen.at = f + cursor_pos
        /\ \A i \in Columns : i > screen.base =>
              screen.cells[i] = IF i <= f THEN MARK ELSE Char(line, i - f)
    BY <2>0 DEF Shows
  <2> HIDE DEF f
  <2>2. ASSUME NEW i \in Columns
        PROVE  Char(line, i - f) = IF i <= f + Len(line) THEN line[i - f] ELSE SPACE
    <3>1. i \in Int /\ (i - f <= Len(line) <=> i <= f + Len(line))
      BY <2>0, <2>1 DEF Columns
    <3> QED BY <3>1 DEF Char
  <2> QED BY <2>1, <2>2
<1> QED BY <1>1, Invariance, PTL
=============================================================================
