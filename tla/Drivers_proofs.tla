--------------------------- MODULE Drivers_proofs ---------------------------
(***************************************************************************)
(* Proofs about three drivers that share no variable: the two inputs that  *)
(* count samples before they believe a level, the keys (KeyDriver) and the *)
(* charger contact (ChargeDetect), and the decoders' clock (AudioClock).   *)
(***************************************************************************)
EXTENDS KeyDriver, ChargeDetect, AudioClock, SequenceTheorems, TLAPS

-----------------------------------------------------------------------------
(* The decoders' clock, for any modes in the foreground and any clocks, with *)
(* at most one mode in the background: every entry is its own clock and the  *)
(* background's, and no mode in use has less than it was given.              *)

USE AudioClockAssumption

OneBehind == \A m, n \in Background : m = n

(* What the clocks of one entry, or of none, are in all. *)
LEMMA SumOfNone == ASSUME NEW field PROVE SumOf(field, {}) = 0
<1> DEFINE Def(g) == [s \in SUBSET {} |-> IF s = {} THEN 0
                          ELSE LET x == CHOOSE x \in s : TRUE IN x[field] + g[s \ {x}]]
           w == [s \in SUBSET {} |-> 0]
           h == CHOOSE g : g = Def(g)
<1>1. w = Def(w)
  OBVIOUS
<1>2. SumOf(field, {}) = h[{}]
  BY Zenon DEF SumOf, MapThenSumSet, MapThenFoldSet
<1> HIDE DEF w
<1>3. h = Def(h)
  <2> HIDE DEF Def
  <2> QED
    BY <1>1, Zenon
<1> HIDE DEF h
<1>4. h[{}] = 0
  BY <1>3
<1> QED
  BY <1>2, <1>4

LEMMA SumOfOne == ASSUME NEW field, NEW e, e[field] \in Int PROVE SumOf(field, {e}) = e[field]
<1> DEFINE Def(g) == [s \in SUBSET {e} |-> IF s = {} THEN 0
                          ELSE LET x == CHOOSE x \in s : TRUE IN x[field] + g[s \ {x}]]
           w == [s \in SUBSET {e} |-> IF s = {} THEN 0 ELSE e[field]]
           h == CHOOSE g : g = Def(g)
<1>1. /\ \A s \in SUBSET {e} : s = {} \/ s = {e}
      /\ (CHOOSE x \in {e} : TRUE) = e /\ {e} # {} /\ {e} \ {e} = {}
      /\ {} \in SUBSET {e} /\ {e} \in SUBSET {e}
  OBVIOUS
<1>2. w = Def(w)
  <2>1. \A s \in SUBSET {e} : w[s] = Def(w)[s]
    BY <1>1
  <2> QED
    BY <2>1
<1>3. SumOf(field, {e}) = h[{e}]
  BY Zenon DEF SumOf, MapThenSumSet, MapThenFoldSet
<1> HIDE DEF w
<1>4. h = Def(h)
  <2> HIDE DEF Def
  <2> QED
    BY <1>2, Zenon
<1> HIDE DEF h
<1>5. h[{}] = 0 /\ h[{e}] = e[field] + h[{}]
  BY <1>1, <1>4
<1> QED
  BY <1>3, <1>5

-----------------------------------------------------------------------------
(* The shape of the list: every mode once, the background at the end.        *)
Once(s) == \A i, j \in DOMAIN s : s[i].mode = s[j].mode => i = j
Behind(s) == \A i, j \in DOMAIN s : s[i].mode \in Background /\ i < j => s[j].mode \in Background
Shape(s) == s \in Seq(Entry) /\ Once(s) /\ Behind(s)

(* ... and its clocks: b is what the background has. *)
Clocks(s, b) ==
    /\ \A i \in DOMAIN s : IF s[i].mode \in Background THEN s[i].clk = s[i].own /\ b = s[i].own
                           ELSE s[i].clk = s[i].own + b
    /\ (\A i \in DOMAIN s : s[i].mode \notin Background) => b = 0
    /\ \A i, j \in DOMAIN s : s[i].mode \notin Background /\ s[j].mode \notin Background /\ i < j =>
           s[i].clk >= s[j].clk

ClockInv ==
    /\ Shape(codec_clock_head) /\ sys \in Nat
    /\ \E b \in Nat : Clocks(codec_clock_head, b)
    /\ codec_clock_head # <<>> => sys >= Head(codec_clock_head).clk

LEMMA BackgroundIs ==
  ASSUME OneBehind, Shape(codec_clock_head), NEW b \in Nat, Clocks(codec_clock_head, b)
  PROVE  BackgroundClock = b /\ Total = b
<1>1. CASE InBackground = {}
  <2>1. \A i \in DOMAIN codec_clock_head : codec_clock_head[i].mode \notin Background
    BY <1>1 DEF InBackground, Entries, IsBackground
  <2>2. b = 0
    BY <2>1 DEF Clocks
  <2> QED
    BY <1>1, <2>2, SumOfNone DEF BackgroundClock, Total
<1>2. CASE InBackground # {}
  <2>1. PICK i \in DOMAIN codec_clock_head : codec_clock_head[i].mode \in Background
    BY <1>2 DEF InBackground, Entries, IsBackground
  <2> DEFINE e == codec_clock_head[i]
  <2>2. InBackground = {e}
    BY <2>1 DEF OneBehind, Shape, Once, InBackground, Entries, IsBackground
  <2>3. e \in Entry
    BY <2>1 DEF Shape
  <2>4. e.clk = b /\ e.own = b
    BY <2>1 DEF Clocks
  <2>5. e["clk"] = b /\ e["own"] = b /\ e["clk"] \in Int /\ e["own"] \in Int
    BY <2>4
  <2> HIDE DEF e
  <2>6. SumOf("clk", {e}) = e["clk"] /\ SumOf("own", {e}) = e["own"]
    BY <2>5, SumOfOne, Zenon
  <2> QED
    BY <2>2, <2>5, <2>6 DEF BackgroundClock, Total
<1> QED
  BY <1>1, <1>2

-----------------------------------------------------------------------------
LEMMA InitClock == ClockInit => ClockInv
<1> SUFFICES ASSUME ClockInit PROVE ClockInv
  OBVIOUS
<1>1. Clocks(<<>>, 0)
  BY DEF Clocks
<1> QED
  BY <1>1 DEF ClockInit, ClockInv, Shape, Once, Behind

(* A new foreground mode: first in the list, and with the highest clock.     *)
LEMMA ForegroundClock ==
  ASSUME OneBehind, ClockInv, NEW m \in Foreground, NEW c \in Nat, NEW preemption \in BOOLEAN,
         preemption => Entries = InBackground, SetForeground(m, c, preemption)
  PROVE  ClockInv'
<1> DEFINE L == codec_clock_head
           n == IF preemption THEN Needed(c) ELSE Over(Needed(c))
           new == [mode |-> m, clk |-> n, own |-> n - BackgroundClock]
<1>1. PICK b \in Nat : Clocks(L, b)
  BY DEF ClockInv
<1>2. BackgroundClock = b
  BY <1>1, BackgroundIs DEF ClockInv
<1>3. L \in Seq(Entry) /\ sys \in Nat /\ Once(L) /\ Behind(L)
  BY DEF ClockInv, Shape
<1>4. Needed(c) \in Int /\ Needed(c) >= b
  BY <1>2, <1>3 DEF Needed
<1>5. ASSUME L # <<>> PROVE 1 \in DOMAIN L /\ Head(L) = L[1] /\ L[1] \in Entry
  BY <1>3, <1>5
<1>6. n \in Int /\ n >= Needed(c)
  BY <1>4, <1>5 DEF Over, Entry
<1>7. \A i \in DOMAIN L : L[i].mode \notin Background => n >= L[i].clk
  <2> SUFFICES ASSUME NEW i \in DOMAIN L, L[i].mode \notin Background PROVE n >= L[i].clk
    OBVIOUS
  <2>1. ~preemption
    BY DEF Entries, InBackground, IsBackground
  <2>2. L # <<>> /\ i >= 1 /\ i \in Int
    BY <1>3
  <2>3. L[1].mode \notin Background
    BY <1>3, <2>2, <1>5 DEF Behind
  <2>4. L[1].clk >= L[i].clk
    BY <1>1, <1>3, <1>5, <2>2, <2>3 DEF Clocks, Entry
  <2>5. n > L[1].clk \/ n = L[1].clk + Headroom
    BY <2>1, <2>2, <2>3, <1>4, <1>5 DEF Over, IsBackground, Entry
  <2>6. L[i] \in Entry
    BY <1>3
  <2> QED
    BY <2>2, <2>4, <2>5, <2>6, <1>5, <1>6 DEF Entry
<1> HIDE DEF n
<1>8. new \in Entry /\ m \notin Background
  BY <1>2, <1>4, <1>6 DEF Entry, Mode
<1>9. new.mode = m /\ new.clk = n /\ n = new.own + b
  BY <1>2, <1>6
<1> HIDE DEF new
<1>10. codec_clock_head' = <<new>> \o L /\ sys' = n
  BY DEF SetForeground, n, new
<1>11. /\ codec_clock_head' \in Seq(Entry) /\ Len(codec_clock_head') = Len(L) + 1
       /\ codec_clock_head'[1] = new
       /\ \A i \in DOMAIN codec_clock_head' : i # 1 => i - 1 \in DOMAIN L /\ codec_clock_head'[i] = L[i - 1]
       /\ DOMAIN codec_clock_head' = 1..(Len(L) + 1)
  BY <1>3, <1>8, <1>10
<1>12. codec_clock_head'[1] = new
  BY <1>11
<1>13. /\ codec_clock_head'[1].mode = m /\ codec_clock_head'[1].clk = n
       /\ n = codec_clock_head'[1].own + b
  BY <1>9, <1>12, Zenon
<1>14. \A i \in DOMAIN L : L[i].mode # m
  BY DEF SetForeground, Exists, Entries
<1>15. Once(codec_clock_head')
  <2> DEFINE N == codec_clock_head'
  <2>1. \A i \in DOMAIN N : i \in Int /\ (i = 1 \/ (i - 1 \in DOMAIN L /\ N[i] = L[i - 1])) /\ N[1].mode = m
    BY <1>3, <1>13, <1>11
  <2> HIDE DEF N
  <2> SUFFICES ASSUME NEW i \in DOMAIN N, NEW j \in DOMAIN N, N[i].mode = N[j].mode PROVE i = j
    BY DEF Once, N
  <2>2. i = 1 <=> j = 1
    BY <2>1, <1>14
  <2>3. CASE i # 1
    <3>1. i - 1 = j - 1
      BY <2>1, <2>2, <2>3, <1>3 DEF Once
    <3> QED
      BY <2>1, <3>1
  <2> QED
    BY <2>2, <2>3
<1>16. Behind(codec_clock_head')
  <2> DEFINE N == codec_clock_head'
  <2>1. N[1].mode \notin Background
    BY <1>8, <1>13
  <2>2. \A i \in DOMAIN N : i \in Int /\ (i = 1 \/ (i > 1 /\ i - 1 \in DOMAIN L /\ N[i] = L[i - 1]))
    BY <1>3, <1>11
  <2> HIDE DEF N
  <2> SUFFICES ASSUME NEW i \in DOMAIN N, NEW j \in DOMAIN N, N[i].mode \in Background, i < j
               PROVE  N[j].mode \in Background
    BY DEF Behind, N
  <2>3. i - 1 \in DOMAIN L /\ j - 1 \in DOMAIN L /\ i - 1 < j - 1 /\ N[i] = L[i - 1] /\ N[j] = L[j - 1]
    BY <2>1, <2>2
  <2> QED
    BY <2>3, <1>3 DEF Behind
<1>17. Clocks(codec_clock_head', b)
  <2> DEFINE N == codec_clock_head'
  <2>1. \A i \in DOMAIN N : i = 1 \/ (i - 1 \in DOMAIN L /\ N[i] = L[i - 1])
    BY <1>11
  <2>2. N[1].clk = N[1].own + b /\ N[1].mode \notin Background /\ N[1].clk = n
    BY <1>8, <1>13
  <2>3. \A i \in DOMAIN N : i \in Int /\ i >= 1
    BY <1>3, <1>11
  <2> HIDE DEF N
  <2>4. \A i \in DOMAIN N : IF N[i].mode \in Background THEN N[i].clk = N[i].own /\ b = N[i].own
                           ELSE N[i].clk = N[i].own + b
    BY <1>1, <2>1, <2>2 DEF Clocks
  <2>5. (\A i \in DOMAIN N : N[i].mode \notin Background) => b = 0
    <3>1. \A i \in DOMAIN L : i + 1 \in DOMAIN N /\ N[i + 1] = L[i]
      BY <1>3, <1>11 DEF N
    <3> QED
      BY <3>1, <1>1 DEF Clocks
  <2>6. \A i, j \in DOMAIN N : N[i].mode \notin Background /\ N[j].mode \notin Background /\ i < j =>
           N[i].clk >= N[j].clk
    <3> SUFFICES ASSUME NEW i \in DOMAIN N, NEW j \in DOMAIN N, i < j,
                        N[i].mode \notin Background, N[j].mode \notin Background
                 PROVE  N[i].clk >= N[j].clk
      OBVIOUS
    <3>1. j - 1 \in DOMAIN L /\ N[j] = L[j - 1]
      BY <2>1, <2>3
    <3>2. CASE i = 1
      BY <3>1, <3>2, <1>7, <2>2
    <3>3. CASE i # 1
      BY <3>1, <3>3, <1>1, <2>1, <2>3 DEF Clocks
    <3> QED
      BY <3>2, <3>3
  <2> QED
    BY <2>4, <2>5, <2>6 DEF Clocks, N
<1>18. Head(codec_clock_head').clk = n
  <2>1. Head(codec_clock_head') = codec_clock_head'[1]
    BY <1>11
  <2> QED
    BY <2>1, <1>13
<1>19. sys' \in Nat /\ sys' >= Head(codec_clock_head').clk
  BY <1>4, <1>6, <1>10, <1>18
<1> QED
  BY <1>11, <1>15, <1>16, <1>17, <1>19 DEF ClockInv, Shape

LEMMA ShiftedIs ==
  ASSUME NEW s \in Seq(Entry), NEW d \in Int
  PROVE  /\ Shifted(s, d) \in Seq(Entry) /\ Len(Shifted(s, d)) = Len(s)
         /\ DOMAIN Shifted(s, d) = DOMAIN s
         /\ \A i \in DOMAIN s : LET e == Shifted(s, d)[i]
                               IN  e.mode = s[i].mode /\ e.own = s[i].own /\ e.clk = s[i].clk + d
<1> DEFINE t == Shifted(s, d)
<1>1. Len(s) \in Nat /\ DOMAIN s = 1..Len(s) /\ \A i \in DOMAIN s : s[i] \in Entry
  OBVIOUS
<1>2. t = [i \in 1..Len(s) |-> [s[i] EXCEPT !.clk = @ + d]]
  BY <1>1 DEF Shifted
<1>3. \A i \in 1..Len(s) : LET e == [s[i] EXCEPT !.clk = @ + d]
                          IN  e \in Entry /\ e.mode = s[i].mode /\ e.own = s[i].own /\ e.clk = s[i].clk + d
  <2> SUFFICES ASSUME NEW x \in Entry
               PROVE  LET e == [x EXCEPT !.clk = @ + d]
                      IN  e \in Entry /\ e.mode = x.mode /\ e.own = x.own /\ e.clk = x.clk + d
    BY <1>1
  <2> QED
    BY DEF Entry
<1> HIDE DEF t
<1>4. t \in [1..Len(s) -> Entry] /\ \A i \in 1..Len(s) : t[i] = [s[i] EXCEPT !.clk = @ + d]
  BY <1>2, <1>3
<1>5. t \in Seq(Entry) /\ Len(t) = Len(s) /\ DOMAIN t = DOMAIN s
  BY <1>1, <1>4
<1> QED
  BY <1>1, <1>3, <1>4, <1>5 DEF t

(* A mode in the background: the first one there, at the end of the list.    *)
LEMMA BackgroundClocks ==
  ASSUME OneBehind, ClockInv, NEW m \in Background, NEW c \in Nat, SetBackground(m, c)
  PROVE  ClockInv'
<1> DEFINE L == codec_clock_head
           S == Shifted(L, c)
           new == [mode |-> m, clk |-> c, own |-> c]
<1>1. PICK b \in Nat : Clocks(L, b)
  BY DEF ClockInv
<1>2. L \in Seq(Entry) /\ sys \in Nat /\ Once(L) /\ Behind(L)
  BY DEF ClockInv, Shape
<1>3. \A i \in DOMAIN L : L[i].mode # m
  BY DEF SetBackground, Exists, Entries
<1>4. \A i \in DOMAIN L : L[i].mode \notin Background
  BY <1>3 DEF OneBehind
<1>5. b = 0
  BY <1>1, <1>4 DEF Clocks
<1>6. /\ S \in Seq(Entry) /\ Len(S) = Len(L) /\ DOMAIN S = DOMAIN L
      /\ \A i \in DOMAIN L : S[i].mode = L[i].mode /\ S[i].own = L[i].own /\ S[i].clk = L[i].clk + c
  <2>1. L \in Seq(Entry) /\ c \in Int
    BY <1>2
  <2> HIDE DEF S
  <2> QED
    BY <2>1, ShiftedIs, Zenon DEF S
<1> HIDE DEF S
<1>7. \A i \in DOMAIN L : L[i].clk = L[i].own /\ L[i].own \in Nat
  <2> SUFFICES ASSUME NEW i \in DOMAIN L PROVE L[i].clk = L[i].own /\ L[i].own \in Nat
    OBVIOUS
  <2>1. L[i] \in Entry
    BY <1>2
  <2>2. L[i].own \in Nat
    BY <2>1 DEF Entry
  <2>3. L[i].clk = L[i].own + b
    BY <1>1, <1>4 DEF Clocks
  <2> QED
    BY <2>2, <2>3, <1>5
<1>8. new \in Entry
  BY DEF Entry, Mode
<1>9. new.mode = m /\ new.clk = c /\ new.own = c
  OBVIOUS
<1> HIDE DEF new
<1>10. codec_clock_head' = Append(S, new) /\ sys' = IF S = <<>> THEN c + Headroom ELSE Head(S).clk
  BY DEF SetBackground, S, new
<1>11. /\ codec_clock_head' \in Seq(Entry) /\ Len(codec_clock_head') = Len(L) + 1
       /\ DOMAIN codec_clock_head' = 1..(Len(L) + 1) /\ DOMAIN L = 1..Len(L) /\ Len(L) \in Nat
       /\ \A i \in DOMAIN L : codec_clock_head'[i] = S[i]
       /\ codec_clock_head'[Len(L) + 1] = new
  BY <1>2, <1>6, <1>8, <1>10
<1>12. \A i \in DOMAIN codec_clock_head' : i \in DOMAIN L \/ i = Len(L) + 1
  BY <1>11
<1>13. Once(codec_clock_head')
  BY <1>2, <1>3, <1>6, <1>11, <1>12, <1>9 DEF Once
<1>14. Behind(codec_clock_head')
  BY <1>4, <1>6, <1>11, <1>12 DEF Behind
<1>15. Clocks(codec_clock_head', c)
  <2> DEFINE N == codec_clock_head'
             z == Len(L) + 1
  <2>1. \A i \in DOMAIN L : L[i].clk = L[i].own /\ L[i].clk \in Int
    BY <1>7
  <2>2. \A i \in DOMAIN N :
          \/ i = z
          \/ i \in DOMAIN L /\ N[i].mode \notin Background /\ N[i].clk = N[i].own + c /\ N[i].clk = L[i].clk + c
    BY <2>1, <1>4, <1>6, <1>11, <1>12
  <2>3. N[z].mode \in Background /\ N[z].clk = N[z].own /\ c = N[z].own /\ z \in DOMAIN N
    <3>1. N[z] = new /\ DOMAIN N = 1..z /\ Len(L) \in Nat
      BY <1>11, Zenon
    <3>2. z \in DOMAIN N
      <4> HIDE DEF N
      <4> QED
        BY <3>1
    <3> HIDE DEF N, z
    <3> QED
      BY <3>1, <3>2, <1>9, Zenon
  <2> HIDE DEF N, z
  <2>4. \A i, j \in DOMAIN L : i < j => L[i].clk >= L[j].clk
    BY <1>1, <1>4 DEF Clocks
  <2>5. \A i, j \in DOMAIN N : N[i].mode \notin Background /\ N[j].mode \notin Background /\ i < j =>
           N[i].clk >= N[j].clk
    BY <2>1, <2>2, <2>3, <2>4
  <2> QED
    BY <2>2, <2>3, <2>5 DEF Clocks, N
<1>16. sys' \in Nat /\ sys' >= Head(codec_clock_head').clk
  <2>1. CASE S = <<>>
    <3>1. sys' = c + Headroom /\ Len(L) = 0
      BY <2>1, <1>6, <1>10
    <3>2. codec_clock_head'[1] = new /\ Head(codec_clock_head') = codec_clock_head'[1]
      BY <3>1, <1>11
    <3>3. Head(codec_clock_head').clk = c
      BY <3>2, <1>9, Zenon
    <3> QED
      BY <3>1, <3>3
  <2>2. CASE S # <<>>
    <3>1. 1 \in DOMAIN L /\ Head(S) = S[1] /\ Head(codec_clock_head') = S[1]
      BY <2>2, <1>6, <1>11
    <3>2. S[1].clk = L[1].own + c /\ L[1].own \in Nat
      BY <3>1, <1>6, <1>7
    <3> QED
      BY <2>2, <3>1, <3>2, <1>10
  <2> QED
    BY <2>1, <2>2
<1> QED
  BY <1>11, <1>13, <1>14, <1>15, <1>16 DEF ClockInv, Shape

-----------------------------------------------------------------------------
(* A list without one of its entries. *)
LEMMA Removed ==
  ASSUME NEW S, NEW s \in Seq(S), NEW p \in DOMAIN s
  PROVE  /\ RemoveAt(s, p) \in Seq(S) /\ Len(RemoveAt(s, p)) = Len(s) - 1
         /\ \A i \in DOMAIN RemoveAt(s, p) :
              LET k == IF i < p THEN i ELSE i + 1 IN k \in DOMAIN s /\ RemoveAt(s, p)[i] = s[k]
         /\ \A k \in DOMAIN s : k = p \/ \E i \in DOMAIN RemoveAt(s, p) : k = IF i < p THEN i ELSE i + 1
<1> DEFINE front == SubSeq(s, 1, p - 1)
           back == SubSeq(s, p + 1, Len(s))
           r == RemoveAt(s, p)
<1>1. p \in Nat /\ 1 <= p /\ p <= Len(s) /\ Len(s) \in Nat /\ DOMAIN s = 1..Len(s)
  OBVIOUS
<1>2. front \in Seq(S) /\ Len(front) = p - 1 /\ \A i \in 1..(p - 1) : front[i] = s[i]
  BY <1>1
<1>3. back \in Seq(S) /\ Len(back) = Len(s) - p /\ \A i \in 1..(Len(s) - p) : back[i] = s[p + i]
  BY <1>1
<1>4. r = front \o back
  BY DEF RemoveAt
<1> HIDE DEF front, back, r
<1>5. r \in Seq(S) /\ Len(r) = Len(s) - 1 /\ DOMAIN r = 1..(Len(s) - 1)
  <2>1. r \in Seq(S) /\ Len(r) = Len(front) + Len(back)
    BY <1>2, <1>3, <1>4, ConcatProperties
  <2> QED
    BY <2>1, <1>1, <1>2, <1>3
<1>6. \A i \in 1..(Len(front) + Len(back)) : r[i] = IF i <= Len(front) THEN front[i] ELSE back[i - Len(front)]
  <2>1. front \in Seq(S) /\ back \in Seq(S)
    BY <1>2, <1>3
  <2> QED
    BY <2>1, <1>4, ConcatProperties
<1>7. \A i \in DOMAIN r : IF i < p THEN i \in DOMAIN s /\ r[i] = s[i] ELSE i + 1 \in DOMAIN s /\ r[i] = s[i + 1]
  <2> SUFFICES ASSUME NEW i \in DOMAIN r
               PROVE  IF i < p THEN i \in DOMAIN s /\ r[i] = s[i] ELSE i + 1 \in DOMAIN s /\ r[i] = s[i + 1]
    OBVIOUS
  <2>1. i \in Int /\ 1 <= i /\ i <= Len(s) - 1 /\ i \in 1..(Len(front) + Len(back))
    BY <1>1, <1>2, <1>3, <1>5
  <2>2. CASE i < p
    <3>1. r[i] = front[i] /\ i \in 1..(p - 1)
      BY <2>1, <2>2, <1>1, <1>2, <1>6
    <3> QED
      BY <2>1, <2>2, <3>1, <1>1, <1>2
  <2>3. CASE ~(i < p)
    <3>1. r[i] = back[i - Len(front)] /\ i - Len(front) = i - p + 1
      BY <2>1, <2>3, <1>1, <1>2, <1>6
    <3>2. i - p + 1 \in 1..(Len(s) - p) /\ p + (i - p + 1) = i + 1
      BY <2>1, <2>3, <1>1
    <3>3. r[i] = s[i + 1]
      BY <3>1, <3>2, <1>3
    <3> QED
      BY <2>1, <2>3, <3>3, <1>1
  <2> QED
    BY <2>2, <2>3
<1>8. ASSUME NEW k \in DOMAIN s, k # p PROVE \E i \in DOMAIN r : k = IF i < p THEN i ELSE i + 1
  <2>1. CASE k < p
    BY <2>1, <1>1, <1>5
  <2>2. CASE k > p
    <3>1. k - 1 \in DOMAIN r /\ ~(k - 1 < p)
      BY <2>2, <1>1, <1>5
    <3> QED
      BY <3>1, <1>1
  <2> QED
    BY <1>8, <1>1, <2>1, <2>2
<1> QED
  BY <1>5, <1>7, <1>8 DEF r

(* A mode ends: the others keep their order, without its clock. *)
LEMMA DelClock ==
  ASSUME OneBehind, ClockInv, NEW m \in Mode, Del(m)
  PROVE  ClockInv'
<1> DEFINE L == codec_clock_head
           p == CHOOSE i \in DOMAIN L : L[i].mode = m
           d == IF IsBackground(L[p]) THEN L[p].clk ELSE 0
           R == RemoveAt(L, p)
           S == Shifted(R, -d)
           at(i) == IF i < p THEN i ELSE i + 1
           next == IF S = <<>> THEN sys - d ELSE Head(S).clk
<1>1. PICK b \in Nat : Clocks(L, b)
  BY DEF ClockInv
<1>2. L \in Seq(Entry) /\ sys \in Nat /\ Once(L) /\ Behind(L)
  BY DEF ClockInv, Shape
<1>3. p \in DOMAIN L
  BY DEF Del, Exists, Entries
<1>4. codec_clock_head' = S /\ sys' = IF next >= Base THEN next ELSE IF S = <<>> THEN sys ELSE Base
  BY Zenon DEF Del
<1> HIDE DEF p
<1>5. d \in Nat /\ d = (IF L[p].mode \in Background THEN b ELSE 0)
  BY <1>1, <1>2, <1>3 DEF Clocks, IsBackground
<1> HIDE DEF d
<1>6. /\ R \in Seq(Entry) /\ Len(R) = Len(L) - 1
      /\ \A i \in DOMAIN R : at(i) \in DOMAIN L /\ at(i) # p /\ R[i] = L[at(i)]
      /\ \A k \in DOMAIN L : k = p \/ \E i \in DOMAIN R : k = at(i)
      /\ \A i, j \in DOMAIN R : (i < j <=> at(i) < at(j)) /\ (at(i) = at(j) => i = j)
  <2>1. R \in Seq(Entry) /\ Len(R) = Len(L) - 1
    BY <1>2, <1>3, Removed
  <2>2. \A i \in DOMAIN R : at(i) \in DOMAIN L /\ R[i] = L[at(i)]
    BY <1>2, <1>3, Removed
  <2>3. \A k \in DOMAIN L : k = p \/ \E i \in DOMAIN R : k = at(i)
    BY <1>2, <1>3, Removed
  <2>4. \A i, j \in DOMAIN R : at(i) # p /\ (i < j <=> at(i) < at(j)) /\ (at(i) = at(j) => i = j)
    <3>1. DOMAIN R \subseteq Int /\ p \in Int
      BY <1>2, <1>3, <2>1
    <3> QED
      BY <3>1
  <2> QED
    BY <2>1, <2>2, <2>3, <2>4
<1> HIDE DEF R, at
<1>7. /\ S \in Seq(Entry) /\ DOMAIN S = DOMAIN R
      /\ \A i \in DOMAIN S : S[i].mode = R[i].mode /\ S[i].own = R[i].own /\ S[i].clk = R[i].clk - d
  <2>1. -d \in Int /\ R \in Seq(Entry)
    BY <1>5, <1>6
  <2>2. /\ S \in Seq(Entry) /\ DOMAIN S = DOMAIN R
        /\ \A i \in DOMAIN R : S[i].mode = R[i].mode /\ S[i].own = R[i].own /\ S[i].clk = R[i].clk + (-d)
    <3> HIDE DEF S
    <3> QED
      BY <2>1, ShiftedIs, Zenon DEF S
  <2>3. \A i \in DOMAIN R : R[i].clk \in Int
    <3>1. \A i \in DOMAIN R : R[i] \in Entry
      BY <2>1
    <3> QED
      BY <3>1 DEF Entry
  <2> HIDE DEF S
  <2> QED
    BY <2>2, <2>3, <1>5
<1> HIDE DEF S
<1>8. /\ \A i \in DOMAIN S : /\ at(i) \in DOMAIN L /\ at(i) # p /\ S[i].mode = L[at(i)].mode
                             /\ S[i].own = L[at(i)].own /\ S[i].clk = L[at(i)].clk - d /\ L[at(i)] \in Entry
      /\ \A i, j \in DOMAIN S : (i < j <=> at(i) < at(j)) /\ (at(i) = at(j) => i = j)
  BY <1>2, <1>6, <1>7
<1>9. Once(S)
  BY <1>2, <1>8 DEF Once
<1>10. Behind(S)
  BY <1>2, <1>8 DEF Behind
<1>11. b - d \in Nat /\ Clocks(S, b - d)
  <2>1. CASE L[p].mode \in Background
    <3>1. \A i \in DOMAIN L : i # p => L[i].mode \notin Background
      BY <2>1, <1>2, <1>3 DEF Once, OneBehind
    <3> QED
      BY <2>1, <3>1, <1>1, <1>5, <1>8 DEF Clocks, Entry
  <2>2. CASE L[p].mode \notin Background
    <3>1. d = 0 /\ b - d = b
      BY <2>2, <1>5
    <3>2. (\A i \in DOMAIN S : S[i].mode \notin Background) => b = 0
      <4>1. \A k \in DOMAIN L : k = p \/ \E i \in DOMAIN S : S[i].mode = L[k].mode
        BY <1>6, <1>7
      <4> QED
        BY <4>1, <2>2, <1>1 DEF Clocks
    <3> QED
      BY <3>1, <3>2, <1>1, <1>8 DEF Clocks, Entry
  <2> QED
    BY <2>1, <2>2
<1>12. sys' \in Nat /\ (S # <<>> => sys' >= Head(S).clk)
  <2>1. CASE S = <<>>
    BY <2>1, <1>2, <1>4, <1>5
  <2>2. CASE S # <<>>
    <3>1. Head(S).clk \in Int
      <4>1. Head(S) \in Entry
        BY <2>2, <1>7
      <4> QED
        BY <4>1 DEF Entry
    <3> QED
      BY <2>2, <3>1, <1>4
  <2> QED
    BY <2>1, <2>2
<1> QED
  BY <1>4, <1>7, <1>9, <1>10, <1>11, <1>12 DEF ClockInv, Shape

LEMMA CheckClock == ASSUME ClockInv, Check PROVE ClockInv'
<1> DEFINE L == codec_clock_head
<1>1. L \in Seq(Entry) /\ L # <<>> /\ sys \in Nat /\ sys' > sys
      /\ sys' = IF IsBackground(Head(L)) THEN Head(L).clk + Headroom ELSE Head(L).clk
  <2>1. L \in Seq(Entry) /\ L # <<>> /\ sys \in Nat /\ Head(L) \in Entry
    BY DEF ClockInv, Shape, Check
  <2>2. Expected = IF IsBackground(Head(L)) THEN Head(L).clk + Headroom ELSE Head(L).clk
    BY DEF Expected
  <2> QED
    BY <2>1, <2>2 DEF Check, Entry
<1>2. Head(L).clk \in Int
  <2>1. Head(L) \in Entry
    BY <1>1
  <2> QED
    BY <2>1 DEF Entry
<1>3. sys' \in Nat /\ sys' >= Head(L).clk
  BY <1>1, <1>2
<1> QED
  BY <1>3 DEF ClockInv, Check

LEMMA NextClock == ASSUME OneBehind, ClockInv, [ClockNext]_clock_vars PROVE ClockInv'
<1>1. CASE Check
  BY <1>1, CheckClock
<1>2. ASSUME NEW m \in Mode, Set(m) PROVE ClockInv'
  <2>1. PICK c \in Clock[m] :
          \/ m \in Foreground /\ Entries = InBackground /\ SetForeground(m, c, TRUE)
          \/ m \in Overlaying /\ SetForeground(m, c, FALSE)
          \/ m \in Background /\ SetBackground(m, c)
    BY <1>2 DEF Set
  <2>2. c \in Nat
    BY <2>1
  <2>3. CASE m \in Foreground /\ Entries = InBackground /\ SetForeground(m, c, TRUE)
    BY <2>2, <2>3, ForegroundClock
  <2>4. CASE m \in Overlaying /\ SetForeground(m, c, FALSE)
    BY <2>2, <2>4, ForegroundClock
  <2>5. CASE m \in Background /\ SetBackground(m, c)
    BY <2>2, <2>5, BackgroundClocks
  <2> QED
    BY <2>1, <2>3, <2>4, <2>5
<1>3. ASSUME NEW m \in Mode, Del(m) PROVE ClockInv'
  BY <1>3, DelClock
<1>4. CASE UNCHANGED clock_vars
  BY <1>4 DEF clock_vars, ClockInv
<1> QED
  BY <1>1, <1>2, <1>3, <1>4 DEF ClockNext

(* The list of modes, its clocks and the clock set last, in every state. *)
THEOREM ClockInvariant == ASSUME OneBehind PROVE ClockSpec => []ClockInv
<1>1. ClockInv /\ [ClockNext]_clock_vars => ClockInv'
  BY NextClock
<1> QED
  BY <1>1, InitClock, PTL DEF ClockSpec

-----------------------------------------------------------------------------
(* What the invariant says of the modes in use. *)
LEMMA SumsFollow == ASSUME OneBehind, ClockInv PROVE SumOfBoth
<1>1. PICK b \in Nat : Clocks(codec_clock_head, b)
  BY DEF ClockInv
<1>2. Total = b
  BY <1>1, BackgroundIs DEF ClockInv
<1> SUFFICES ASSUME NEW e \in Entries \ InBackground PROVE e.clk = e.own + b
  BY <1>2 DEF SumOfBoth
<1>3. PICK i \in DOMAIN codec_clock_head : e = codec_clock_head[i]
  BY DEF Entries
<1>4. codec_clock_head[i].mode \notin Background
  BY <1>3 DEF InBackground, IsBackground
<1> QED
  BY <1>1, <1>3, <1>4 DEF Clocks

LEMMA EnoughFollows == ASSUME OneBehind, ClockInv PROVE EnoughForAll
<1> DEFINE L == codec_clock_head
<1>1. PICK b \in Nat : Clocks(L, b)
  BY DEF ClockInv
<1>2. Total = b
  BY <1>1, BackgroundIs DEF ClockInv
<1>3. L \in Seq(Entry) /\ sys \in Nat /\ Once(L) /\ Behind(L)
  BY DEF ClockInv, Shape
<1> SUFFICES ASSUME NEW e \in Entries
             PROVE  sys >= IF e.mode \in Background THEN e.own ELSE e.own + b
  BY <1>2 DEF EnoughForAll, IsBackground
<1>4. PICK i \in DOMAIN L : e = L[i]
  BY DEF Entries
<1>5. 1 \in DOMAIN L /\ Head(L) = L[1] /\ i \in Int /\ i >= 1 /\ sys >= L[1].clk
  BY <1>3, <1>4 DEF ClockInv
<1>6. L[1] \in Entry /\ e \in Entry
  BY <1>3, <1>4, <1>5
<1>7. L[1].clk \in Int /\ L[1].own \in Nat /\ e.own \in Nat
  BY <1>6 DEF Entry
<1>8. CASE e.mode \notin Background
  <2>1. e.clk = e.own + b
    BY <1>1, <1>4, <1>8 DEF Clocks
  <2>2. L[1].mode \notin Background
    BY <1>3, <1>4, <1>5, <1>8 DEF Behind
  <2>3. L[1].clk >= e.clk
    BY <1>1, <1>4, <1>5, <1>7, <1>8, <2>1, <2>2 DEF Clocks
  <2> QED
    BY <1>3, <1>5, <1>7, <1>8, <2>1, <2>3
<1>9. CASE e.mode \in Background
  <2>1. e.own = b
    BY <1>1, <1>4, <1>9 DEF Clocks
  <2>2. L[1].clk >= b
    <3>1. IF L[1].mode \in Background THEN L[1].clk = L[1].own /\ b = L[1].own ELSE L[1].clk = L[1].own + b
      BY <1>1, <1>5 DEF Clocks
    <3> QED
      BY <3>1, <1>7
  <2> QED
    BY <1>3, <1>5, <1>7, <1>9, <2>1, <2>2
<1> QED
  BY <1>8, <1>9

(* Every mode has at most one entry, and those in the background are last. *)
THEOREM ClockTypeCorrect == ASSUME OneBehind PROVE ClockSpec => []ClockTypeOK
<1>1. ClockInv => ClockTypeOK
  BY DEF ClockInv, Shape, Once, Behind, ClockTypeOK, IsBackground
<1> QED
  BY <1>1, ClockInvariant, PTL

(* audio_codec_clock.c:234: with one mode in the background the clock of    *)
(* every entry is the sum of its own and the background's.                   *)
THEOREM SumKept == ASSUME OneBehind PROVE ClockSpec => []SumOfBoth
<1>1. ClockInv => SumOfBoth
  BY SumsFollow
<1> QED
  BY <1>1, ClockInvariant, PTL

(* audio_codec_clock.c:255: ... and no mode in use has less than it was given. *)
THEOREM AlwaysEnough == ASSUME OneBehind PROVE ClockSpec => []EnoughForAll
<1>1. ClockInv => EnoughForAll
  BY EnoughFollows
<1> QED
  BY <1>1, ClockInvariant, PTL

-----------------------------------------------------------------------------
(* The charger contact, for all filter lengths: the counters stay within     *)
(* them, and no change of the contact is missed.                             *)

USE ChargeDetectAssumption

LEMMA FilterNat == \A l \in Level : Filter(l) \in Nat
  BY SMT DEF Level, Filter

LEMMA InitTypeOK == DetectInit => DetectTypeOK
<1> SUFFICES ASSUME DetectInit PROVE DetectTypeOK
  OBVIOUS
<1>1. charge_online_flag \in BOOLEAN /\ timer \in BOOLEAN
  BY Zenon DEF DetectInit
<1>2. cnt \in [Level -> Nat] /\ \A l \in Level : cnt[l] <= Filter(l)
  BY FilterNat DEF DetectInit
<1>3. charge_flag \in Level \cup {"none"}
  BY DEF DetectInit, Level
<1> QED
  BY <1>1, <1>2, <1>3 DEF DetectInit, DetectTypeOK

(* A sample keeps its counter within the filter of the level it saw. *)
LEMMA SampleTypeOK == ASSUME DetectTypeOK, Sample PROVE DetectTypeOK'
<1> USE DEF DetectTypeOK, Sample, timing, flags
<1>1. level \in Level /\ Filter(level) \in Nat
  BY FilterNat
<1>2. run' \in Nat
  BY <1>1
<1>3. CASE Counts(level)
  BY <1>1, <1>2, <1>3, FilterNat DEF Counts
<1>4. CASE Waits(level)
  BY <1>1, <1>2, <1>4, FilterNat DEF Waits, OthersCleared
<1>5. CASE Reports(level)
  <2>1. cnt' \in [Level -> Nat] /\ \A l \in Level : cnt'[l] <= Filter(l)
    BY <1>5, FilterNat DEF Reports, OthersCleared
  <2>2. charge_online_flag' \in BOOLEAN
    BY <1>5, Zenon DEF Reports
  <2> QED
    BY <1>1, <1>2, <1>5, <2>1, <2>2 DEF Reports
<1> QED
  BY <1>3, <1>4, <1>5

LEMMA NextTypeOK == ASSUME DetectTypeOK, [DetectNext]_detect_vars PROVE DetectTypeOK'
<1> USE DEF DetectTypeOK, timing, flags
<1>1. CASE Sample
  BY <1>1, SampleTypeOK
<1>2. CASE EdgeInterrupt
  BY <1>2 DEF EdgeInterrupt
<1>3. CASE Changes
  BY <1>3 DEF Changes, Level
<1>4. CASE TaskReady
  BY <1>4 DEF TaskReady
<1>5. CASE DetectStop
  BY <1>5 DEF DetectStop
<1>6. CASE ModuleStop
  BY <1>6 DEF ModuleStop
<1>7. CASE ModuleRestart
  BY <1>7 DEF ModuleRestart
<1>8. CASE UNCHANGED detect_vars
  BY <1>8 DEF detect_vars
<1> QED
  BY <1>1, <1>2, <1>3, <1>4, <1>5, <1>6, <1>7, <1>8 DEF DetectNext

(* Every state has the types of charge.c, and no counter passes its filter. *)
THEOREM DetectTypeCorrect == DetectSpec => []DetectTypeOK
  BY InitTypeOK, NextTypeOK, PTL DEF DetectSpec

-----------------------------------------------------------------------------
LEMMA InitNothingMissed == DetectInit => NothingMissed
  BY Zenon DEF DetectInit, NothingMissed

LEMMA NextNothingMissed ==
  ASSUME DetectTypeOK, NothingMissed, [DetectNext]_detect_vars PROVE NothingMissed'
<1> USE DEF NothingMissed, timing, flags
<1>1. CASE Sample
  BY <1>1 DEF Sample, Counts, Waits, Reports
<1>2. CASE EdgeInterrupt
  BY <1>2 DEF EdgeInterrupt
<1>3. CASE Changes
  BY <1>3 DEF Changes, DetectTypeOK
<1>4. CASE TaskReady
  BY <1>4 DEF TaskReady
<1>5. CASE DetectStop
  BY <1>5 DEF DetectStop
<1>6. CASE ModuleStop
  BY <1>6 DEF ModuleStop
<1>7. CASE ModuleRestart
  BY <1>7 DEF ModuleRestart
<1>8. CASE UNCHANGED detect_vars
  BY <1>8 DEF detect_vars
<1> QED
  BY <1>1, <1>2, <1>3, <1>4, <1>5, <1>6, <1>7, <1>8 DEF DetectNext

(* For all filters: when nothing watches the contact any more, the level   *)
(* reported last is the level there is.                                    *)
THEOREM AllNoticed == DetectSpec => []NothingMissed
<1>1. DetectSpec => []DetectTypeOK
  BY DetectTypeCorrect
<1> QED
  BY <1>1, InitNothingMissed, NextNothingMissed, PTL DEF DetectSpec

-----------------------------------------------------------------------------
(* The steps of the detection are steps of its promise.                    *)

LEMMA InitKept == DetectInit => Promise!Init
  BY DEF DetectInit, Promise!Init

LEMMA StepKept == ASSUME DetectTypeOK, [DetectNext]_detect_vars PROVE [Promise!Next]_Promise!vars
<1> USE DEF timing, flags, Promise!Next, Promise!vars
<1>1. CASE Sample
  <2>1. UNCHANGED <<level, detect_stop, enabled>> /\ ~detect_stop
    BY <1>1 DEF Sample
  <2>2. CASE Counts(level) \/ Waits(level)
    BY <2>1, <2>2 DEF Counts, Waits
  <2>3. CASE Reports(level)
    BY <2>1, <2>3 DEF Reports, Promise!Report, Promise!Reports
  <2> QED
    BY <1>1, <2>2, <2>3 DEF Sample
<1>2. CASE EdgeInterrupt
  BY <1>2 DEF EdgeInterrupt
<1>3. CASE Changes
  BY <1>3 DEF Changes, Promise!Moves
<1>4. CASE TaskReady
  BY <1>4 DEF TaskReady
<1>5. CASE DetectStop
  BY <1>5 DEF DetectStop, Promise!Talk
<1>6. CASE ModuleStop
  <2>1. enabled \in BOOLEAN /\ enabled' = FALSE
    BY <1>6 DEF ModuleStop, DetectTypeOK
  <2>2. enabled' = enabled \/ enabled' = ~enabled
    BY <2>1
  <2> QED
    BY <1>6, <2>2 DEF ModuleStop, Promise!Watch
<1>7. CASE ModuleRestart
  <2>1. enabled \in BOOLEAN /\ enabled' = TRUE
    BY <1>7 DEF ModuleRestart, DetectTypeOK
  <2>2. enabled' = enabled \/ enabled' = ~enabled
    BY <2>1
  <2> QED
    BY <1>7, <2>2 DEF ModuleRestart, Promise!Watch
<1>8. CASE UNCHANGED detect_vars
  BY <1>8 DEF detect_vars
<1> QED
  BY <1>1, <1>2, <1>3, <1>4, <1>5, <1>6, <1>7, <1>8 DEF DetectNext

(* For all filters: ldo5v_detect never reports but what is at the contact  *)
(* at that moment, and nothing while the case talks. (That it reports in   *)
(* the end is the liveness half of the promise, which TLC checks.)         *)
THEOREM PromiseKept == DetectSpec => Promise!Safe
<1>1. DetectSpec => []DetectTypeOK
  BY DetectTypeCorrect
<1> QED
  BY <1>1, InitKept, StepKept, PTL DEF DetectSpec, Promise!Safe

-----------------------------------------------------------------------------
(* How long a report may take: the samples that are left until every       *)
(* counter is at its filter.                                               *)
DetectRank ==
    (Filter("in") - cnt["in"]) + (Filter("keep") - cnt["keep"])
    + (Filter("off") - cnt["off"])
DetectRankMax == Filter("in") + Filter("keep") + Filter("off")

LEMMA DetectRanked == ASSUME DetectTypeOK PROVE DetectRank \in 0 .. DetectRankMax
<1>1. \A l \in Level : cnt[l] \in Nat /\ Filter(l) \in Nat /\ cnt[l] <= Filter(l)
  BY FilterNat DEF DetectTypeOK
<1>2. {"in", "keep", "off"} \subseteq Level
  BY DEF Level
<1> QED
  BY <1>1, <1>2 DEF DetectRank, DetectRankMax

(* With the application ready a sample reports, or one count grows and none *)
(* is lost.                                                                *)
LEMMA SampleCounts ==
  ASSUME DetectTypeOK, Sample, charge_event_flag
  PROVE  charge_flag' = level \/ DetectRank' < DetectRank
<1>1. CASE Reports(level)
  BY <1>1 DEF Reports
<1>2. CASE Counts(level)
  <2>1. \A l \in Level : cnt[l] \in Nat /\ Filter(l) \in Nat
    BY FilterNat DEF DetectTypeOK
  <2>2. cnt \in [Level -> Nat] /\ level \in Level
    BY DEF DetectTypeOK
  <2>3. cnt' = [cnt EXCEPT ![level] = @ + 1]
    BY <1>2 DEF Counts
  <2>4. CASE level = "in"
    BY <2>1, <2>2, <2>3, <2>4 DEF Level, DetectRank
  <2>5. CASE level = "keep"
    BY <2>1, <2>2, <2>3, <2>5 DEF Level, DetectRank
  <2>6. CASE level = "off"
    BY <2>1, <2>2, <2>3, <2>6 DEF Level, DetectRank
  <2> QED
    BY <2>2, <2>4, <2>5, <2>6 DEF Level
<1> QED
  BY <1>1, <1>2 DEF Sample, Waits

LEMMA OthersLeaveCounts ==
  ASSUME [DetectNext]_detect_vars, ~Sample PROVE cnt' = cnt
  BY DEF DetectNext, EdgeInterrupt, Changes, TaskReady, DetectStop, ModuleStop,
         ModuleRestart, detect_vars

(* For all filters, however the contact bounces: with the application      *)
(* ready, each sample of ldo5v_detect reports the level of that moment or   *)
(* lowers a number which nothing else changes and which is at most the sum  *)
(* of the three filters. So a timer that goes on ends in a report, and a    *)
(* level not yet reported has a timer or an edge that will start one. (That *)
(* timer and interrupts run is the fairness that TLC assumes.)              *)
ReportsInTime ==
    charge_event_flag =>
        /\ Sample => charge_flag' = level \/ DetectRank' < DetectRank
        /\ ~Sample => DetectRank' = DetectRank

THEOREM ReportedInTime ==
  DetectSpec => /\ [](DetectRank \in 0 .. DetectRankMax /\ NothingMissed)
                /\ [][ReportsInTime]_detect_vars
<1>1. DetectTypeOK /\ [DetectNext]_detect_vars => [ReportsInTime]_detect_vars
  BY SampleCounts, OthersLeaveCounts DEF ReportsInTime, DetectRank
<1> QED
  BY <1>1, DetectTypeCorrect, AllNoticed, DetectRanked, PTL DEF DetectSpec

-----------------------------------------------------------------------------
(* The key scan, for every set of keys and all the times that              *)
(* KeyDriverAssumption allows: the chip never sleeps over a key it has not *)
(* dealt with, filtering works, and UP follows LONG.                       *)

USE KeyDriverAssumption

(* The counters alone, which the arithmetic below needs. *)
Counters ==
    /\ filter_cnt \in 0 .. FilterTime /\ streak \in 0 .. FilterTime
    /\ press_cnt \in 0 .. HoldTime - 1
    /\ click_cnt \in 0 .. MaxClicks /\ click_delay_cnt \in 0 .. ClickDelay + 1
    /\ is_key_active \in 0 .. ActiveTime

Judge == Pressed \/ Released \/ ClickEnds \/ ClickWaits \/ Quiet \/ Stays

(* What judging a filtered value does to the counters. *)
LEMMA JudgeCounters ==
  ASSUME Counters, Judge
  PROVE  /\ press_cnt' \in 0 .. HoldTime - 1
         /\ click_cnt' \in 0 .. MaxClicks
         /\ click_delay_cnt' \in 0 .. ClickDelay + 1
<1> USE DEF Counters, Silent, Notify
<1>1. CASE Pressed
  BY <1>1 DEF Pressed
<1>2. CASE Released
  BY <1>2 DEF Released
<1>3. CASE ClickEnds
  BY <1>3 DEF ClickEnds
<1>4. CASE ClickWaits
  BY <1>4 DEF ClickWaits
<1>5. CASE Quiet
  BY <1>5 DEF Quiet
<1>6. CASE Stays
  BY <1>6 DEF Stays
<1> QED
  BY <1>1, <1>2, <1>3, <1>4, <1>5, <1>6 DEF Judge

LEMMA InitCounters == Init => Counters
  BY DEF Init, Counters

LEMMA NextCounters == ASSUME Counters, [Next]_vars PROVE Counters'
<1>1. CASE Scan
  <2>1. is_key_active' \in 0 .. ActiveTime /\ streak' \in 0 .. FilterTime
    BY <1>1 DEF Scan, Counters
  <2>2. CASE Bounces
    BY <2>1, <2>2 DEF Bounces, Counters, para
  <2>3. CASE Filters
    BY <2>1, <2>3 DEF Filters, Counters, para
  <2>4. CASE Judge /\ UNCHANGED filter
    BY <2>1, <2>4, JudgeCounters DEF Counters, filter
  <2> QED
    BY <1>1, <2>2, <2>3, <2>4 DEF Scan, Judge
<1>2. CASE Press
  BY <1>2 DEF Press, Counters, filter, para
<1>3. CASE Moves
  BY <1>3 DEF Moves, Counters, filter, para
<1>4. CASE Sleep
  BY <1>4 DEF Sleep, Counters, filter, para
<1>5. CASE Wake
  BY <1>5 DEF Wake, Counters, filter, para
<1>6. CASE UNCHANGED vars
  BY <1>6 DEF vars, Counters, filter, para
<1> QED
  BY <1>1, <1>2, <1>3, <1>4, <1>5, <1>6 DEF Next

-----------------------------------------------------------------------------
(* While something is pending is_key_active has lost no more than one for  *)
(* each scan since a key was last read: those of the filter and those that *)
(* wait for another click.                                                 *)
Pending == click_cnt > 0 \/ last_key # NO_KEY

AwakeInv ==
    /\ Pending /\ filter_value # NO_KEY => is_key_active = ActiveTime
    /\ last_key # NO_KEY /\ filter_value = NO_KEY
         => is_key_active + filter_cnt + 1 >= ActiveTime
    /\ last_key = NO_KEY /\ click_cnt > 0 /\ filter_value = NO_KEY
         => is_key_active + filter_cnt + click_delay_cnt + 1 >= ActiveTime
    /\ raw # NO_KEY => is_key_active = ActiveTime
    /\ asleep => is_key_active = 0

LEMMA AwakeEnough == Counters /\ AwakeInv => AwakeWhilePending
  BY DEF Counters, AwakeInv, AwakeWhilePending, Pending

LEMMA InitAwake == Init => AwakeInv
  BY DEF Init, AwakeInv, Pending

LEMMA ScanAwake == ASSUME Counters, AwakeInv, Scan PROVE AwakeInv'
<1> USE DEF Counters, AwakeInv, Pending
<1>1. ~asleep' /\ raw' = raw
  BY DEF Scan
<1>2. CASE raw # NO_KEY
  <2>1. is_key_active' = ActiveTime
    BY <1>2 DEF Scan
  <2>2. filter_value' = raw
    BY DEF Scan, Bounces, Filters, Steady, filter
  <2> QED
    BY <1>1, <1>2, <2>1, <2>2
<1>3. CASE raw = NO_KEY
  <2>0. Pending => is_key_active' = is_key_active - 1
    BY <1>3 DEF Scan
  <2>1. CASE Bounces
    BY <1>1, <1>3, <2>0, <2>1 DEF Bounces, para
  <2>2. CASE Filters
    BY <1>1, <1>3, <2>0, <2>2 DEF Filters, para
  <2>3. ASSUME Steady, Judge, last_key' = raw, UNCHANGED filter
        PROVE  AwakeInv'
    <3> USE DEF filter, Steady, Silent, Notify
    <3>1. CASE Released
      BY <1>1, <1>3, <2>0, <2>3, <3>1 DEF Released
    <3>2. CASE ClickEnds
      BY <1>1, <1>3, <2>0, <2>3, <3>2 DEF ClickEnds
    <3>3. CASE ClickWaits
      BY <1>1, <1>3, <2>0, <2>3, <3>3 DEF ClickWaits
    <3>4. CASE Quiet
      BY <1>1, <1>3, <2>0, <2>3, <3>4 DEF Quiet
    <3> QED
      BY <1>3, <2>3, <3>1, <3>2, <3>3, <3>4 DEF Judge, Pressed, Stays
  <2> QED
    BY <2>1, <2>2, <2>3 DEF Scan, Judge
<1> QED
  BY <1>2, <1>3

LEMMA NextAwake == ASSUME Counters, AwakeInv, [Next]_vars PROVE AwakeInv'
<1> USE DEF Counters, AwakeInv, Pending, filter, para
<1>1. CASE Scan
  BY <1>1, ScanAwake
<1>2. CASE Press
  BY <1>2 DEF Press
<1>3. CASE Moves
  BY <1>3 DEF Moves
<1>4. CASE Sleep
  BY <1>4 DEF Sleep
<1>5. CASE Wake
  BY <1>5 DEF Wake
<1>6. CASE UNCHANGED vars
  BY <1>6 DEF vars
<1> QED
  BY <1>1, <1>2, <1>3, <1>4, <1>5, <1>6 DEF Next

(* For all keys and times: the chip sleeps only when no key is down, no    *)
(* key is in effect and no click is still to be said.                      *)
THEOREM SleepsBetweenClicks == Spec => []AwakeWhilePending
  BY InitCounters, NextCounters, InitAwake, NextAwake, AwakeEnough, PTL DEF Spec

-----------------------------------------------------------------------------
(* A long press in effect is the key its LONG was sent for.                *)
HeldInv == last_key # NO_KEY /\ press_cnt >= LongTime => held = last_key

LEMMA NextHeld == ASSUME Counters, HeldInv, [Next]_vars PROVE HeldInv'
<1> USE DEF HeldInv, para, history
<1>1. CASE Scan
  <2> USE DEF Silent, Notify
  <2>1. CASE Bounces
    BY <2>1 DEF Bounces
  <2>2. CASE Filters
    BY <2>2 DEF Filters
  <2>3. CASE Judge /\ last_key' = raw
    BY <2>3 DEF Judge, Pressed, Released, ClickEnds, ClickWaits, Quiet, Stays, Counters
  <2> QED
    BY <1>1, <2>1, <2>2, <2>3 DEF Scan, Judge
<1>2. CASE Press \/ Moves \/ Sleep \/ Wake
  BY <1>2 DEF Press, Moves, Sleep, Wake
<1>3. CASE UNCHANGED vars
  BY <1>3 DEF vars
<1> QED
  BY <1>1, <1>2, <1>3 DEF Next

LEMMA HeldEvents ==
  ASSUME Counters, HeldInv, [Next]_vars, event' # event, event'.event \in {"HOLD", "UP"}
  PROVE  held = event'.value
<1> USE DEF HeldInv, history
<1>1. Scan
  BY DEF Next, Press, Moves, Sleep, Wake, vars
<1> USE DEF Silent, Notify, NoEvent
<1>2. CASE Bounces \/ Filters \/ Pressed \/ ClickEnds \/ ClickWaits \/ Quiet
  BY <1>2 DEF Bounces, Filters, Pressed, ClickEnds, ClickWaits, Quiet
<1>3. CASE Released
  BY <1>3 DEF Released
<1>4. CASE Stays
  BY <1>4 DEF Stays, Counters
<1> QED
  BY <1>1, <1>2, <1>3, <1>4 DEF Scan

(* For all keys and times: HOLD and UP are sent only for the key of the    *)
(* last LONG that had no UP yet.                                           *)
THEOREM HoldAndUpAfterLong == Spec => LongFirst
<1>1. Init => HeldInv
  BY DEF Init, HeldInv
<1>2. Counters /\ HeldInv /\ [Next]_vars
      => [event' # event /\ event'.event \in {"HOLD", "UP"} => held = event'.value]_vars
  BY HeldEvents
<1> QED
  BY <1>1, <1>2, InitCounters, NextCounters, NextHeld, PTL DEF Spec, LongFirst

-----------------------------------------------------------------------------
(* The filter counts no scan that did not read filter_value. *)
FilterInv == filter_cnt <= streak

LEMMA NextFilter == ASSUME Counters, FilterInv, [Next]_vars PROVE FilterInv'
<1> USE DEF FilterInv, Counters, filter
<1>1. CASE Scan
  <2>1. CASE Bounces
    BY <1>1, <2>1 DEF Scan, Bounces
  <2>2. CASE Filters
    BY <1>1, <2>2 DEF Scan, Filters
  <2>3. CASE Steady /\ UNCHANGED filter
    BY <1>1, <2>3 DEF Scan, Steady
  <2> QED
    BY <1>1, <2>1, <2>2, <2>3 DEF Scan
<1>2. CASE Press \/ Moves \/ Sleep \/ Wake
  BY <1>2 DEF Press, Moves, Sleep, Wake
<1>3. CASE UNCHANGED vars
  BY <1>3 DEF vars
<1> QED
  BY <1>1, <1>2, <1>3 DEF Next

LEMMA FilteredChange ==
  ASSUME Counters, FilterInv, [Next]_vars, last_key' # last_key
  PROVE  raw = filter_value /\ streak >= FilterTime
<1>1. Scan
  BY DEF Next, Press, Moves, Sleep, Wake, vars, para
<1>2. Steady
  BY <1>1 DEF Scan, Bounces, Filters, para
<1> QED
  BY <1>2 DEF Steady, FilterInv, Counters

(* For all keys and times: nothing comes into effect that was not read for *)
(* as many scans in a row as the filter asks.                              *)
THEOREM FilterWorks == Spec => Debounced
<1>1. Init => FilterInv
  BY DEF Init, FilterInv
<1>2. Counters /\ FilterInv /\ [Next]_vars
      => [last_key' # last_key => raw = filter_value /\ streak >= FilterTime]_vars
  BY FilteredChange
<1> QED
  BY <1>1, <1>2, InitCounters, NextCounters, NextFilter, PTL DEF Spec, Debounced

-----------------------------------------------------------------------------
(* The values that are keys, and what a scan sends. *)
Values ==
    /\ raw \in Value /\ filter_value \in Value /\ last_key \in Value
    /\ notify_value \in Value /\ held \in Value
    /\ click_cnt > 0 => notify_value \in Key

LEMMA InitValues == Init => Values
  BY DEF Init, Values, Value

LEMMA NextValues == ASSUME Counters, Values, [Next]_vars PROVE Values'
<1> USE DEF Values, Value, filter, para, history
<1>1. CASE Scan
  <2> USE DEF Silent, Notify
  <2>0. raw' = raw
    BY <1>1 DEF Scan
  <2>1. CASE Bounces
    BY <2>0, <2>1 DEF Bounces
  <2>2. CASE Filters
    BY <2>0, <2>2 DEF Filters
  <2>3. ASSUME Judge, last_key' = raw, UNCHANGED filter
        PROVE  Values'
    <3>1. CASE Pressed
      BY <2>0, <2>3, <3>1 DEF Pressed
    <3>2. CASE Released
      BY <2>0, <2>3, <3>2 DEF Released
    <3>3. CASE ClickEnds
      BY <2>0, <2>3, <3>3 DEF ClickEnds
    <3>4. CASE ClickWaits \/ Quiet
      BY <2>0, <2>3, <3>4 DEF ClickWaits, Quiet
    <3>5. CASE Stays
      BY <2>0, <2>3, <3>5 DEF Stays
    <3> QED
      BY <2>3, <3>1, <3>2, <3>3, <3>4, <3>5 DEF Judge
  <2> QED
    BY <1>1, <2>1, <2>2, <2>3 DEF Scan, Judge
<1>2. CASE Press
  BY <1>2 DEF Press
<1>3. CASE Moves
  BY <1>3 DEF Moves
<1>4. CASE Sleep \/ Wake
  BY <1>4 DEF Sleep, Wake
<1>5. CASE UNCHANGED vars
  BY <1>5 DEF vars
<1> QED
  BY <1>1, <1>2, <1>3, <1>4, <1>5 DEF Next

(* Every event a scan sends names a key and, if it is a CLICK, how often it  *)
(* was clicked: never no key and never no click.                           *)
LEMMA NextEvent ==
  ASSUME Counters, Values, event \in Event, asleep \in BOOLEAN, [Next]_vars
  PROVE  event' \in Event /\ asleep' \in BOOLEAN
<1> USE DEF filter, para, history
<1>0. NoEvent \in Event
  BY DEF Event
<1>1. ASSUME NEW e \in {"LONG", "HOLD", "UP"}, NEW k \in Key, Notify(e, k, 0)
      PROVE  event' \in Event
  BY <1>1 DEF Notify, Event
<1>2. ASSUME NEW n \in Clicks, NEW k \in Key, Notify("CLICK", k, n)
      PROVE  event' \in Event
  BY <1>2 DEF Notify, Event
<1>3. CASE Scan
  <2>0. asleep' = asleep
    BY <1>3 DEF Scan
  <2>1. CASE Bounces \/ Filters \/ Pressed \/ ClickWaits \/ Quiet
    BY <1>0, <2>0, <2>1 DEF Bounces, Filters, Pressed, ClickWaits, Quiet, Silent
  <2>2. CASE Released
    <3>1. last_key \in Key
      BY <2>2 DEF Released, Values, Value
    <3> QED
      BY <1>0, <1>1, <2>0, <2>2, <3>1 DEF Released, Silent
  <2>3. CASE ClickEnds
    <3> DEFINE n == IF notify_value \in ClickOnly THEN 1 ELSE click_cnt
    <3>1. notify_value \in Key /\ n \in Clicks /\ Notify("CLICK", notify_value, n)
      BY <2>3 DEF ClickEnds, Values, Counters, Clicks
    <3> HIDE DEF n
    <3> QED
      BY <1>2, <2>0, <3>1
  <2>4. CASE Stays
    <3>1. raw \in Key
      BY <2>4 DEF Stays, Values, Value
    <3> QED
      BY <1>0, <1>1, <2>0, <2>4, <3>1 DEF Stays, Silent
  <2> QED
    BY <1>3, <2>1, <2>2, <2>3, <2>4 DEF Scan
<1>4. CASE Press \/ Moves \/ Sleep \/ Wake
  BY <1>4 DEF Press, Moves, Sleep, Wake
<1>5. CASE UNCHANGED vars
  BY <1>5 DEF vars
<1> QED
  BY <1>3, <1>4, <1>5 DEF Next

(* For all keys and times: every variable keeps its type, and what is sent   *)
(* is a key with its clicks, or its long press.                            *)
THEOREM KeysTypeCorrect == Spec => []TypeOK
<1> DEFINE Inv == Counters /\ Values /\ event \in Event /\ asleep \in BOOLEAN
<1>1. Init => Inv
  BY InitCounters, InitValues DEF Init, Event
<1>2. Inv /\ [Next]_vars => Inv'
  BY NextCounters, NextValues, NextEvent
<1>3. Inv => TypeOK
  BY DEF Counters, Values, TypeOK
<1> QED
  BY <1>1, <1>2, <1>3, PTL DEF Spec

-----------------------------------------------------------------------------
(* How many scans an answer may take. FilterRank: until what is read is    *)
(* believed; ClickRank: then until a released key has been said; PressRank: *)
(* or until HOLD is sent for the key that is down.                         *)
FilterRank == IF filter_value # raw THEN FilterTime + 1 ELSE FilterTime - filter_cnt
ClickRank ==
    CASE last_key # NO_KEY -> ClickDelay + 2
      [] last_key = NO_KEY /\ click_cnt > 0 -> ClickDelay + 2 - click_delay_cnt
      [] OTHER -> 0
PressRank == IF last_key # raw THEN HoldTime ELSE HoldTime - press_cnt
SaidRank == FilterRank + ClickRank
HoldRank == FilterRank + PressRank

LEMMA KeyRanks ==
  ASSUME Counters
  PROVE  /\ SaidRank \in 0 .. FilterTime + ClickDelay + 3
         /\ HoldRank \in 1 .. FilterTime + HoldTime + 1
  BY DEF Counters, FilterRank, SaidRank, HoldRank, ClickRank, PressRank

(* The filter comes nearer to its end, or has ended and the value is judged. *)
LEMMA ScanFilters ==
  ASSUME Counters, Scan
  PROVE  \/ /\ FilterRank \in Nat /\ FilterRank' \in Nat /\ FilterRank' < FilterRank
            /\ UNCHANGED para
         \/ /\ FilterRank = 0 /\ FilterRank' = 0
            /\ Judge /\ last_key' = raw
<1> USE DEF Counters, FilterRank
<1>1. raw' = raw
  BY DEF Scan
<1>2. CASE Bounces
  BY <1>1, <1>2 DEF Bounces
<1>3. CASE Filters
  BY <1>1, <1>3 DEF Filters
<1>4. CASE Steady /\ Judge /\ last_key' = raw /\ UNCHANGED filter
  BY <1>1, <1>4 DEF Steady, filter
<1> QED
  BY <1>2, <1>3, <1>4 DEF Scan, Judge

(* While no key is down. *)
SaysIt ==
    raw = NO_KEY /\ raw' = NO_KEY =>
        /\ Settled => Settled'
        /\ SaidRank' <= SaidRank
        /\ Scan /\ ~Settled => SaidRank' < SaidRank

LEMMA ScanSays ==
  ASSUME Counters, Counters', Scan, raw = NO_KEY
  PROVE  /\ Settled => Settled'
         /\ SaidRank' <= SaidRank
         /\ ~Settled => SaidRank' < SaidRank
<1> USE DEF Counters, SaidRank, ClickRank, Settled
<1>1. ASSUME FilterRank \in Nat, FilterRank' \in Nat, FilterRank' < FilterRank,
             UNCHANGED para
      PROVE  /\ Settled => Settled'
             /\ SaidRank' <= SaidRank
             /\ ~Settled => SaidRank' < SaidRank
  <2>1. ClickRank' = ClickRank /\ Settled' = Settled
    BY <1>1 DEF para
  <2>2. PICK c \in Nat : c = ClickRank
    OBVIOUS
  <2>3. PICK r \in Nat, s \in Nat : r = FilterRank /\ s = FilterRank' /\ s < r
    BY <1>1
  <2> HIDE DEF ClickRank, Settled
  <2>4. SaidRank = r + c /\ SaidRank' = s + c
    BY <2>1, <2>2, <2>3
  <2>5. s < r => s + c < r + c /\ s + c <= r + c
    OBVIOUS
  <2> HIDE DEF SaidRank
  <2> QED
    BY <2>1, <2>3, <2>4, <2>5, Zenon
<1>2. ASSUME FilterRank = 0, FilterRank' = 0, Judge, last_key' = raw
      PROVE  /\ Settled => Settled'
             /\ SaidRank' <= SaidRank
             /\ ~Settled => SaidRank' < SaidRank
  <2> USE DEF Notify, Silent
  <2>1. CASE Released
    BY <1>2, <2>1 DEF Released
  <2>2. CASE ClickEnds
    BY <1>2, <2>2 DEF ClickEnds
  <2>3. CASE ClickWaits
    BY <1>2, <2>3 DEF ClickWaits
  <2>4. CASE Quiet
    BY <1>2, <2>4 DEF Quiet
  <2> QED
    BY <1>2, <2>1, <2>2, <2>3, <2>4 DEF Judge, Pressed, Stays
<1> QED
  BY <1>1, <1>2, ScanFilters

LEMMA OthersLeavePara ==
  ASSUME [Next]_vars, ~Scan PROVE UNCHANGED <<filter, para>>
  BY DEF Next, Press, Moves, Sleep, Wake, vars

LEMMA NextSays == ASSUME Counters, Counters', [Next]_vars PROVE SaysIt
<1> SUFFICES ASSUME raw = NO_KEY, raw' = NO_KEY
             PROVE  /\ Settled => Settled'
                    /\ SaidRank' <= SaidRank
                    /\ Scan /\ ~Settled => SaidRank' < SaidRank
  BY DEF SaysIt
<1>1. CASE Scan
  BY <1>1, ScanSays
<1>2. CASE ~Scan
  <2>1. SaidRank' = SaidRank /\ Settled' = Settled
    BY <1>2, OthersLeavePara DEF SaidRank, ClickRank, FilterRank, Settled, filter, para
  <2> QED
    BY <1>2, <2>1, KeyRanks
<1> QED
  BY <1>1, <1>2

(* For all keys and times: once no key is down, every scan that leaves      *)
(* something unsaid brings the end nearer, nothing else puts it off, and    *)
(* the chip does not sleep before: what was pressed is said within          *)
(* FilterTime + ClickDelay + 3 scans and stays said. (That the timer goes   *)
(* on scanning is the fairness that TLC assumes.)                           *)
THEOREM SaidInTime ==
  Spec => /\ [](/\ SaidRank \in 0 .. FilterTime + ClickDelay + 3
                /\ ~Settled => ~asleep)
          /\ [][SaysIt]_vars
<1>1. Counters /\ Counters' /\ [Next]_vars => [SaysIt]_vars
  BY NextSays
<1>2. Counters /\ AwakeInv => (~Settled => ~asleep)
  BY AwakeEnough DEF AwakeWhilePending, Settled
<1>3. Counters => SaidRank \in 0 .. FilterTime + ClickDelay + 3
  BY KeyRanks
<1> QED
  BY <1>1, <1>2, <1>3, InitCounters, NextCounters, InitAwake, NextAwake, PTL DEF Spec

-----------------------------------------------------------------------------
(* While one key stays down. *)
HoldsOn ==
    raw # NO_KEY /\ raw' = raw =>
        /\ Scan => (event'.event = "HOLD" /\ event'.value = raw) \/ HoldRank' < HoldRank
        /\ ~Scan => HoldRank' = HoldRank

LEMMA ScanHolds ==
  ASSUME Counters, Counters', Scan, raw # NO_KEY
  PROVE  (event'.event = "HOLD" /\ event'.value = raw) \/ HoldRank' < HoldRank
<1> USE DEF Counters, HoldRank, PressRank
<1>1. raw' = raw
  BY DEF Scan
<1>2. ASSUME FilterRank \in Nat, FilterRank' \in Nat, FilterRank' < FilterRank,
             UNCHANGED para
      PROVE  HoldRank' < HoldRank
  <2>1. PressRank' = PressRank
    BY <1>1, <1>2 DEF para
  <2>2. PICK c \in Nat : c = PressRank
    OBVIOUS
  <2>3. PICK r \in Nat, s \in Nat : r = FilterRank /\ s = FilterRank' /\ s < r
    BY <1>2
  <2> HIDE DEF PressRank
  <2>4. HoldRank = r + c /\ HoldRank' = s + c
    BY <2>1, <2>2, <2>3
  <2>5. s < r => s + c < r + c
    OBVIOUS
  <2> HIDE DEF HoldRank
  <2> QED
    BY <2>3, <2>4, <2>5, Zenon
<1>3. ASSUME FilterRank = 0, FilterRank' = 0, Judge, last_key' = raw
      PROVE  (event'.event = "HOLD" /\ event'.value = raw) \/ HoldRank' < HoldRank
  <2>1. CASE Pressed
    BY <1>1, <1>3, <2>1 DEF Pressed
  <2>2. CASE Stays
    <3>1. CASE press_cnt' = LongTime /\ press_cnt + 1 = LongTime
      BY <1>1, <1>3, <2>2, <3>1 DEF Stays
    <3>2. CASE Notify("HOLD", raw, 0)
      BY <3>2 DEF Notify
    <3>3. CASE press_cnt' = press_cnt + 1
      BY <1>1, <1>3, <2>2, <3>3 DEF Stays
    <3> QED
      BY <2>2, <3>1, <3>2, <3>3 DEF Stays
  <2> QED
    BY <1>3, <2>1, <2>2 DEF Judge, Released, ClickEnds, ClickWaits, Quiet
<1> QED
  BY <1>2, <1>3, ScanFilters

LEMMA NextHolds == ASSUME Counters, Counters', [Next]_vars PROVE HoldsOn
<1>1. ASSUME ~Scan, raw' = raw PROVE HoldRank' = HoldRank
  BY <1>1, OthersLeavePara DEF HoldRank, PressRank, FilterRank, filter, para
<1> QED
  BY <1>1, ScanHolds DEF HoldsOn

(* For all keys and times: while a key stays down, every scan sends its     *)
(* HOLD or brings it nearer, nothing else changes how near it is, and the   *)
(* chip does not sleep: HOLD comes within FilterTime + HoldTime + 1 scans,  *)
(* and again and again. (The timer's fairness is left to TLC.)              *)
THEOREM HoldInTime ==
  Spec => /\ [](/\ HoldRank \in 1 .. FilterTime + HoldTime + 1
                /\ raw # NO_KEY => ~asleep)
          /\ [][HoldsOn]_vars
<1>1. Counters /\ Counters' /\ [Next]_vars => [HoldsOn]_vars
  BY NextHolds
<1>2. Counters /\ AwakeInv => (raw # NO_KEY => ~asleep)
  BY AwakeEnough DEF AwakeWhilePending
<1>3. Counters => HoldRank \in 1 .. FilterTime + HoldTime + 1
  BY KeyRanks
<1> QED
  BY <1>1, <1>2, <1>3, InitCounters, NextCounters, InitAwake, NextAwake, PTL DEF Spec

-----------------------------------------------------------------------------
(* With a single key a LONG without its UP is always a long press that is  *)
(* still in effect. With several keys a finger that slides loses the UP.   *)
OneKey == \A k1, k2 \in Key : k1 = k2
LongInEffect == held # NO_KEY => last_key # NO_KEY /\ press_cnt >= LongTime

LEMMA NextLongInEffect ==
  ASSUME OneKey, Counters, Values, LongInEffect, [Next]_vars PROVE LongInEffect'
<1> USE DEF LongInEffect, para, history
<1>1. CASE Scan
  <2> USE DEF Silent, Notify
  <2>1. CASE Bounces
    BY <2>1 DEF Bounces
  <2>2. CASE Filters
    BY <2>2 DEF Filters
  <2>3. CASE Pressed
    BY <2>3 DEF Pressed, OneKey, Values, Value
  <2>4. CASE Released
    BY <2>4 DEF Released
  <2>5. CASE (ClickEnds \/ ClickWaits \/ Quiet) /\ last_key' = raw
    BY <2>5 DEF ClickEnds, ClickWaits, Quiet
  <2>6. CASE Stays /\ last_key' = raw
    BY <2>6 DEF Stays, Counters
  <2> QED
    BY <1>1, <2>1, <2>2, <2>3, <2>4, <2>5, <2>6 DEF Scan
<1>2. CASE Press \/ Moves \/ Sleep \/ Wake
  BY <1>2 DEF Press, Moves, Sleep, Wake
<1>3. CASE UNCHANGED vars
  BY <1>3 DEF vars
<1> QED
  BY <1>1, <1>2, <1>3 DEF Next

(* On a board with one key, for all times: the UP of a long press is sent  *)
(* when the key is released.                                               *)
THEOREM UpFollowsLong == ASSUME OneKey PROVE Spec => []UpSent
<1>1. Init => LongInEffect
  BY DEF Init, LongInEffect
<1>2. LongInEffect => UpSent
  BY DEF LongInEffect, UpSent
<1>3. Counters /\ Values /\ LongInEffect /\ [Next]_vars => LongInEffect'
  BY OneKey, NextLongInEffect
<1> QED
  BY <1>1, <1>2, <1>3, InitCounters, NextCounters, InitValues, NextValues, PTL DEF Spec
=============================================================================
