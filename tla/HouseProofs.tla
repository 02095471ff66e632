---------------------------- MODULE HouseProofs -----------------------------
(* Proofs about the pages, cards and overlays of the web UI and the part   *)
(* of the server that answers them: each part alone (those that list what  *)
(* the server has are in PagesProofs), and the house whose behaviours are  *)
(* about one of them.                                                      *)
EXTENDS House, PagesProofs, SequenceTheorems, FiniteSetTheorems, TLAPS

-----------------------------------------------------------------------------
(* Getting in (Auth).  The requests let through at a time from lo to hi.   *)
Hits(s, lo, hi) == {n \in DOMAIN s : lo <= s[n] /\ s[n] <= hi}

(* What the guard has let through, s, when the window it remembers ends at *)
(* reset and counts count: those inside the window are counted; those      *)
(* before it, back to one more window, are as few; and so are twice as     *)
(* many in any span.                                                       *)
Limited(s, reset, count) ==
    /\ s \in Seq(Int) /\ reset \in Int /\ count \in 0 .. Attempts
    /\ \A n \in DOMAIN s : s[n] <= reset
    /\ Cardinality(Hits(s, reset - Window, reset)) <= count
    /\ \A t \in Int : t >= reset - 2 * Window =>
          Cardinality(Hits(s, t, reset - Window - 1)) <= Attempts
    /\ \A t \in Int : Cardinality(Hits(s, t, t + Window)) <= 2 * Attempts

LEMMA HitsAreFinite ==
    ASSUME NEW s \in Seq(Int), NEW lo \in Int, NEW hi \in Int
    PROVE  /\ IsFiniteSet(Hits(s, lo, hi)) /\ Cardinality(Hits(s, lo, hi)) \in Nat
<1>1. IsFiniteSet(1 .. Len(s))
  BY FS_Interval
<1>2. Hits(s, lo, hi) \in SUBSET (1 .. Len(s))
  BY DEF Hits
<1>. QED
  BY <1>1, <1>2, FS_Subset, FS_CardinalityType

(* The hits of a span that is made of two.                                 *)
LEMMA HitsOfTwo ==
    ASSUME NEW s \in Seq(Int), NEW lo \in Int, NEW hi \in Int,
           NEW a \in Int, NEW b \in Int, NEW c \in Int, NEW d \in Int,
           \A t \in Int : lo <= t /\ t <= hi => (a <= t /\ t <= b) \/ (c <= t /\ t <= d)
    PROVE  Cardinality(Hits(s, lo, hi)) <= Cardinality(Hits(s, a, b)) + Cardinality(Hits(s, c, d))
<1>. DEFINE A == Hits(s, a, b)
            C == Hits(s, c, d)
            L == Hits(s, lo, hi)
<1>1. IsFiniteSet(A) /\ IsFiniteSet(C) /\ Cardinality(A) \in Nat /\ Cardinality(C) \in Nat
  BY HitsAreFinite
<1>2. \A n \in DOMAIN s : s[n] \in Int
  OBVIOUS
<1>3. L \in SUBSET (A \cup C)
  BY <1>2 DEF Hits
<1>. HIDE DEF A, C, L
<1>4. IsFiniteSet(A \cup C) /\ IsFiniteSet(A \cap C)
      /\ Cardinality(A \cup C) = Cardinality(A) + Cardinality(C) - Cardinality(A \cap C)
  BY <1>1, FS_Union, FS_Intersection
<1>5. Cardinality(A \cap C) \in Nat
  BY <1>4, FS_CardinalityType
<1>6. IsFiniteSet(L) /\ Cardinality(L) <= Cardinality(A \cup C)
  BY <1>3, <1>4, FS_Subset
<1>7. Cardinality(L) \in Nat
  BY <1>6, FS_CardinalityType
<1>8. Cardinality(L) <= Cardinality(A) + Cardinality(C)
  BY <1>1, <1>4, <1>5, <1>6, <1>7
<1>. QED
  BY <1>8 DEF A, C, L

(* A span within another has no more.                                      *)
LEMMA HitsWithin ==
    ASSUME NEW s \in Seq(Int), NEW lo \in Int, NEW hi \in Int, NEW a \in Int, NEW b \in Int,
           \A n \in DOMAIN s : lo <= s[n] /\ s[n] <= hi => a <= s[n] /\ s[n] <= b
    PROVE  Cardinality(Hits(s, lo, hi)) <= Cardinality(Hits(s, a, b))
<1>1. Hits(s, lo, hi) \in SUBSET Hits(s, a, b)
  BY DEF Hits
<1>. QED
  BY <1>1, HitsAreFinite, FS_Subset

(* One more request is one more hit of the spans it falls into.            *)
LEMMA HitsOfOneMore ==
    ASSUME NEW s \in Seq(Int), NEW x \in Int, NEW lo \in Int, NEW hi \in Int
    PROVE  /\ Cardinality(Hits(Append(s, x), lo, hi)) <= Cardinality(Hits(s, lo, hi)) + 1
           /\ ~(lo <= x /\ x <= hi) => Hits(Append(s, x), lo, hi) = Hits(s, lo, hi)
<1>. DEFINE A == Hits(s, lo, hi)
            B == Hits(Append(s, x), lo, hi)
            k == Len(s) + 1
<1>1. DOMAIN Append(s, x) = DOMAIN s \cup {k} /\ k \notin DOMAIN s
      /\ Append(s, x)[k] = x /\ \A n \in DOMAIN s : Append(s, x)[n] = s[n]
  OBVIOUS
<1>2. IsFiniteSet(A) /\ Cardinality(A) \in Nat
  BY HitsAreFinite
<1>3. B \in SUBSET (A \cup {k}) /\ (~(lo <= x /\ x <= hi) => B = A)
  BY <1>1 DEF Hits
<1>. HIDE DEF A, B, k
<1>4. IsFiniteSet(A \cup {k}) /\ Cardinality(A \cup {k}) <= Cardinality(A) + 1
  <2>1. /\ IsFiniteSet(A \cup {k})
        /\ \/ Cardinality(A \cup {k}) = Cardinality(A)
           \/ Cardinality(A \cup {k}) = Cardinality(A) + 1
    BY <1>2, FS_AddElement
  <2>. QED
    BY <1>2, <2>1
<1>5. IsFiniteSet(B) /\ Cardinality(B) <= Cardinality(A \cup {k})
  BY <1>3, <1>4, FS_Subset
<1>6. Cardinality(B) \in Nat /\ Cardinality(A \cup {k}) \in Nat
  BY <1>4, <1>5, FS_CardinalityType
<1>7. Cardinality(B) <= Cardinality(A) + 1
  BY <1>2, <1>4, <1>5, <1>6
<1>. QED
  BY <1>3, <1>7 DEF A, B

(* A request in the window that is remembered, while it is not full.       *)
LEMMA OneMoreInWindow ==
    ASSUME NEW s, NEW reset, NEW count, Limited(s, reset, count), count < Attempts,
           NEW x \in Int, reset - Window <= x, x <= reset
    PROVE  Limited(Append(s, x), reset, count + 1)
<1>. DEFINE u == Append(s, x)
            o == reset - Window
            C(q, lo, hi) == Cardinality(Hits(q, lo, hi))
<1>1. Window \in Nat \ {0} /\ Attempts \in Nat \ {0} /\ 2 * Attempts = Attempts + Attempts
  BY LoginAssumption
<1>2. s \in Seq(Int) /\ reset \in Int /\ count \in Nat
  BY <1>1 DEF Limited
<1>3. u \in Seq(Int) /\ \A n \in DOMAIN u : u[n] <= reset
  BY <1>2 DEF Limited
<1>4. o \in Int /\ o - 1 \in Int /\ 2 * Window = Window + Window
      /\ reset - 2 * Window = o - Window /\ reset - Window - 1 = o - 1
  BY <1>1, <1>2
<1>5. \A lo, hi \in Int : C(u, lo, hi) \in Nat /\ C(s, lo, hi) \in Nat
  BY <1>2, <1>3, HitsAreFinite
<1>6. /\ C(s, o, reset) <= count
      /\ \A t \in Int : t >= o - Window => C(s, t, o - 1) <= Attempts
      /\ \A t \in Int : C(s, t, t + Window) <= 2 * Attempts
  BY <1>4 DEF Limited
<1>7. \A lo, hi \in Int : /\ C(u, lo, hi) <= C(s, lo, hi) + 1
                          /\ ~(lo <= x /\ x <= hi) => C(u, lo, hi) = C(s, lo, hi)
  BY <1>2, HitsOfOneMore
<1>8. \A lo, hi, b, d \in Int :
         hi <= d => C(u, lo, hi) <= C(u, lo, b - 1) + C(u, b, d)
  <2>. SUFFICES ASSUME NEW lo \in Int, NEW hi \in Int, NEW b \in Int, NEW d \in Int, hi <= d
                PROVE  C(u, lo, hi) <= C(u, lo, b - 1) + C(u, b, d)
    OBVIOUS
  <2>1. b - 1 \in Int
        /\ \A t \in Int : lo <= t /\ t <= hi => (lo <= t /\ t <= b - 1) \/ (b <= t /\ t <= d)
    OBVIOUS
  <2>. HIDE DEF u
  <2>. QED
    BY <1>3, <2>1, HitsOfTwo
<1>9. \A hi \in Int : C(u, o, hi) <= C(u, o, reset)
  BY <1>2, <1>3, <1>4, HitsWithin
<1>. HIDE DEF C, u, o
<1>10. C(u, o, reset) <= count + 1
  <2>1. C(u, o, reset) \in Nat /\ C(s, o, reset) \in Nat /\ C(u, o, reset) <= C(s, o, reset) + 1
    BY <1>2, <1>4, <1>5, <1>7
  <2>. QED
    BY <1>2, <1>6, <2>1
<1>11. \A t \in Int : t >= o - Window => C(u, t, o - 1) <= Attempts
  <2>1. ~(x <= o - 1)
    BY <1>2, <1>4 DEF o
  <2>. QED
    BY <1>4, <1>6, <1>7, <2>1
<1>12. ASSUME NEW t \in Int
       PROVE  C(u, t, t + Window) <= 2 * Attempts
  <2>1. t + Window \in Int
    BY <1>1
  <2>2. CASE ~(t <= x /\ x <= t + Window)
    BY <1>6, <1>7, <2>1, <2>2
  <2>3. CASE t <= x /\ x <= t + Window
    <3>1. t >= o - Window
      BY <1>1, <1>2, <1>4, <2>3 DEF o
    <3>2. C(u, t, o - 1) <= Attempts
      BY <1>11, <3>1
    <3>3. C(u, t, t + Window) <= C(u, t, o - 1) + C(u, o, t + Window)
      BY <1>4, <1>8, <2>1
    <3>4. C(u, o, t + Window) <= C(u, o, reset)
      BY <1>9, <2>1
    <3>5. /\ C(u, t, t + Window) \in Nat /\ C(u, t, o - 1) \in Nat
          /\ C(u, o, t + Window) \in Nat /\ C(u, o, reset) \in Nat
      BY <1>2, <1>4, <1>5, <2>1
    <3>6. C(u, t, t + Window) <= Attempts + Attempts
      BY <1>1, <1>2, <1>10, <3>2, <3>3, <3>4, <3>5
    <3>. QED
      BY <1>1, <3>6
  <2>. QED
    BY <2>2, <2>3
<1>13. count + 1 \in 0 .. Attempts
  BY <1>1, <1>2
<1>. QED
  BY <1>2, <1>3, <1>4, <1>10, <1>11, <1>12, <1>13 DEF Limited, C, u, o

(* A request that opens a window: what was counted in the one before is    *)
(* what lies in a window's length before it.                               *)
LEMMA OneMoreOpensWindow ==
    ASSUME NEW s, NEW reset, NEW count, Limited(s, reset, count),
           NEW x \in Int, reset < x
    PROVE  Limited(Append(s, x), x + Window, 1)
<1>. DEFINE u == Append(s, x)
            o == reset - Window
            C(q, lo, hi) == Cardinality(Hits(q, lo, hi))
<1>1. Window \in Nat \ {0} /\ Attempts \in Nat \ {0} /\ 2 * Attempts = Attempts + Attempts
  BY LoginAssumption
<1>2. s \in Seq(Int) /\ reset \in Int /\ count \in Nat /\ count <= Attempts
      /\ \A n \in DOMAIN s : s[n] \in Int /\ s[n] <= reset
  BY <1>1 DEF Limited
<1>3. u \in Seq(Int) /\ \A n \in DOMAIN u : u[n] <= x + Window
  <2>1. \A n \in DOMAIN u : u[n] \in Int /\ u[n] <= x
    BY <1>2
  <2>. QED
    BY <1>1, <1>2, <2>1
<1>4. o \in Int /\ x - 1 \in Int /\ x + Window \in Int /\ 2 * Window = Window + Window
      /\ x + Window - 2 * Window = x - Window
      /\ x + Window - Window = x /\ x + Window - Window - 1 = x - 1
  BY <1>1, <1>2
<1>5. \A lo, hi \in Int : C(u, lo, hi) \in Nat /\ C(s, lo, hi) \in Nat
  BY <1>2, <1>3, HitsAreFinite
<1>6. C(s, o, reset) <= count /\ \A t \in Int : C(s, t, t + Window) <= 2 * Attempts
  BY DEF Limited
<1>7. \A lo, hi \in Int : /\ C(u, lo, hi) <= C(s, lo, hi) + 1
                          /\ ~(lo <= x /\ x <= hi) => C(u, lo, hi) = C(s, lo, hi)
  BY <1>2, HitsOfOneMore
<1>8. \A lo, hi \in Int : o <= lo => C(s, lo, hi) <= C(s, o, reset)
  BY <1>2, <1>4, HitsWithin
<1>9. \A hi \in Int : Hits(s, x, hi) = {}
  BY <1>2 DEF Hits
<1>10. C(s, x, x + Window) = 0
  BY <1>4, <1>9, FS_EmptySet
<1>. HIDE DEF C, u, o
<1>11. C(u, x, x + Window) <= 1
  <2>1. C(u, x, x + Window) \in Nat /\ C(u, x, x + Window) <= C(s, x, x + Window) + 1
    BY <1>4, <1>5, <1>7
  <2>. QED
    BY <1>10, <2>1
<1>12. \A t, hi \in Int : t >= x - Window => C(s, t, hi) <= Attempts
  <2>. SUFFICES ASSUME NEW t \in Int, NEW hi \in Int, t >= x - Window
                PROVE  C(s, t, hi) <= Attempts
    OBVIOUS
  <2>1. o <= t
    BY <1>1, <1>2 DEF o
  <2>2. C(s, t, hi) <= C(s, o, reset) /\ C(s, t, hi) \in Nat /\ C(s, o, reset) \in Nat
    BY <1>2, <1>4, <1>5, <1>8, <2>1
  <2>. QED
    BY <1>1, <1>2, <1>6, <2>2
<1>13. \A t \in Int : t >= x - Window => C(u, t, x - 1) <= Attempts
  BY <1>4, <1>7, <1>12
<1>14. ASSUME NEW t \in Int
       PROVE  C(u, t, t + Window) <= 2 * Attempts
  <2>1. t + Window \in Int
    BY <1>1
  <2>2. CASE ~(t <= x /\ x <= t + Window)
    BY <1>6, <1>7, <2>1, <2>2
  <2>3. CASE t <= x /\ x <= t + Window
    <3>1. t >= x - Window
      BY <1>1, <2>3
    <3>2. C(s, t, t + Window) <= Attempts /\ C(u, t, t + Window) <= C(s, t, t + Window) + 1
          /\ C(s, t, t + Window) \in Nat /\ C(u, t, t + Window) \in Nat
      BY <1>5, <1>7, <1>12, <2>1, <3>1
    <3>. QED
      BY <1>1, <3>2
  <2>. QED
    BY <2>2, <2>3
<1>. DEFINE w == x + Window
<1>15. /\ u \in Seq(Int) /\ w \in Int /\ 1 \in 0 .. Attempts
       /\ \A n \in DOMAIN u : u[n] <= w
       /\ C(u, w - Window, w) <= 1
       /\ \A t \in Int : t >= w - 2 * Window => C(u, t, w - Window - 1) <= Attempts
  BY <1>1, <1>3, <1>4, <1>11, <1>13
<1>. HIDE DEF w
<1>16. Limited(u, w, 1)
  BY <1>14, <1>15 DEF Limited, C
<1>. QED
  BY <1>16 DEF u, w
(* The password: while the first account is being made its password is     *)
(* the one on the log, and an account that is there has that password.     *)
PasswordInv ==
    /\ admin \in Nat /\ printed \in Nat
    /\ server = "making" => admin = 0 /\ printed # 0
    /\ server = "up" => admin # 0
    /\ admin # 0 => admin = printed

LimiterInv ==
    /\ now \in Int
    /\ windows \in [Addresses -> [count : Nat, resetAt : Int]]
    /\ letIn \in [Addresses -> Seq(Int)]
    /\ \A a \in Addresses :
          /\ Limited(letIn[a], windows[a].resetAt, windows[a].count)
          /\ windows[a] = NoWindow => letIn[a] = <<>>
          /\ windows[a] # NoWindow => windows[a].resetAt - Window <= now

LoginInv == PasswordInv /\ LimiterInv

LEMMA NothingLetIn ==
    ASSUME NEW reset \in Int
    PROVE  Limited(<<>>, reset, 0)
<1>1. \A lo, hi : Hits(<<>>, lo, hi) = {}
  BY DEF Hits
<1>2. \A lo, hi : Cardinality(Hits(<<>>, lo, hi)) = 0
  BY <1>1, FS_EmptySet
<1>3. Attempts \in Nat /\ 2 * Attempts \in Nat
  BY LoginAssumption
<1>4. <<>> \in Seq(Int) /\ 0 \in 0 .. Attempts /\ \A n \in DOMAIN <<>> : <<>>[n] <= reset
  BY <1>3
<1>. QED
  BY <1>2, <1>3, <1>4 DEF Limited

LEMMA NoWindowIsLimited ==
    ASSUME NEW ws \in [Addresses -> {NoWindow}], NEW let \in [Addresses -> {<<>>}]
    PROVE  /\ ws \in [Addresses -> [count : Nat, resetAt : Int]]
           /\ let \in [Addresses -> Seq(Int)]
           /\ \A a \in Addresses : /\ Limited(let[a], ws[a].resetAt, ws[a].count)
                                   /\ ws[a] = NoWindow /\ let[a] = <<>>
<1>1. NoWindow \in [count : Nat, resetAt : Int] /\ NoWindow.count = 0 /\ NoWindow.resetAt = 0
  BY DEF NoWindow
<1>2. Limited(<<>>, 0, 0)
  BY NothingLetIn
<1>3. \A a \in Addresses : ws[a] = NoWindow /\ let[a] = <<>>
  OBVIOUS
<1>4. \A a \in Addresses : Limited(let[a], ws[a].resetAt, ws[a].count)
  BY <1>1, <1>2, <1>3
<1>5. <<>> \in Seq(Int)
  OBVIOUS
<1>6. let \in [Addresses -> Seq(Int)]
  BY <1>5
<1>7. ws \in [Addresses -> [count : Nat, resetAt : Int]]
  BY <1>1
<1>. QED
  BY <1>3, <1>4, <1>6, <1>7

LEMMA LoginInitially == LoginInit => LoginInv
<1>. SUFFICES ASSUME LoginInit PROVE LoginInv
  OBVIOUS
<1>1. PasswordInv
  BY DEF LoginInit, PasswordInv
<1>2. LimiterInv
  BY NoWindowIsLimited DEF LoginInit, LimiterInv
<1>. QED
  BY <1>1, <1>2 DEF LoginInv

(* The next number of the window of an address that may try.               *)
LEMMA AttemptIsLimited ==
    ASSUME LimiterInv, NEW a \in Addresses, MayTry(a)
    PROVE  /\ Counted(a) \in [count : Nat, resetAt : Int] /\ Counted(a) # NoWindow
           /\ Limited(Append(letIn[a], now), Counted(a).resetAt, Counted(a).count)
           /\ Counted(a).resetAt - Window <= now
<1>. DEFINE w == windows[a]
<1>1. /\ w \in [count : Nat, resetAt : Int] /\ now \in Int /\ letIn[a] \in Seq(Int)
      /\ Limited(letIn[a], w.resetAt, w.count)
      /\ w = NoWindow => letIn[a] = <<>>
      /\ w # NoWindow => w.resetAt - Window <= now
  BY DEF LimiterInv
<1>2. Window \in Nat \ {0} /\ Attempts \in Nat \ {0}
  BY LoginAssumption
<1>. HIDE DEF w
<1>3. CASE Opens(a)
  <2>1. Counted(a) = [count |-> 1, resetAt |-> now + Window]
    BY <1>3 DEF Counted
  <2>2. now + Window \in Int /\ now + Window - Window = now
    BY <1>1, <1>2
  <2>3. Counted(a) # NoWindow
    BY <2>1 DEF NoWindow
  <2>4. Limited(Append(letIn[a], now), now + Window, 1)
    <3>1. CASE w = NoWindow
      <4>1. letIn[a] = <<>> /\ Limited(<<>>, now - 1, 0) /\ now - 1 < now
        BY <1>1, <3>1, NothingLetIn
      <4>. QED
        BY <1>1, <4>1, OneMoreOpensWindow
    <3>2. CASE w # NoWindow
      <4>1. w.resetAt < now
        BY <1>1, <1>3, <3>2 DEF Opens, w
      <4>. QED
        BY <1>1, <4>1, OneMoreOpensWindow
    <3>. QED
      BY <3>1, <3>2
  <2>5. Counted(a) \in [count : Nat, resetAt : Int]
    BY <2>1, <2>2
  <2>6. Counted(a).count = 1 /\ Counted(a).resetAt = now + Window
    BY <2>1
  <2>7. Counted(a).resetAt - Window <= now
    BY <1>1, <1>2, <2>6
  <2>8. Limited(Append(letIn[a], now), Counted(a).resetAt, Counted(a).count)
    BY <2>4, <2>6, Zenon
  <2>. QED
    BY <2>3, <2>5, <2>7, <2>8
<1>4. CASE ~Opens(a)
  <2>1. w # NoWindow /\ now <= w.resetAt /\ w.count < Attempts
    BY <1>1, <1>4 DEF Opens, MayTry, w
  <2>2. Counted(a) = [count |-> w.count + 1, resetAt |-> w.resetAt]
    BY <1>1, <1>4 DEF Counted, w
  <2>3. Limited(Append(letIn[a], now), w.resetAt, w.count + 1)
    BY <1>1, <2>1, OneMoreInWindow
  <2>4. Counted(a) # NoWindow
    BY <1>1, <2>2 DEF NoWindow
  <2>. QED
    BY <1>1, <2>1, <2>2, <2>3, <2>4
<1>. QED
  BY <1>3, <1>4

LEMMA LoginStep == LoginInv /\ [LoginNext]_loginVars => LoginInv'
<1>. SUFFICES ASSUME LoginInv, [LoginNext]_loginVars PROVE LoginInv'
  OBVIOUS
<1>. USE DEF LoginInv
<1>1. CASE UNCHANGED loginVars
  BY <1>1 DEF loginVars, PasswordInv, LimiterInv
<1>2. CASE Start
  BY <1>2 DEF Start, PasswordInv, LimiterInv
<1>3. CASE AdminSaved
  BY <1>3 DEF AdminSaved, PasswordInv, LimiterInv
<1>4. CASE Stop
  <2>1. PasswordInv'
    BY <1>4 DEF Stop, PasswordInv
  <2>2. windows' \in [Addresses -> {NoWindow}] /\ letIn' \in [Addresses -> {<<>>}]
        /\ now' \in Int
    BY <1>4 DEF Stop, LimiterInv
  <2>3. /\ windows' \in [Addresses -> [count : Nat, resetAt : Int]]
        /\ letIn' \in [Addresses -> Seq(Int)]
        /\ \A a \in Addresses :
              /\ Limited(letIn'[a], windows'[a].resetAt, windows'[a].count)
              /\ windows'[a] = NoWindow => letIn'[a] = <<>>
              /\ windows'[a] # NoWindow => windows'[a].resetAt - Window <= now'
    BY <2>2, NoWindowIsLimited
  <2>. QED
    BY <2>1, <2>2, <2>3 DEF LimiterInv
<1>5. CASE LoginTick
  <2>1. \A a \in Addresses :
           windows[a] # NoWindow => windows[a].resetAt - Window <= now + 1
    <3>1. ASSUME NEW a \in Addresses, windows[a] # NoWindow
          PROVE  windows[a].resetAt - Window <= now + 1
      <4>1. windows[a].resetAt \in Int /\ windows[a].resetAt - Window <= now /\ now \in Int
            /\ Window \in Nat
        BY <3>1, LoginAssumption DEF LimiterInv
      <4>. QED
        BY <4>1
    <3>. QED
      BY <3>1
  <2>. QED
    BY <1>5, <2>1 DEF LoginTick, PasswordInv, LimiterInv
<1>6. CASE SessionEnds
  BY <1>6 DEF SessionEnds, PasswordInv, LimiterInv
<1>7. ASSUME NEW a \in Addresses, NEW door \in Doors, NEW p \in Passwords \ {0},
             Attempt(a, door, p)
      PROVE  LoginInv'
  <2>1. /\ windows' = [windows EXCEPT ![a] = Counted(a)]
        /\ letIn' = [letIn EXCEPT ![a] = Append(letIn[a], now)]
        /\ now' = now /\ MayTry(a)
    BY <1>7 DEF Attempt
  <2>2. /\ windows \in [Addresses -> [count : Nat, resetAt : Int]]
        /\ letIn \in [Addresses -> Seq(Int)] /\ now \in Int
    BY DEF LimiterInv
  <2>3. /\ Counted(a) \in [count : Nat, resetAt : Int] /\ Counted(a) # NoWindow
        /\ Limited(Append(letIn[a], now), Counted(a).resetAt, Counted(a).count)
        /\ Counted(a).resetAt - Window <= now
    BY <2>1, AttemptIsLimited
  <2>4. /\ windows' \in [Addresses -> [count : Nat, resetAt : Int]]
        /\ letIn' \in [Addresses -> Seq(Int)] /\ now' \in Int
    BY <2>1, <2>2, <2>3
  <2>5. ASSUME NEW b \in Addresses
        PROVE  /\ Limited(letIn'[b], windows'[b].resetAt, windows'[b].count)
               /\ windows'[b] = NoWindow => letIn'[b] = <<>>
               /\ windows'[b] # NoWindow => windows'[b].resetAt - Window <= now'
    <3>1. CASE b = a
      BY <2>1, <2>2, <2>3, <3>1
    <3>2. CASE b # a
      <4>1. letIn'[b] = letIn[b] /\ windows'[b] = windows[b] /\ now' = now
        BY <2>1, <2>2, <3>2
      <4>. QED
        BY <4>1 DEF LimiterInv
    <3>. QED
      BY <3>1, <3>2
  <2>6. PasswordInv'
    BY <1>7 DEF Attempt, PasswordInv
  <2>. QED
    BY <2>4, <2>5, <2>6 DEF LimiterInv
<1>8. ASSUME NEW t \in tries, Checked(t)
      PROVE  LoginInv'
  BY <1>8 DEF Checked, PasswordInv, LimiterInv
<1>. QED
  BY <1>1, <1>2, <1>3, <1>4, <1>5, <1>6, <1>7, <1>8 DEF LoginNext

(* However an address spaces its attempts over the fixed windows, no span  *)
(* as long as a window has more than twice the limit of them let through.  *)
THEOREM AttemptsAreLimited == LoginSpec => []LimiterBounds
<1>1. LoginInv => LimiterBounds
  <2>. SUFFICES ASSUME LoginInv, NEW a \in Addresses, NEW t \in 0 .. LastTime
                PROVE  Cardinality({n \in DOMAIN letIn[a] : letIn[a][n] \in t .. t + Window})
                          <= 2 * Attempts
    BY DEF LimiterBounds
  <2>1. t \in Int /\ Window \in Nat
    BY LoginAssumption
  <2>2. letIn[a] \in Seq(Int) /\ Cardinality(Hits(letIn[a], t, t + Window)) <= 2 * Attempts
    BY <2>1 DEF LoginInv, LimiterInv, Limited
  <2>3. {n \in DOMAIN letIn[a] : letIn[a][n] \in t .. t + Window} = Hits(letIn[a], t, t + Window)
    BY <2>1, <2>2 DEF Hits
  <2>. QED
    BY <2>2, <2>3
<1>. QED
  BY <1>1, LoginInitially, LoginStep, PTL DEF LoginSpec

(* The password the log showed last opens the door, though the process     *)
(* stops between printing it and saving the account.                       *)
THEOREM PrintedPasswordOpens == LoginSpec => []PrintedPasswordWorks
<1>1. LoginInv => PrintedPasswordWorks
  BY DEF LoginInv, PasswordInv, PrintedPasswordWorks
<1>. QED
  BY <1>1, LoginInitially, LoginStep, PTL DEF LoginSpec

-----------------------------------------------------------------------------
(* The assistant (Assistant).  What it has been asked: the targets of the  *)
(* order are left, done or refused, and what was done shows, or somebody   *)
(* has overruled it.                                                       *)
QuestionType == [of : Recordings, step : {"hear", "think", "call", "reply"},
                 order : Orders \cup {"none"}, wanted : SUBSET Lamps, left : SUBSET Lamps,
                 done : SUBSET Lamps, refused : SUBSET Lamps, overruled : SUBSET Lamps]

Sound(q) ==
    /\ q.step \in {"hear", "think"} => q.left = {} /\ q.done = {} /\ q.refused = {}
    /\ q.step = "reply" => q.left = {}
    /\ q.wanted = q.left \cup q.done \cup q.refused /\ q.left \cap q.done = {}
    /\ \A l \in q.done : lamp[l] = q.order \/ l \in q.overruled

QuestionsInv ==
    /\ DOMAIN lamp = Lamps
    /\ questions \subseteq QuestionType /\ \A q \in questions : Sound(q)

(* The recordings: one at a time unless two were asked for at once; what   *)
(* was cancelled stops while the cancel is remembered; and after a cancel  *)
(* that found nothing under way there is nothing that could record again.  *)
MicShape == [state : {"idle", "listening", "processing", "done"}, cancelled : BOOLEAN,
             ref : {0} \cup Recordings, clock : BOOLEAN, resuming : SUBSET Recordings,
             sent : SUBSET Recordings, dropped : SUBSET Recordings,
             twice : BOOLEAN, over : BOOLEAN]

RecordingInv ==
    /\ recorder \in [Recordings -> {"none", "asked", "running", "stopping", "off"}]
    /\ mic \in MicShape
    /\ restarts \in [running : Int, known : BOOLEAN]
    /\ MicIsReleased
    /\ ~mic.twice => \A r, s \in In({"asked", "running"}) : r = s
    /\ mic.dropped \subseteq In({"stopping", "off"}) /\ mic.sent \subseteq In({"off"})
    /\ mic.dropped \cap In({"stopping"}) # {} => mic.cancelled
    /\ CancelledIsNotSent
    /\ mic.over => /\ In({"asked", "running"}) = {} /\ questions = {}
                   /\ speech = [talking |-> FALSE, ended |-> 0] /\ restarts.running <= 0
                   /\ In({"stopping"}) # {} => mic.cancelled

MicInv == RecordingInv /\ QuestionsInv
LEMMA MicInitially == MicInit => MicInv
<1>. SUFFICES ASSUME MicInit PROVE MicInv
  OBVIOUS
<1>1. In({"asked", "running"}) = {} /\ In({"running"}) = {} /\ In({"stopping"}) = {}
  BY DEF MicInit, In
<1>2. mic \in MicShape
  BY DEF MicInit, MicShape
<1>3. RecordingInv
  BY <1>1, <1>2 DEF MicInit, RecordingInv, MicIsReleased, CancelledIsNotSent
<1>4. QuestionsInv
  BY DEF MicInit, QuestionsInv
<1>. QED
  BY <1>3, <1>4 DEF MicInv

(* A recording is asked for, by hand or by the timer.                      *)
LEMMA StartKeeps ==
    ASSUME RecordingInv, NEW m \in MicShape, StartRecording(m), ~m.over,
           m = [mic EXCEPT !.over = m.over], restarts' \in [running : Int, known : BOOLEAN]
    PROVE  RecordingInv'
<1>1. PICK least \in In({"none"}) : \A s \in In({"none"}) : least <= s
  <2>1. In({"none"}) # {} /\ In({"none"}) \in SUBSET Nat
    BY MicAssumption DEF StartRecording, In, Recordings
  <2>. QED
    BY <2>1, Least
<1>2. DEFINE c == CHOOSE n \in In({"none"}) : \A s \in In({"none"}) : n <= s
<1>3. c \in Recordings /\ recorder[c] = "none"
  BY <1>1 DEF In
<1>. HIDE DEF c
<1>4. /\ recorder' = [recorder EXCEPT ![c] = "asked"]
      /\ mic' = [m EXCEPT !.cancelled = FALSE,
                          !.twice = m.twice \/ In({"asked", "running"}) # {},
                          !.dropped = m.dropped \ In({"stopping"})]
      /\ questions' = questions
  BY DEF StartRecording, c
<1>5. /\ recorder \in [Recordings -> {"none", "asked", "running", "stopping", "off"}]
      /\ mic \in MicShape
  BY DEF RecordingInv
<1>6. recorder' \in [Recordings -> {"none", "asked", "running", "stopping", "off"}]
      /\ \A r \in Recordings : recorder'[r] = IF r = c THEN "asked" ELSE recorder[r]
  BY <1>3, <1>4, <1>5
<1>7. mic' \in MicShape
  BY <1>4, <1>5 DEF MicShape
<1>8. /\ mic'.twice = (mic.twice \/ In({"asked", "running"}) # {}) /\ mic'.ref = mic.ref
      /\ mic'.clock = mic.clock /\ mic'.resuming = mic.resuming /\ mic'.sent = mic.sent
      /\ mic'.dropped = mic.dropped \ In({"stopping"}) /\ ~mic'.over
  BY <1>4, <1>5 DEF MicShape
<1>9. /\ ~mic'.twice => \A r, s \in In({"asked", "running"})' : r = s
      /\ ~mic'.twice => In({"running"})' = {}
  <2>1. ~mic'.twice => In({"asked", "running"}) = {}
    BY <1>8
  <2>2. In({"asked", "running"})' \subseteq In({"asked", "running"}) \cup {c}
        /\ In({"running"})' \subseteq In({"asked", "running"})
    BY <1>3, <1>6 DEF In
  <2>. QED
    BY <2>1, <2>2
<1>10. /\ mic'.dropped \subseteq In({"stopping", "off"})' /\ mic'.sent \subseteq In({"off"})'
       /\ mic'.dropped \cap In({"stopping"})' = {} /\ mic'.dropped \cap mic'.sent = {}
  BY <1>3, <1>6, <1>8 DEF In, RecordingInv, CancelledIsNotSent
<1>. QED
  BY <1>6, <1>7, <1>8, <1>9, <1>10 DEF RecordingInv, MicIsReleased, CancelledIsNotSent

(* stopRecording: whatever ran is stopping, unless two were asked for.     *)
LEMMA StoppedStops ==
    ASSUME RecordingInv
    PROVE  /\ Stopped \in [Recordings -> {"none", "asked", "running", "stopping", "off"}]
           /\ \A r \in Recordings :
                 \/ Stopped[r] = recorder[r] /\ ~(r = mic.ref /\ recorder[r] = "running")
                 \/ Stopped[r] = "stopping" /\ recorder[r] = "running" /\ r = mic.ref
           /\ ~mic.twice => \A r \in Recordings : Stopped[r] # "running"
<1>1. /\ recorder \in [Recordings -> {"none", "asked", "running", "stopping", "off"}]
      /\ mic.ref \in {0} \cup Recordings /\ 0 \notin Recordings
  BY DEF RecordingInv, MicShape, Recordings
<1>2. ~mic.twice => \A r \in Recordings : recorder[r] = "running" => r = mic.ref
  BY DEF RecordingInv, MicIsReleased, In
<1>. QED
  BY <1>1, <1>2 DEF Stopped

LEMMA SilenceKeeps == RecordingInv /\ Silence => RecordingInv'
<1>. SUFFICES ASSUME RecordingInv, Silence PROVE RecordingInv'
  OBVIOUS
<1>1. /\ recorder' = Stopped /\ mic' = [mic EXCEPT !.clock = FALSE]
      /\ UNCHANGED <<speech, restarts, questions>>
  BY DEF Silence
<1>2. mic' \in MicShape /\ mic \in MicShape
  BY <1>1 DEF RecordingInv, MicShape
<1>3. /\ mic'.twice = mic.twice /\ mic'.sent = mic.sent /\ mic'.dropped = mic.dropped
      /\ mic'.over = mic.over /\ mic'.cancelled = mic.cancelled
  BY <1>1, <1>2 DEF MicShape
<1>4. /\ In({"running"})' \subseteq In({"running"})
      /\ In({"asked", "running"})' \subseteq In({"asked", "running"})
      /\ In({"stopping", "off"}) \subseteq In({"stopping", "off"})'
      /\ In({"off"}) \subseteq In({"off"})'
      /\ In({"stopping"})' \subseteq In({"stopping"}) \cup In({"running"})
      /\ ~mic.twice => In({"running"})' = {}
  BY <1>1, StoppedStops DEF In
<1>5. mic.dropped \cap In({"running"}) = {}
  BY DEF RecordingInv, In
<1>6. In({"running"}) \subseteq In({"asked", "running"})
  BY DEF In
<1>7. mic'.dropped \cap In({"stopping"})' # {} => mic'.cancelled
  BY <1>3, <1>4, <1>5 DEF RecordingInv
<1>8. mic'.over => /\ In({"asked", "running"})' = {}
                   /\ In({"stopping"})' # {} => mic'.cancelled
  BY <1>3, <1>4, <1>6 DEF RecordingInv
<1>9. recorder' \in [Recordings -> {"none", "asked", "running", "stopping", "off"}]
  BY <1>1, StoppedStops
<1>. QED
  BY <1>1, <1>2, <1>3, <1>4, <1>7, <1>8, <1>9 DEF RecordingInv, MicIsReleased, CancelledIsNotSent

LEMMA CancelKeeps == RecordingInv /\ Cancel => RecordingInv'
<1>. SUFFICES ASSUME RecordingInv, Cancel PROVE RecordingInv'
  OBVIOUS
<1>1. /\ recorder' = Stopped
      /\ mic' = [mic EXCEPT !.state = "idle", !.cancelled = TRUE, !.clock = FALSE,
                            !.dropped = mic.dropped \cup ({mic.ref} \cap In({"running"})),
                            !.over = NothingUnderWay]
      /\ speech' = Hushed /\ questions' = questions
      /\ restarts' = IF restarts.known
                     THEN [running |-> restarts.running - 1, known |-> FALSE] ELSE restarts
  BY DEF Cancel
<1>2. mic \in MicShape /\ restarts \in [running : Int, known : BOOLEAN]
  BY DEF RecordingInv
<1>3. NothingUnderWay \in BOOLEAN
  BY DEF NothingUnderWay
<1>4. mic' \in MicShape
  BY <1>1, <1>2, <1>3 DEF MicShape, In
<1>5. /\ mic'.twice = mic.twice /\ mic'.sent = mic.sent /\ mic'.cancelled
      /\ mic'.dropped = mic.dropped \cup ({mic.ref} \cap In({"running"}))
      /\ mic'.over = NothingUnderWay
  BY <1>1, <1>2 DEF MicShape
<1>6. /\ In({"asked", "running"})' \subseteq In({"asked", "running"})
      /\ In({"asked"})' = In({"asked"})
      /\ In({"stopping", "off"}) \subseteq In({"stopping", "off"})'
      /\ In({"off"}) \subseteq In({"off"})'
      /\ ({mic.ref} \cap In({"running"})) \subseteq In({"stopping", "off"})'
      /\ ~mic.twice => In({"running"})' = {}
  BY <1>1, StoppedStops DEF In
<1>7. restarts' \in [running : Int, known : BOOLEAN]
  BY <1>1, <1>2
<1>9. mic'.dropped \cap mic'.sent = {}
  <2>1. In({"running"}) \cap In({"off"}) = {}
    BY DEF In
  <2>. QED
    BY <1>5, <2>1 DEF RecordingInv, CancelledIsNotSent
<1>10. recorder' \in [Recordings -> {"none", "asked", "running", "stopping", "off"}]
  BY <1>1, StoppedStops
<1>11. mic'.over => /\ In({"asked", "running"})' = {} /\ questions' = {}
                    /\ speech' = [talking |-> FALSE, ended |-> 0] /\ restarts'.running <= 0
  <2>1. CASE ~NothingUnderWay
    BY <1>5, <2>1
  <2>2. CASE NothingUnderWay
    <3>1. /\ ~mic.twice /\ In({"asked"}) = {} /\ questions = {}
          /\ speech = [talking |-> FALSE, ended |-> 0]
          /\ restarts.running <= IF restarts.known THEN 1 ELSE 0
      BY <2>2 DEF NothingUnderWay
    <3>2. speech' = speech
      BY <1>1, <3>1 DEF Hushed
    <3>3. restarts'.running <= 0
      BY <1>1, <1>2, <3>1
    <3>4. In({"asked", "running"})' = {}
      BY <1>6, <3>1 DEF In
    <3>. QED
      BY <1>1, <3>1, <3>2, <3>3, <3>4
  <2>. QED
    BY <2>1, <2>2
<1>. QED
  BY <1>4, <1>5, <1>6, <1>7, <1>9, <1>10, <1>11
  DEF RecordingInv, MicIsReleased, CancelledIsNotSent
(* The browser answers, and the recorder stops.                            *)
LEMMA RecorderKeeps ==
    ASSUME RecordingInv, NEW r \in Recordings,
           Granted(r) \/ Denied(r) \/ Resumed(r) \/ StopEvent(r)
    PROVE  RecordingInv'
<1>1. /\ mic \in MicShape
      /\ recorder \in [Recordings -> {"none", "asked", "running", "stopping", "off"}]
  BY DEF RecordingInv
<1>2. CASE Granted(r)
  <2>1. /\ recorder[r] = "asked" /\ recorder' = [recorder EXCEPT ![r] = "running"]
        /\ mic' = [mic EXCEPT !.state = "listening", !.ref = r,
                              !.resuming = mic.resuming \cup {r}]
        /\ UNCHANGED <<speech, restarts, questions>>
    BY <1>2 DEF Granted
  <2>2. mic' \in MicShape
    BY <1>1, <2>1 DEF MicShape
  <2>3. /\ mic'.twice = mic.twice /\ mic'.sent = mic.sent /\ mic'.dropped = mic.dropped
        /\ mic'.over = mic.over /\ mic'.cancelled = mic.cancelled /\ mic'.ref = r
        /\ r \in mic'.resuming
    BY <1>1, <2>1 DEF MicShape
  <2>4. /\ In({"running"})' = In({"running"}) \cup {r}
        /\ In({"asked", "running"})' = In({"asked", "running"}) /\ r \in In({"asked", "running"})
        /\ In({"stopping", "off"})' = In({"stopping", "off"}) /\ In({"off"})' = In({"off"})
        /\ In({"stopping"})' = In({"stopping"}) /\ In({"running"}) \subseteq In({"asked", "running"})
    BY <1>1, <2>1 DEF In
  <2>5. recorder' \in [Recordings -> {"none", "asked", "running", "stopping", "off"}]
    BY <1>1, <2>1
  <2>6. ~mic.twice => \A s \in In({"running"})' : s = r
    BY <2>4 DEF RecordingInv
  <2>. QED
    BY <2>1, <2>2, <2>3, <2>4, <2>5, <2>6 DEF RecordingInv, MicIsReleased, CancelledIsNotSent
<1>3. CASE Denied(r)
  <2>1. /\ recorder[r] = "asked" /\ recorder' = [recorder EXCEPT ![r] = "off"]
        /\ mic' = [mic EXCEPT !.state = "idle"] /\ UNCHANGED <<speech, restarts, questions>>
    BY <1>3 DEF Denied
  <2>2. mic' \in MicShape
    BY <1>1, <2>1 DEF MicShape
  <2>3. /\ mic'.twice = mic.twice /\ mic'.sent = mic.sent /\ mic'.dropped = mic.dropped
        /\ mic'.over = mic.over /\ mic'.cancelled = mic.cancelled /\ mic'.ref = mic.ref
        /\ mic'.resuming = mic.resuming /\ mic'.clock = mic.clock
    BY <1>1, <2>1 DEF MicShape
  <2>4. /\ In({"running"})' = In({"running"})
        /\ In({"asked", "running"})' \subseteq In({"asked", "running"})
        /\ r \in In({"asked", "running"})
        /\ In({"stopping", "off"}) \subseteq In({"stopping", "off"})'
        /\ In({"off"}) \subseteq In({"off"})' /\ In({"stopping"})' = In({"stopping"})
    BY <1>1, <2>1 DEF In
  <2>5. recorder' \in [Recordings -> {"none", "asked", "running", "stopping", "off"}]
    BY <1>1, <2>1
  <2>. QED
    BY <2>1, <2>2, <2>3, <2>4, <2>5 DEF RecordingInv, MicIsReleased, CancelledIsNotSent
<1>4. CASE Resumed(r)
  <2>1. /\ mic' = [mic EXCEPT !.resuming = mic.resuming \ {r}, !.clock = TRUE]
        /\ UNCHANGED <<recorder, speech, restarts, questions>>
    BY <1>4 DEF Resumed
  <2>2. mic' \in MicShape
    BY <1>1, <2>1 DEF MicShape
  <2>3. /\ mic'.twice = mic.twice /\ mic'.sent = mic.sent /\ mic'.dropped = mic.dropped
        /\ mic'.over = mic.over /\ mic'.cancelled = mic.cancelled /\ mic'.ref = mic.ref
        /\ mic'.clock
    BY <1>1, <2>1 DEF MicShape
  <2>. QED
    BY <2>1, <2>2, <2>3 DEF RecordingInv, MicIsReleased, CancelledIsNotSent, In
<1>5. CASE StopEvent(r)
  <2>1. /\ recorder[r] = "stopping" /\ recorder' = [recorder EXCEPT ![r] = "off"]
        /\ UNCHANGED <<speech, restarts>>
    BY <1>5 DEF StopEvent
  <2>2. /\ In({"asked", "running"})' = In({"asked", "running"})
        /\ In({"running"})' = In({"running"}) /\ In({"stopping", "off"})' = In({"stopping", "off"})
        /\ In({"off"})' = In({"off"}) \cup {r} /\ In({"stopping"})' = In({"stopping"}) \ {r}
        /\ r \in In({"stopping"})
    BY <1>1, <2>1 DEF In
  <2>3. recorder' \in [Recordings -> {"none", "asked", "running", "stopping", "off"}]
    BY <1>1, <2>1
  <2>4. CASE mic.cancelled /\ UNCHANGED <<mic, questions>>
    BY <2>1, <2>2, <2>3, <2>4 DEF RecordingInv, MicIsReleased, CancelledIsNotSent
  <2>5. CASE ~mic.cancelled /\ mic' = [mic EXCEPT !.state = "idle"] /\ UNCHANGED questions
    <3>1. mic' \in MicShape
      BY <1>1, <2>5 DEF MicShape
    <3>2. /\ mic'.twice = mic.twice /\ mic'.sent = mic.sent /\ mic'.dropped = mic.dropped
          /\ mic'.over = mic.over /\ mic'.cancelled = mic.cancelled /\ mic'.ref = mic.ref
          /\ mic'.resuming = mic.resuming /\ mic'.clock = mic.clock
      BY <1>1, <2>5 DEF MicShape
    <3>. QED
      BY <2>1, <2>2, <2>3, <2>5, <3>1, <3>2
      DEF RecordingInv, MicIsReleased, CancelledIsNotSent
  <2>6. CASE /\ ~mic.cancelled
             /\ mic' = [mic EXCEPT !.state = "processing", !.sent = mic.sent \cup {r}]
    <3>1. mic' \in MicShape
      BY <1>1, <2>6 DEF MicShape
    <3>2. /\ mic'.twice = mic.twice /\ mic'.sent = mic.sent \cup {r}
          /\ mic'.dropped = mic.dropped
          /\ mic'.over = mic.over /\ mic'.cancelled = mic.cancelled /\ mic'.ref = mic.ref
          /\ mic'.resuming = mic.resuming /\ mic'.clock = mic.clock
      BY <1>1, <2>6 DEF MicShape
    <3>3. ~mic.over /\ r \notin mic.dropped
      BY <2>2, <2>6 DEF RecordingInv
    <3>. QED
      BY <2>1, <2>2, <2>3, <2>6, <3>1, <3>2, <3>3
      DEF RecordingInv, MicIsReleased, CancelledIsNotSent
  <2>. QED
    BY <1>5, <2>4, <2>5, <2>6 DEF StopEvent
<1>. QED
  BY <1>2, <1>3, <1>4, <1>5

(* An answer to a question, of the server or the browser, starts nothing   *)
(* where nothing was under way.                                            *)
LEMMA AnswerKeeps ==
    ASSUME RecordingInv, recorder' = recorder, restarts' \in [running : Int, known : BOOLEAN],
           ~mic.over, \E st \in {"idle", "listening", "processing", "done"} :
                         mic' = [mic EXCEPT !.state = st]
    PROVE  RecordingInv'
<1>1. mic \in MicShape
  BY DEF RecordingInv
<1>2. mic' \in MicShape
  BY <1>1 DEF MicShape
<1>3. /\ mic'.twice = mic.twice /\ mic'.sent = mic.sent /\ mic'.dropped = mic.dropped
      /\ mic'.over = mic.over /\ mic'.cancelled = mic.cancelled /\ mic'.ref = mic.ref
      /\ mic'.resuming = mic.resuming /\ mic'.clock = mic.clock
  BY <1>1 DEF MicShape
<1>. QED
  BY <1>2, <1>3 DEF RecordingInv, MicIsReleased, CancelledIsNotSent, In

LEMMA MicStepRecords == MicInv /\ [MicNext]_micVars => RecordingInv'
<1>. SUFFICES ASSUME MicInv, [MicNext]_micVars PROVE RecordingInv'
  OBVIOUS
<1>1. RecordingInv /\ mic \in MicShape /\ restarts \in [running : Int, known : BOOLEAN]
  BY DEF MicInv, RecordingInv
<1>2. mic.over => questions = {} /\ speech = [talking |-> FALSE, ended |-> 0]
                  /\ restarts.running <= 0
  BY <1>1 DEF RecordingInv
<1>3. mic = [mic EXCEPT !.state = mic.state]
      /\ mic.state \in {"idle", "listening", "processing", "done"}
  BY <1>1 DEF MicShape
<1>4. CASE UNCHANGED micVars
  BY <1>1, <1>4 DEF micVars, RecordingInv, MicIsReleased, CancelledIsNotSent, In
<1>5. CASE PressMic
  <2>1. [mic EXCEPT !.over = FALSE] \in MicShape
    BY <1>1 DEF MicShape
  <2>2. [mic EXCEPT !.over = FALSE].over = FALSE
    BY <1>1 DEF MicShape
  <2>3. StartRecording([mic EXCEPT !.over = FALSE]) /\ restarts' = restarts
    BY <1>5 DEF PressMic
  <2>. DEFINE m == [mic EXCEPT !.over = FALSE]
  <2>4. m = [mic EXCEPT !.over = m.over] /\ ~m.over /\ m \in MicShape
    BY <2>1, <2>2
  <2>5. StartRecording(m)
    BY <2>3
  <2>. HIDE DEF m
  <2>. QED
    BY <1>1, <2>3, <2>4, <2>5, StartKeeps
<1>6. CASE RestartTimerFires
  <2>1. StartRecording(mic) /\ restarts.running > 0
        /\ restarts' = [running |-> restarts.running - 1, known |-> FALSE]
    BY <1>6 DEF RestartTimerFires
  <2>2. ~mic.over /\ restarts' \in [running : Int, known : BOOLEAN]
    BY <1>1, <1>2, <2>1
  <2>3. mic = [mic EXCEPT !.over = mic.over]
    BY <1>1 DEF MicShape
  <2>. QED
    BY <1>1, <2>1, <2>2, <2>3, StartKeeps
<1>7. CASE Silence
  BY <1>1, <1>7, SilenceKeeps
<1>8. CASE Cancel
  BY <1>1, <1>8, CancelKeeps
<1>9. CASE Spoken
  <2>1. UNCHANGED <<recorder, mic>> /\ (speech.talking \/ speech.ended > 0)
        /\ restarts' = [running |-> restarts.running + 1, known |-> TRUE]
    BY <1>9 DEF Spoken, NextRestart
  <2>2. ~mic.over /\ restarts' \in [running : Int, known : BOOLEAN]
    BY <1>1, <1>2, <2>1
  <2>. QED
    BY <1>1, <1>3, <2>1, <2>2, AnswerKeeps
<1>10. ASSUME NEW r \in Recordings, Granted(r) \/ Denied(r) \/ Resumed(r) \/ StopEvent(r)
       PROVE  RecordingInv'
  BY <1>1, <1>10, RecorderKeeps
<1>11. ASSUME NEW q \in questions, Understood(q) \/ Thought(q) \/ CallTarget(q) \/ CallsDone(q)
       PROVE  RecordingInv'
  <2>1. UNCHANGED <<recorder, mic, speech, restarts>>
    BY <1>11 DEF Understood, Thought, CallTarget, CallsDone, AtServer
  <2>. QED
    BY <1>1, <1>2, <1>3, <2>1, AnswerKeeps
<1>12. ASSUME NEW q \in questions, AiReply(q) \/ ReplyLost(q)
       PROVE  RecordingInv'
  <2>1. /\ recorder' = recorder /\ mic' = [mic EXCEPT !.state = "done"]
        /\ \/ restarts' = restarts
           \/ restarts' = [running |-> restarts.running + 1, known |-> TRUE]
    BY <1>12 DEF AiReply, ReplyLost, NextRestart
  <2>2. [running |-> restarts.running + 1, known |-> TRUE] \in [running : Int, known : BOOLEAN]
    BY <1>1
  <2>3. restarts' \in [running : Int, known : BOOLEAN]
    BY <1>1, <2>1, <2>2, Zenon
  <2>. QED
    BY <1>1, <1>2, <2>1, <2>3, AnswerKeeps
<1>. QED
  BY <1>4, <1>5, <1>6, <1>7, <1>8, <1>9, <1>10, <1>11, <1>12 DEF MicNext
(* One question moves on, or goes, or one comes; no lamp changes.          *)
LEMMA QuestionMoves ==
    ASSUME QuestionsInv, lamp' = lamp, NEW old, NEW new, new \in QuestionType, Sound(new),
           questions' = (questions \ {old}) \cup {new}
    PROVE  QuestionsInv'
BY DEF QuestionsInv, Sound

LEMMA FewerQuestions ==
    ASSUME QuestionsInv, lamp' = lamp, questions' \subseteq questions
    PROVE  QuestionsInv'
BY DEF QuestionsInv, Sound

LEMMA CallKeeps ==
    ASSUME QuestionsInv, NEW q \in questions, CallTarget(q)
    PROVE  QuestionsInv'
<1>1. PICK l \in q.left :
         \/ /\ SetLamp(l, q.order)
            /\ Told(q, [q EXCEPT !.left = q.left \ {l}, !.done = q.done \cup {l}])
         \/ /\ Told(q, [q EXCEPT !.left = q.left \ {l}, !.refused = q.refused \cup {l}])
            /\ UNCHANGED lamp
  BY DEF CallTarget
<1>2. q \in QuestionType /\ Sound(q) /\ q.step = "call"
  BY DEF QuestionsInv, CallTarget
<1>3. l \in Lamps /\ l \notin q.done
  BY <1>2 DEF QuestionType, Sound
<1>4. CASE /\ SetLamp(l, q.order)
           /\ Told(q, [q EXCEPT !.left = q.left \ {l}, !.done = q.done \cup {l}])
  <2>. DEFINE n == [q EXCEPT !.left = q.left \ {l}, !.done = q.done \cup {l}]
              other(p) == [p EXCEPT !.overruled = p.overruled \cup (n.done \ q.done)]
  <2>1. /\ n \in QuestionType /\ n.step = "call" /\ n.order = q.order
        /\ n.wanted = n.left \cup n.done \cup n.refused /\ n.left \cap n.done = {}
        /\ n.done = q.done \cup {l} /\ n.done \ q.done = {l} /\ n.overruled = q.overruled
    BY <1>2, <1>3 DEF QuestionType, Sound
  <2>2. lamp' = [lamp EXCEPT ![l] = q.order] /\ DOMAIN lamp = Lamps
    BY <1>4 DEF SetLamp, QuestionsInv
  <2>3. DOMAIN lamp' = Lamps /\ \A k \in Lamps : lamp'[k] = IF k = l THEN q.order ELSE lamp[k]
    BY <1>3, <2>2
  <2>4. Sound(n)'
    <3>1. ASSUME NEW k \in q.done \cup {l}
          PROVE  lamp'[k] = q.order \/ k \in q.overruled
      <4>1. k \in Lamps
        BY <1>2, <1>3 DEF QuestionType
      <4>. QED
        BY <1>2, <2>3, <4>1 DEF Sound
    <3>. HIDE DEF n
    <3>. QED
      BY <2>1, <3>1 DEF Sound
  <2>5. questions' = {IF p.order # n.order /\ p # q THEN other(p) ELSE p : p \in questions \ {q}}
                     \cup {n}
    BY <1>4 DEF Told
  <2>. HIDE DEF n
  <2>6. ASSUME NEW p \in questions
        PROVE  /\ p.order # n.order => other(p) \in QuestionType /\ Sound(other(p))'
               /\ p.order = n.order => p \in QuestionType /\ Sound(p)'
    <3>1. p \in QuestionType /\ Sound(p)
      BY DEF QuestionsInv
    <3>2. CASE p.order # n.order
      <4>1. /\ other(p) \in QuestionType /\ other(p).overruled = p.overruled \cup {l}
            /\ other(p).step = p.step /\ other(p).order = p.order
            /\ other(p).left = p.left /\ other(p).done = p.done
            /\ other(p).wanted = p.wanted /\ other(p).refused = p.refused
        BY <1>3, <2>1, <3>1 DEF QuestionType
      <4>2. \A k \in p.done : lamp'[k] = p.order \/ k \in p.overruled \cup {l}
        BY <2>3, <3>1 DEF QuestionType, Sound
      <4>. HIDE DEF other
      <4>. QED
        BY <3>1, <3>2, <4>1, <4>2 DEF Sound
    <3>3. CASE p.order = n.order
      <4>1. \A k \in p.done : lamp'[k] = p.order \/ k \in p.overruled
        BY <2>1, <2>3, <3>1, <3>3 DEF QuestionType, Sound
      <4>. QED
        BY <3>1, <3>3, <4>1 DEF Sound
    <3>. QED
      BY <3>2, <3>3
  <2>. HIDE DEF other
  <2>7. \A p \in questions' : p \in QuestionType /\ Sound(p)'
    BY <2>1, <2>4, <2>5, <2>6
  <2>. QED
    BY <2>3, <2>7 DEF QuestionsInv
<1>5. CASE /\ Told(q, [q EXCEPT !.left = q.left \ {l}, !.refused = q.refused \cup {l}])
           /\ UNCHANGED lamp
  <2>. DEFINE n == [q EXCEPT !.left = q.left \ {l}, !.refused = q.refused \cup {l}]
              other(p) == [p EXCEPT !.overruled = p.overruled \cup (n.done \ q.done)]
  <2>1. /\ n \in QuestionType /\ n.step = "call" /\ n.done = q.done /\ n.order = q.order
        /\ n.wanted = n.left \cup n.done \cup n.refused /\ n.left \cap n.done = {}
        /\ n.overruled = q.overruled
    BY <1>2, <1>3 DEF QuestionType, Sound
  <2>2. lamp' = lamp /\ questions' =
           {IF p.order # n.order /\ p # q THEN other(p) ELSE p : p \in questions \ {q}} \cup {n}
    BY <1>5 DEF Told
  <2>. HIDE DEF n
  <2>3. \A p \in questions : p \in QuestionType /\ Sound(p)'
    BY <2>2 DEF QuestionsInv, Sound
  <2>4. \A p \in questions : other(p) = p
    BY <2>1, <2>3 DEF QuestionType
  <2>. HIDE DEF other
  <2>5. Sound(n)'
    BY <1>2, <2>1, <2>2 DEF Sound
  <2>6. \A p \in questions' : p \in QuestionType /\ Sound(p)'
    BY <2>1, <2>2, <2>3, <2>4, <2>5
  <2>. QED
    BY <2>2, <2>6 DEF QuestionsInv
<1>. QED
  BY <1>1, <1>4, <1>5

LEMMA MicStepAsks == MicInv /\ [MicNext]_micVars => QuestionsInv'
<1>. SUFFICES ASSUME MicInv, [MicNext]_micVars PROVE QuestionsInv'
  OBVIOUS
<1>1. QuestionsInv
  BY DEF MicInv
<1>2. CASE UNCHANGED <<questions, lamp>>
  BY <1>1, <1>2, FewerQuestions
<1>3. CASE UNCHANGED micVars \/ PressMic \/ RestartTimerFires \/ Silence \/ Cancel \/ Spoken
  BY <1>2, <1>3
  DEF micVars, PressMic, RestartTimerFires, StartRecording, Silence, Cancel, Spoken
<1>4. ASSUME NEW r \in Recordings, Granted(r) \/ Denied(r) \/ Resumed(r)
      PROVE  QuestionsInv'
  BY <1>2, <1>4 DEF Granted, Denied, Resumed
<1>5. ASSUME NEW r \in Recordings, StopEvent(r)
      PROVE  QuestionsInv'
  <2>1. lamp' = lamp /\ (questions' = questions \/ questions' = questions \cup {Question(r)})
    BY <1>5 DEF StopEvent
  <2>2. Question(r) \in QuestionType /\ Sound(Question(r))
    BY DEF Question, QuestionType, Sound
  <2>. QED
    BY <1>1, <2>1, <2>2 DEF QuestionsInv, Sound
<1>6. ASSUME NEW q \in questions, Understood(q) \/ Thought(q) \/ CallsDone(q)
      PROVE  QuestionsInv'
  <2>1. q \in QuestionType /\ Sound(q)
    BY <1>1 DEF QuestionsInv
  <2>2. CASE Understood(q)
    <3>1. PICK next \in {"reply", "think"} : Goes(q, [q EXCEPT !.step = next])
      BY <2>2 DEF Understood
    <3>. DEFINE n == [q EXCEPT !.step = next]
    <3>2. n \in QuestionType /\ Sound(n)
      BY <2>1, <2>2 DEF QuestionType, Sound, Understood
    <3>3. lamp' = lamp /\ questions' = (questions \ {q}) \cup {n}
      BY <2>2, <3>1 DEF Understood, Goes
    <3>. HIDE DEF n
    <3>. QED
      BY <1>1, <3>2, <3>3, QuestionMoves
  <2>3. CASE Thought(q)
    <3>1. PICK n : /\ lamp' = lamp /\ questions' = (questions \ {q}) \cup {n}
                   /\ \/ n = [q EXCEPT !.step = "reply"]
                      \/ \E o \in Orders, targets \in SUBSET Lamps :
                            n = [q EXCEPT !.step = "call", !.order = o,
                                          !.wanted = targets, !.left = targets]
      BY <2>3 DEF Thought, Goes
    <3>2. q.step = "think"
      BY <2>3 DEF Thought
    <3>3. CASE n = [q EXCEPT !.step = "reply"]
      <4>1. n \in QuestionType /\ Sound(n)
        BY <2>1, <3>2, <3>3 DEF QuestionType, Sound
      <4>. QED
        BY <1>1, <3>1, <4>1, QuestionMoves
    <3>4. ASSUME NEW o \in Orders, NEW targets \in SUBSET Lamps,
                 n = [q EXCEPT !.step = "call", !.order = o, !.wanted = targets,
                               !.left = targets]
          PROVE  QuestionsInv'
      <4>1. n \in QuestionType /\ Sound(n)
        BY <2>1, <3>2, <3>4 DEF QuestionType, Sound
      <4>. QED
        BY <1>1, <3>1, <4>1, QuestionMoves
    <3>. QED
      BY <3>1, <3>3, <3>4
  <2>4. CASE CallsDone(q)
    <3>. DEFINE n == [q EXCEPT !.step = "reply"]
    <3>1. lamp' = lamp /\ questions' = (questions \ {q}) \cup {n}
      BY <2>4 DEF CallsDone, Goes
    <3>2. n \in QuestionType /\ Sound(n)
      BY <2>1, <2>4 DEF QuestionType, Sound, CallsDone
    <3>. HIDE DEF n
    <3>. QED
      BY <1>1, <3>1, <3>2, QuestionMoves
  <2>. QED
    BY <1>6, <2>2, <2>3, <2>4
<1>7. ASSUME NEW q \in questions, CallTarget(q)
      PROVE  QuestionsInv'
  BY <1>1, <1>7, CallKeeps
<1>8. ASSUME NEW q \in questions, AiReply(q) \/ ReplyLost(q)
      PROVE  QuestionsInv'
  BY <1>1, <1>8, FewerQuestions DEF AiReply, ReplyLost
<1>. QED
  BY <1>3, <1>4, <1>5, <1>6, <1>7, <1>8 DEF MicNext

LEMMA MicStep == MicInv /\ [MicNext]_micVars => MicInv'
BY MicStepRecords, MicStepAsks DEF MicInv

(* The microphone is let go of, what was cancelled is not sent, and a      *)
(* cancel that leaves nothing under way ends the conversation: no          *)
(* recording starts by itself.                                             *)
THEOREM CancelsHold == MicSpec => [](MicIsReleased /\ CancelledIsNotSent /\ CancelEndsIt)
<1>1. MicInv => MicIsReleased /\ CancelledIsNotSent /\ CancelEndsIt
  BY DEF MicInv, RecordingInv, CancelEndsIt
<1>. QED
  BY <1>1, MicInitially, MicStep, PTL DEF MicSpec

(* The reply comes when every lamp of the order has been tried.            *)
THEOREM OrdersAreTried == MicSpec => []AllWereTried
<1>1. MicInv => AllWereTried
  BY DEF MicInv, QuestionsInv, Sound, AllWereTried
<1>. QED
  BY <1>1, MicInitially, MicStep, PTL DEF MicSpec
-----------------------------------------------------------------------------
(* The overlay that rings (CameraViews): while no interval was forgotten,  *)
(* the one that runs is the one remembered.                                *)
BellInv ==
    /\ timer \in 0 .. MaxRings /\ rings \subseteq 1 .. MaxRings /\ doubled \in BOOLEAN
    /\ shown = NoBell => picture = {} /\ timer = 0
    /\ ~doubled => rings \subseteq {timer}

LEMMA BellInitially == BellInit => BellInv
<1>1. 0 \in 0 .. MaxRings
  BY BellAssumption
<1>. QED
  BY <1>1 DEF BellInit, BellInv

LEMMA DismissKeeps == BellInv /\ Dismissed /\ doubled' = doubled => BellInv'
BY BellAssumption DEF BellInv, Dismissed

(* One bell while none rings starts one interval.                          *)
LEMMA OneBellStartsOne ==
    ASSUME rings = {}, Rang # {}, ~(Cardinality(Rang) > 1)
    PROVE  NewRings(Cardinality(Rang)) \subseteq {1}
<1>1. IsFiniteSet(Rang)
  BY BellAssumption, FS_Subset DEF Rang
<1>2. Cardinality(Rang) \in Nat /\ Cardinality(Rang) # 0
  BY <1>1, FS_CardinalityType, FS_EmptySet
<1>3. Cardinality(Rang) = 1
  BY <1>2
<1>4. ASSUME NEW r \in NewRings(1)
      PROVE  r = 1
  <2>1. r \in Int /\ 1 <= r /\ Cardinality(1 .. r) <= 1
    <3>1. (1 .. r) \ rings = 1 .. r
      OBVIOUS
    <3>. QED
      BY <1>4, <3>1, BellAssumption DEF NewRings
  <2>2. Cardinality(1 .. r) = r
    BY <2>1, FS_Interval
  <2>. QED
    BY <2>1, <2>2
<1>. QED
  BY <1>3, <1>4

LEMMA RenderKeeps == BellInv /\ OverlayRenders => BellInv'
<1>. SUFFICES ASSUME BellInv, OverlayRenders PROVE BellInv'
  OBVIOUS
<1>1. CASE Rang = {}
  BY <1>1 DEF OverlayRenders, BellInv
<1>2. CASE Rang # {}
  <2>. DEFINE started == NewRings(Cardinality(Rang))
  <2>1. /\ shown' \in Rang /\ timer' \in started /\ rings' = rings \cup started
        /\ doubled' = (doubled \/ timer # 0 \/ Cardinality(Rang) > 1)
    BY <1>2 DEF OverlayRenders
  <2>2. started \subseteq 1 .. MaxRings
    BY DEF NewRings
  <2>3. shown' # NoBell
    BY <2>1, BellAssumption DEF Rang
  <2>4. timer' \in 0 .. MaxRings
    BY <2>1, <2>2, BellAssumption
  <2>5. ASSUME ~doubled'
        PROVE  rings' \subseteq {timer'}
    <3>1. ~doubled /\ timer = 0 /\ ~(Cardinality(Rang) > 1)
      BY <2>1, <2>5
    <3>2. rings = {}
      BY <3>1, BellAssumption DEF BellInv
    <3>3. started \subseteq {1}
      BY <1>2, <3>1, <3>2, OneBellStartsOne
    <3>. QED
      BY <2>1, <3>2, <3>3
  <2>6. rings' \subseteq 1 .. MaxRings /\ doubled' \in BOOLEAN
    BY <2>1, <2>2 DEF BellInv
  <2>. QED
    BY <2>3, <2>4, <2>5, <2>6 DEF BellInv
<1>. QED
  BY <1>1, <1>2

LEMMA BellStep == BellInv /\ [BellNext]_bellVars => BellInv'
<1>. SUFFICES ASSUME BellInv, [BellNext]_bellVars PROVE BellInv'
  OBVIOUS
<1>1. CASE UNCHANGED bellVars
  BY <1>1 DEF bellVars, BellInv
<1>2. CASE OverlayRenders
  BY <1>2, RenderKeeps
<1>3. CASE DismissBell \/ OpenDoor
  BY <1>3, DismissKeeps DEF DismissBell, OpenDoor
<1>4. ASSUME NEW b \in Bells, BellMoves(b)
      PROVE  BellInv'
  BY <1>4 DEF BellMoves, BellInv
<1>. QED
  BY <1>1, <1>2, <1>3, <1>4 DEF BellNext

(* A closed overlay neither rings nor shows a picture, unless a bell had   *)
(* rung again before it was dismissed.                                     *)
THEOREM ClosedIsQuiet == BellSpec => []QuietOnceClosed
<1>1. BellInv => QuietOnceClosed
  BY BellAssumption DEF BellInv, QuietOnceClosed
<1>. QED
  BY <1>1, BellInitially, BellStep, PTL DEF BellSpec

-----------------------------------------------------------------------------
(* The picture of a camera (CameraViews).  What the starts and stops of    *)
(* the two players change, as a record; a connection that lives is the one *)
(* the tile knows.                                                         *)
TileShape == [peer : {0} \cup Players,
              peers : [Players -> {"unused", "asking", "open", "closed"}],
              answering : SUBSET Players, hls : {0} \cup Players, hlsLive : SUBSET Players,
              good : [whep : BOOLEAN, hls : BOOLEAN], bad : [whep : BOOLEAN, hls : BOOLEAN]]

KeptTile(t) ==
    /\ t \in TileShape
    /\ \A n \in t.answering : t.peers[n] # "unused"
    /\ t.peer # 0 => t.peers[t.peer] # "unused"
    /\ \A n \in Players : t.peers[n] \in {"asking", "open"} => n = t.peer

(* Until a stale retry fires, a player runs only in the mode of the tile,  *)
(* and a retry that is due starts what was stopped.                        *)
TileInv ==
    /\ KeptTile(Tile) /\ mounted \in BOOLEAN /\ player \in {"hls", "whep"}
    /\ waiting \subseteq [of : {"hls", "whep"}, stale : BOOLEAN]
    /\ ~late => /\ hlsLive = {hls} \ {0}
                /\ peer # 0 => mounted /\ player = "whep"
                /\ hls # 0 => mounted /\ player = "hls"
                /\ \A w \in waiting : ~w.stale => /\ mounted /\ w.of = player
                                                  /\ w.of = "hls" => hls = 0

LEMMA TileInitially == TileInit => TileInv
<1>. SUFFICES ASSUME TileInit PROVE TileInv
  OBVIOUS
<1>1. 1 \in Players /\ 0 \notin Players
  BY TileAssumption DEF Players
<1>2. Tile \in TileShape
  BY <1>1 DEF TileInit, Tile, TileShape, Neither
<1>3. KeptTile(Tile)
  BY <1>2 DEF TileInit, Tile, KeptTile
<1>. QED
  BY <1>1, <1>3 DEF TileInit, TileInv

LEMMA WhepStops ==
    ASSUME NEW t, KeptTile(t)
    PROVE  /\ KeptTile(WhepStopped(t)) /\ WhepStopped(t).peer = 0
           /\ FreePeers(WhepStopped(t)) = FreePeers(t)
           /\ WhepStopped(t).hls = t.hls /\ WhepStopped(t).hlsLive = t.hlsLive
<1>. DEFINE u == WhepStopped(t)
<1>1. t \in TileShape /\ 0 \notin Players
  BY DEF KeptTile, Players
<1>2. /\ u \in TileShape /\ u.peer = 0 /\ u.hls = t.hls /\ u.hlsLive = t.hlsLive
      /\ u.answering = t.answering
      /\ u.peers = IF t.peer # 0 THEN [t.peers EXCEPT ![t.peer] = "closed"] ELSE t.peers
  BY <1>1 DEF WhepStopped, TileShape
<1>3. /\ t.peers \in [Players -> {"unused", "asking", "open", "closed"}]
      /\ t.peer \in {0} \cup Players /\ t.answering \subseteq Players
  BY <1>1 DEF TileShape
<1>4. \A n \in Players : u.peers[n] = IF n = t.peer THEN "closed" ELSE t.peers[n]
  BY <1>1, <1>2, <1>3
<1>. HIDE DEF u
<1>5. KeptTile(u)
  BY <1>1, <1>2, <1>3, <1>4 DEF KeptTile
<1>6. FreePeers(u) = FreePeers(t)
  BY <1>1, <1>3, <1>4 DEF KeptTile, FreePeers
<1>. QED
  BY <1>2, <1>5, <1>6 DEF u

LEMMA HlsStops ==
    ASSUME NEW t, KeptTile(t)
    PROVE  /\ KeptTile(HlsStopped(t)) /\ HlsStopped(t).hls = 0
           /\ HlsStopped(t).hlsLive = t.hlsLive \ {t.hls}
           /\ HlsStopped(t).peer = t.peer /\ HlsStopped(t).peers = t.peers
<1>. DEFINE u == HlsStopped(t)
<1>1. t \in TileShape
  BY DEF KeptTile
<1>2. /\ u \in TileShape /\ u.hls = 0 /\ u.hlsLive = t.hlsLive \ {t.hls}
      /\ u.peer = t.peer /\ u.peers = t.peers /\ u.answering = t.answering
  BY <1>1 DEF HlsStopped, TileShape
<1>. HIDE DEF u
<1>3. KeptTile(u)
  BY <1>1, <1>2 DEF KeptTile
<1>. QED
  BY <1>2, <1>3 DEF u

LEMMA WhepStarts ==
    ASSUME NEW t, KeptTile(t), FreePeers(t) # {}
    PROVE  /\ KeptTile(WhepStarted(t))
           /\ WhepStarted(t).hls = t.hls /\ WhepStarted(t).hlsLive = t.hlsLive
<1>1. CASE t.peer # 0
  BY <1>1 DEF WhepStarted
<1>2. CASE t.peer = 0
  <2>. DEFINE n == CHOOSE n \in FreePeers(t) : \A k \in FreePeers(t) : n <= k
              u == [t EXCEPT !.peer = n, !.peers[n] = "asking",
                             !.answering = t.answering \cup {n}, !.bad.whep = FALSE]
  <2>1. FreePeers(t) \in SUBSET Nat
    BY TileAssumption DEF FreePeers, Players
  <2>2. n \in FreePeers(t)
    <3>1. \E m \in FreePeers(t) : \A k \in FreePeers(t) : m <= k
      BY <2>1, Least
    <3>. QED
      BY <3>1
  <2>3. WhepStarted(t) = u
    BY <1>2 DEF WhepStarted
  <2>. HIDE DEF n
  <2>4. t \in TileShape /\ n \in Players /\ t.peers[n] = "unused"
    BY <2>2 DEF KeptTile, FreePeers
  <2>5. /\ u \in TileShape /\ u.peer = n /\ u.hls = t.hls /\ u.hlsLive = t.hlsLive
        /\ u.answering = t.answering \cup {n} /\ u.peers = [t.peers EXCEPT ![n] = "asking"]
    BY <2>4 DEF TileShape
  <2>6. \A k \in Players : u.peers[k] = IF k = n THEN "asking" ELSE t.peers[k]
    BY <2>4, <2>5 DEF TileShape
  <2>7. t.answering \subseteq Players /\ 0 \notin Players
    BY <2>4 DEF TileShape, Players
  <2>. HIDE DEF u
  <2>8. KeptTile(u)
    BY <1>2, <2>4, <2>5, <2>6, <2>7 DEF KeptTile
  <2>. QED
    BY <2>3, <2>5, <2>8
<1>. QED
  BY <1>1, <1>2

LEMMA HlsStarts ==
    ASSUME NEW t, KeptTile(t), FreeHls(t) # {}
    PROVE  /\ KeptTile(HlsStarted(t)) /\ HlsStarted(t).hls \in Players
           /\ HlsStarted(t).hlsLive = t.hlsLive \cup {HlsStarted(t).hls}
           /\ HlsStarted(t).peer = t.peer
<1>. DEFINE n == CHOOSE n \in FreeHls(t) : \A k \in FreeHls(t) : n <= k
            u == [t EXCEPT !.hls = n, !.hlsLive = t.hlsLive \cup {n}, !.bad.hls = FALSE]
<1>1. FreeHls(t) \in SUBSET Nat
  BY TileAssumption DEF FreeHls, Players
<1>2. n \in FreeHls(t)
  <2>1. \E m \in FreeHls(t) : \A k \in FreeHls(t) : m <= k
    BY <1>1, Least
  <2>. QED
    BY <2>1
<1>3. HlsStarted(t) = u
  BY DEF HlsStarted
<1>. HIDE DEF n
<1>4. t \in TileShape /\ n \in Players
  BY <1>2 DEF KeptTile, FreeHls
<1>5. /\ u \in TileShape /\ u.hls = n /\ u.hlsLive = t.hlsLive \cup {n}
      /\ u.peer = t.peer /\ u.peers = t.peers /\ u.answering = t.answering
  BY <1>4 DEF TileShape
<1>. HIDE DEF u
<1>6. KeptTile(u)
  BY <1>5 DEF KeptTile
<1>. QED
  BY <1>3, <1>4, <1>5, <1>6

LEMMA TileBecomes ==
    ASSUME NEW t, KeptTile(t), Becomes(t)
    PROVE  /\ KeptTile(Tile)' /\ peer' = t.peer /\ hls' = t.hls /\ hlsLive' = t.hlsLive
<1>1. t \in TileShape
  BY DEF KeptTile
<1>2. t = [peer |-> t.peer, peers |-> t.peers, answering |-> t.answering, hls |-> t.hls,
           hlsLive |-> t.hlsLive, good |-> t.good, bad |-> t.bad]
  BY <1>1 DEF TileShape
<1>3. Tile' = t
  BY <1>2 DEF Becomes, Tile
<1>. QED
  BY <1>3 DEF Becomes, KeptTile, TileShape, Players
LEMMA SwitchKeeps == TileInv /\ SwitchPlayer => TileInv'
<1>. SUFFICES ASSUME TileInv, SwitchPlayer PROVE TileInv'
  OBVIOUS
<1>. DEFINE t == WhepStopped(Tile)
            u == HlsStopped(t)
            v == PlayerStarted(u, OtherPlayer)
<1>1. /\ mounted' = mounted /\ mounted /\ player' = OtherPlayer /\ late' = late
      /\ waiting' = {[w EXCEPT !.stale = TRUE] : w \in waiting}
      /\ Becomes(v) /\ MayStart(OtherPlayer)
  BY DEF SwitchPlayer
<1>2. OtherPlayer \in {"hls", "whep"} /\ waiting \subseteq [of : {"hls", "whep"}, stale : BOOLEAN]
  BY DEF OtherPlayer, TileInv
<1>3. /\ KeptTile(t) /\ t.peer = 0 /\ FreePeers(t) = FreePeers(Tile)
      /\ t.hls = hls /\ t.hlsLive = hlsLive
  BY WhepStops DEF TileInv, Tile
<1>. HIDE DEF t
<1>4. /\ KeptTile(u) /\ u.hls = 0 /\ u.hlsLive = hlsLive \ {hls} /\ u.peer = 0 /\ u.peers = t.peers
  BY <1>3, HlsStops
<1>. HIDE DEF u
<1>7. /\ KeptTile(v) /\ (v.peer # 0 => OtherPlayer = "whep") /\ (v.hls # 0 => OtherPlayer = "hls")
      /\ v.hlsLive = (hlsLive \ {hls}) \cup ({v.hls} \ {0})
  <2>1. CASE OtherPlayer = "whep"
    <3>1. FreePeers(u) # {}
      BY <1>1, <1>3, <1>4, <2>1 DEF MayStart, FreePeers
    <3>2. v = WhepStarted(u)
      BY <2>1 DEF PlayerStarted
    <3>. HIDE DEF v
    <3>. QED
      BY <1>4, <2>1, <3>1, <3>2, WhepStarts
  <2>2. CASE OtherPlayer = "hls"
    <3>1. FreeHls(u) # {}
      BY <1>1, <1>4, <2>2 DEF MayStart, FreeHls, Tile
    <3>2. v = HlsStarted(u)
      BY <2>2 DEF PlayerStarted
    <3>. HIDE DEF v
    <3>3. KeptTile(v) /\ v.hls \in Players /\ v.hlsLive = u.hlsLive \cup {v.hls} /\ v.peer = u.peer
      BY <1>4, <3>1, <3>2, HlsStarts
    <3>4. v.hls # 0
      BY <3>3 DEF Players
    <3>. QED
      BY <1>4, <2>2, <3>3, <3>4
  <2>. QED
    BY <1>2, <2>1, <2>2
<1>. HIDE DEF v
<1>8. KeptTile(Tile)' /\ peer' = v.peer /\ hls' = v.hls /\ hlsLive' = v.hlsLive
  BY <1>1, <1>7, TileBecomes
<1>9. /\ waiting' \subseteq [of : {"hls", "whep"}, stale : BOOLEAN]
      /\ \A w \in waiting' : w.stale
  BY <1>1, <1>2
<1>10. ~late => hlsLive' = {hls'} \ {0}
  BY <1>7, <1>8 DEF TileInv
<1>11. mounted' \in BOOLEAN /\ player' \in {"hls", "whep"}
  BY <1>1, <1>2
<1>. QED
  BY <1>1, <1>7, <1>8, <1>9, <1>10, <1>11 DEF TileInv

LEMMA LeaveKeeps == TileInv /\ LeaveTile => TileInv'
<1>. SUFFICES ASSUME TileInv, LeaveTile PROVE TileInv'
  OBVIOUS
<1>. DEFINE t == WhepStopped(Tile)
            u == HlsStopped(t)
<1>1. /\ ~mounted' /\ mounted' \in BOOLEAN /\ player' = player /\ late' = late /\ Becomes(u)
      /\ waiting' = {[w EXCEPT !.stale = TRUE] : w \in waiting}
  BY DEF LeaveTile
<1>2. player \in {"hls", "whep"} /\ waiting \subseteq [of : {"hls", "whep"}, stale : BOOLEAN]
  BY DEF TileInv
<1>3. KeptTile(t) /\ t.peer = 0 /\ t.hls = hls /\ t.hlsLive = hlsLive
  BY WhepStops DEF TileInv, Tile
<1>. HIDE DEF t
<1>4. KeptTile(u) /\ u.hls = 0 /\ u.hlsLive = hlsLive \ {hls} /\ u.peer = 0
  BY <1>3, HlsStops
<1>. HIDE DEF u
<1>5. KeptTile(Tile)' /\ peer' = 0 /\ hls' = 0 /\ hlsLive' = hlsLive \ {hls}
  BY <1>1, <1>4, TileBecomes
<1>6. /\ waiting' \subseteq [of : {"hls", "whep"}, stale : BOOLEAN]
      /\ \A w \in waiting' : w.stale
  BY <1>1, <1>2
<1>7. ~late => hlsLive' = {hls'} \ {0}
  BY <1>5 DEF TileInv
<1>. QED
  BY <1>1, <1>2, <1>5, <1>6, <1>7 DEF TileInv

LEMMA RetryKeeps == TileInv /\ RetryPlayer => TileInv'
<1>. SUFFICES ASSUME TileInv, RetryPlayer PROVE TileInv'
  OBVIOUS
<1>. DEFINE t == PlayerStopped(Tile, player)
            w == [of |-> player, stale |-> FALSE]
<1>1. /\ mounted /\ mounted' = mounted /\ player' = player /\ late' = late /\ Becomes(t)
      /\ waiting' = waiting \cup {w}
  BY DEF RetryPlayer
<1>2. player \in {"hls", "whep"} /\ w \in [of : {"hls", "whep"}, stale : BOOLEAN]
      /\ w.of = player
  BY DEF TileInv
<1>3. Tile.peer = peer /\ Tile.hls = hls /\ Tile.hlsLive = hlsLive
  BY DEF Tile
<1>4. CASE player = "whep"
  <2>1. t = WhepStopped(Tile)
    BY <1>4 DEF PlayerStopped
  <2>2. KeptTile(t) /\ t.peer = 0 /\ t.hls = hls /\ t.hlsLive = hlsLive
    BY <1>3, <2>1, WhepStops DEF TileInv
  <2>. HIDE DEF t, w
  <2>3. KeptTile(Tile)' /\ peer' = 0 /\ hls' = hls /\ hlsLive' = hlsLive
    BY <1>1, <2>2, TileBecomes
  <2>. QED
    BY <1>1, <1>2, <1>4, <2>3 DEF TileInv
<1>5. CASE player = "hls"
  <2>1. t = HlsStopped(Tile)
    BY <1>5 DEF PlayerStopped
  <2>2. KeptTile(t) /\ t.peer = peer /\ t.hls = 0 /\ t.hlsLive = hlsLive \ {hls}
    BY <1>3, <2>1, HlsStops DEF TileInv
  <2>. HIDE DEF t, w
  <2>3. KeptTile(Tile)' /\ peer' = peer /\ hls' = 0 /\ hlsLive' = hlsLive \ {hls}
    BY <1>1, <2>2, TileBecomes
  <2>. QED
    BY <1>1, <1>2, <1>5, <2>3 DEF TileInv
<1>. QED
  BY <1>2, <1>4, <1>5

LEMMA RetryFiresKeeps == TileInv /\ RetryFires => TileInv'
<1>. SUFFICES ASSUME TileInv, RetryFires PROVE TileInv'
  OBVIOUS
<1>1. PICK w \in waiting :
         /\ waiting' = waiting \ {w}
         /\ IF w.of = "hls" /\ ~mounted
            THEN UNCHANGED <<peer, peers, answering, hls, hlsLive, good, bad>>
            ELSE MayStart(w.of) /\ Becomes(PlayerStarted(Tile, w.of))
         /\ late' = (late \/ w.stale)
         /\ UNCHANGED <<mounted, player, turns>>
  BY DEF RetryFires
<1>2. /\ w \in [of : {"hls", "whep"}, stale : BOOLEAN]
      /\ waiting' \subseteq [of : {"hls", "whep"}, stale : BOOLEAN]
      /\ mounted' \in BOOLEAN /\ player' \in {"hls", "whep"}
  BY <1>1 DEF TileInv
<1>3. ~late' => ~late /\ mounted /\ w.of = player /\ (w.of = "hls" => hls = 0)
  BY <1>1, <1>2 DEF TileInv
<1>4. Tile.peer = peer /\ Tile.hls = hls /\ Tile.hlsLive = hlsLive
  BY DEF Tile
<1>5. CASE w.of = "hls" /\ ~mounted
  <2>1. UNCHANGED <<peer, peers, answering, hls, hlsLive, good, bad>> /\ Tile' = Tile
    BY <1>1, <1>5 DEF Tile
  <2>2. KeptTile(Tile)'
    BY <2>1 DEF TileInv, KeptTile, TileShape, Players
  <2>. QED
    BY <1>1, <1>2, <1>3, <1>5, <2>1, <2>2 DEF TileInv
<1>6. CASE w.of = "whep"
  <2>1. FreePeers(Tile) # {} /\ Becomes(WhepStarted(Tile))
    BY <1>1, <1>6 DEF MayStart, PlayerStarted
  <2>2. /\ KeptTile(WhepStarted(Tile)) /\ WhepStarted(Tile).hls = hls
        /\ WhepStarted(Tile).hlsLive = hlsLive
    BY <1>4, <2>1, WhepStarts DEF TileInv
  <2>3. KeptTile(Tile)' /\ hls' = hls /\ hlsLive' = hlsLive
    BY <2>1, <2>2, TileBecomes
  <2>. QED
    BY <1>1, <1>2, <1>3, <1>6, <2>3 DEF TileInv
<1>7. CASE w.of = "hls" /\ mounted
  <2>1. FreeHls(Tile) # {} /\ Becomes(HlsStarted(Tile))
    BY <1>1, <1>7 DEF MayStart, PlayerStarted
  <2>. DEFINE t == HlsStarted(Tile)
  <2>2. KeptTile(t) /\ t.hls \in Players /\ t.hlsLive = hlsLive \cup {t.hls} /\ t.peer = peer
    BY <1>4, <2>1, HlsStarts DEF TileInv
  <2>. HIDE DEF t
  <2>3. KeptTile(Tile)' /\ peer' = peer /\ hls' # 0 /\ hlsLive' = hlsLive \cup {hls'}
    BY <2>1, <2>2, TileBecomes DEF Players, t
  <2>4. \A v \in waiting' : ~late' => v.stale
    <3>1. ASSUME NEW v \in waiting', ~late', ~v.stale
          PROVE  FALSE
      <4>1. v \in waiting /\ v # w /\ v \in [of : {"hls", "whep"}, stale : BOOLEAN]
        BY <1>1, <3>1 DEF TileInv
      <4>2. v.of = player /\ w.of = player /\ ~w.stale
        BY <1>1, <1>3, <3>1, <4>1 DEF TileInv
      <4>. QED
        BY <1>2, <3>1, <4>1, <4>2
    <3>. QED
      BY <1>2, <3>1
  <2>5. ~late' => hlsLive' = {hls'} \ {0}
    BY <1>3, <1>7, <2>3 DEF TileInv
  <2>. QED
    BY <1>1, <1>2, <1>3, <1>7, <2>3, <2>4, <2>5 DEF TileInv
<1>. QED
  BY <1>2, <1>5, <1>6, <1>7

LEMMA AnswerIsHeld ==
    ASSUME TileInv, NEW n \in Players, NEW ok \in BOOLEAN, WhepAnswers(n, ok)
    PROVE  TileInv'
<1>. DEFINE t == [Tile EXCEPT !.answering = Tile.answering \ {n}]
            fallen == [t EXCEPT !.peers = IF t.peer # 0 THEN [t.peers EXCEPT ![t.peer] = "closed"]
                                          ELSE t.peers,
                                !.peer = 0, !.bad.whep = TRUE]
            opened == [t EXCEPT !.peers[n] = "open"]
<1>1. /\ n \in answering /\ UNCHANGED <<mounted, player, waiting, late>>
      /\ Becomes(CASE ~ok -> fallen
                   [] ok /\ t.peer = 0 -> t
                   [] ok /\ t.peer # 0 /\ peers[n] = "closed" -> fallen
                   [] OTHER -> opened)
  BY DEF WhepAnswers
<1>2. KeptTile(Tile) /\ Tile \in TileShape /\ Tile.peer = peer /\ Tile.hls = hls
      /\ Tile.hlsLive = hlsLive /\ Tile.peers = peers /\ Tile.answering = answering
  BY DEF TileInv, KeptTile, Tile
<1>3. /\ t \in TileShape /\ t.peer = peer /\ t.peers = peers /\ t.hls = hls
      /\ t.hlsLive = hlsLive /\ t.answering = answering \ {n}
  BY <1>2 DEF TileShape
<1>. HIDE DEF t
<1>4. KeptTile(t)
  BY <1>2, <1>3 DEF KeptTile
<1>5. /\ KeptTile(fallen) /\ fallen.peer = 0 /\ fallen.hls = hls /\ fallen.hlsLive = hlsLive
  <2>1. /\ fallen \in TileShape /\ fallen.peer = 0 /\ fallen.hls = hls
        /\ fallen.hlsLive = hlsLive /\ fallen.answering = t.answering
        /\ fallen.peers = IF t.peer # 0 THEN [t.peers EXCEPT ![t.peer] = "closed"] ELSE t.peers
    BY <1>3 DEF TileShape
  <2>2. \A k \in Players : fallen.peers[k] = IF k = t.peer THEN "closed" ELSE t.peers[k]
    <3>1. t.peers \in [Players -> {"unused", "asking", "open", "closed"}] /\ 0 \notin Players
          /\ t.peer \in {0} \cup Players
      BY <1>3 DEF TileShape, Players
    <3>. QED
      BY <2>1, <3>1
  <2>3. t.answering \subseteq Players
    BY <1>3 DEF TileShape
  <2>. HIDE DEF fallen
  <2>. QED
    BY <1>4, <2>1, <2>2, <2>3 DEF KeptTile
<1>6. ok /\ t.peer # 0 /\ peers[n] # "closed" =>
         KeptTile(opened) /\ opened.peer = peer /\ opened.hls = hls /\ opened.hlsLive = hlsLive
  <2>. SUFFICES ASSUME ok, t.peer # 0, peers[n] # "closed"
                PROVE  /\ KeptTile(opened) /\ opened.peer = peer /\ opened.hls = hls
                       /\ opened.hlsLive = hlsLive
    OBVIOUS
  <2>1. /\ opened \in TileShape /\ opened.peer = peer /\ opened.hls = hls
        /\ opened.hlsLive = hlsLive /\ opened.answering = t.answering
        /\ opened.peers = [t.peers EXCEPT ![n] = "open"]
    BY <1>3 DEF TileShape
  <2>2. /\ t.peers \in [Players -> {"unused", "asking", "open", "closed"}]
        /\ t.answering \subseteq Players
    BY <1>3 DEF TileShape
  <2>3. \A k \in Players : opened.peers[k] = IF k = n THEN "open" ELSE t.peers[k]
    BY <2>1, <2>2
  <2>4. n = peer
    <3>1. peers[n] # "unused"
      BY <1>1, <1>2 DEF KeptTile
    <3>2. peers[n] \in {"asking", "open"}
      BY <1>3, <2>2, <3>1
    <3>. QED
      BY <1>3, <1>4, <3>2 DEF KeptTile
  <2>. HIDE DEF opened
  <2>. QED
    BY <1>3, <1>4, <2>1, <2>2, <2>3, <2>4 DEF KeptTile
<1>. HIDE DEF fallen, opened
<1>7. PICK u : Becomes(u) /\ KeptTile(u) /\ u.peer \in {0, peer} /\ u.hls = hls /\ u.hlsLive = hlsLive
  <2>1. CASE ~ok \/ (t.peer # 0 /\ peers[n] = "closed")
    BY <1>1, <1>5, <2>1
  <2>2. CASE ok /\ t.peer = 0
    BY <1>1, <1>3, <1>4, <2>2
  <2>3. CASE ok /\ t.peer # 0 /\ peers[n] # "closed"
    BY <1>1, <1>6, <2>3
  <2>. QED
    BY <2>1, <2>2, <2>3
<1>8. KeptTile(Tile)' /\ peer' \in {0, peer} /\ hls' = hls /\ hlsLive' = hlsLive
  BY <1>7, TileBecomes
<1>. QED
  BY <1>1, <1>8 DEF TileInv

LEMMA TileStep == TileInv /\ [TileNext]_tileVars => TileInv'
<1>. SUFFICES ASSUME TileInv, [TileNext]_tileVars PROVE TileInv'
  OBVIOUS
<1>1. CASE UNCHANGED <<mounted, player, peer, peers, answering, hls, hlsLive, waiting, late>>
           /\ good' \in [whep : BOOLEAN, hls : BOOLEAN] /\ bad' \in [whep : BOOLEAN, hls : BOOLEAN]
  <2>1. Tile \in TileShape
    BY DEF TileInv, KeptTile
  <2>2. Tile' = [peer |-> peer, peers |-> peers, answering |-> answering, hls |-> hls,
                 hlsLive |-> hlsLive, good |-> good', bad |-> bad']
    BY <1>1 DEF Tile
  <2>3. Tile' \in TileShape
    BY <1>1, <2>1, <2>2 DEF TileShape, Tile
  <2>4. Tile'.peer = Tile.peer /\ Tile'.peers = Tile.peers /\ Tile'.answering = Tile.answering
    BY <2>2 DEF Tile
  <2>5. KeptTile(Tile)'
    BY <2>3, <2>4 DEF TileInv, KeptTile, TileShape, Players
  <2>. QED
    BY <1>1, <2>5 DEF TileInv
<1>2. good \in [whep : BOOLEAN, hls : BOOLEAN] /\ bad \in [whep : BOOLEAN, hls : BOOLEAN]
  BY DEF TileInv, KeptTile, TileShape, Tile
<1>3. CASE UNCHANGED tileVars \/ TrackArrives \/ IceFails \/ ManifestParsed \/ HlsFatal
  BY <1>1, <1>2, <1>3 DEF tileVars, TrackArrives, IceFails, ManifestParsed, HlsFatal
<1>4. CASE SwitchPlayer \/ LeaveTile \/ RetryPlayer \/ RetryFires
  BY <1>4, SwitchKeeps, LeaveKeeps, RetryKeeps, RetryFiresKeeps
<1>5. ASSUME NEW n \in Players, NEW ok \in BOOLEAN, WhepAnswers(n, ok)
      PROVE  TileInv'
  BY <1>5, AnswerIsHeld
<1>. QED
  BY <1>3, <1>4, <1>5 DEF TileNext

(* The video has one player at most, the one the badge names, and none     *)
(* once the tile is gone, unless a retry fired that had become stale; and  *)
(* a connection that lives is one the tile can still close.                *)
THEOREM OnePlayerPlays == TileSpec => [](OnePlayer /\ PeersAreHeld)
<1>1. TileInv => OnePlayer /\ PeersAreHeld
  <2>. SUFFICES ASSUME TileInv PROVE OnePlayer /\ PeersAreHeld
    OBVIOUS
  <2>1. PeersAreHeld
    BY DEF TileInv, KeptTile, Tile, PeersAreHeld, LivePeers
  <2>2. LivePeers \subseteq {peer} \ {0}
    BY DEF TileInv, KeptTile, Tile, LivePeers, Players
  <2>3. ASSUME ~late
        PROVE  /\ Cardinality(LivePeers) + Cardinality(hlsLive) <= 1
               /\ LivePeers # {} => mounted /\ player = "whep"
               /\ hlsLive # {} => mounted /\ player = "hls"
    <3>1. hlsLive = {hls} \ {0} /\ (peer # 0 => mounted /\ player = "whep")
          /\ (hls # 0 => mounted /\ player = "hls")
      BY <2>3 DEF TileInv
    <3>2. LivePeers = {} \/ hlsLive = {}
      BY <2>2, <3>1
    <3>3. \A S, x : S \subseteq {x} => S = {} \/ S = {x}
      OBVIOUS
    <3>4. \A S, x : S \subseteq {x} => Cardinality(S) \in {0, 1}
      BY <3>3, FS_EmptySet, FS_Singleton
    <3>5. Cardinality(LivePeers) \in {0, 1} /\ Cardinality(hlsLive) \in {0, 1}
      BY <2>2, <3>1, <3>4
    <3>6. Cardinality(LivePeers) = 0 \/ Cardinality(hlsLive) = 0
      BY <3>2, FS_EmptySet
    <3>. QED
      BY <2>2, <3>1, <3>5, <3>6
  <2>. QED
    BY <2>1, <2>3 DEF OnePlayer
<1>. QED
  BY <1>1, TileInitially, TileStep, PTL DEF TileSpec

-----------------------------------------------------------------------------
(* The bar of shortcuts (Pages): a shortcut that was held is pressed yet,  *)
(* and the bar is being edited.                                            *)
BarInv ==
    /\ down \subseteq 1 .. MaxShortcuts /\ held \subseteq down /\ (held # {} => editing)
    /\ ~orphaned => holds \subseteq down /\ down \subseteq {holder}
    /\ \A c \in barCalls : ~c.wasHeld

LEMMA FireIsNoHold ==
    ASSUME BarInv, NEW n, Fires(n)
    PROVE  \A c \in barCalls' : ~c.wasHeld
<1>1. CASE editing
  BY <1>1 DEF BarInv, Fires
<1>2. CASE ~editing
  <2>1. n \notin held
    BY <1>2 DEF BarInv
  <2>2. barCalls' = barCalls \cup {[target |-> bar[n], wasHeld |-> n \in held]}
    BY <1>2, Zenon DEF Fires
  <2>3. ~[target |-> bar[n], wasHeld |-> n \in held].wasHeld
    BY <2>1
  <2>. QED
    BY <2>2, <2>3 DEF BarInv
<1>. QED
  BY <1>1, <1>2

LEMMA BarStep == BarInv /\ [BarNext]_barVars => BarInv'
<1>. SUFFICES ASSUME BarInv, [BarNext]_barVars PROVE BarInv'
  OBVIOUS
<1>1. CASE UNCHANGED barVars
  BY <1>1 DEF barVars, BarInv
<1>2. CASE FireEnds \/ EditOn \/ OpenAdd \/ PickTarget \/ CloseAdd \/ ConfirmAdd
  BY <1>2 DEF BarInv, FireEnds, EditOn, OpenAdd, PickTarget, CloseAdd, ConfirmAdd
<1>3. CASE EditDone
  BY <1>3 DEF BarInv, EditDone
<1>4. ASSUME NEW n \in 1 .. MaxShortcuts, PressDown(n)
      PROVE  BarInv'
  <2>1. ~orphaned' => ~orphaned /\ holder = 0
    BY <1>4 DEF PressDown
  <2>2. ~orphaned' => down = {}
    BY <2>1, BarAssumption DEF BarInv
  <2>. QED
    BY <1>4, <2>1, <2>2 DEF BarInv, PressDown
<1>5. ASSUME NEW n \in 1 .. MaxShortcuts, HoldFires(n)
      PROVE  BarInv'
  BY <1>5 DEF BarInv, HoldFires
<1>6. ASSUME NEW n \in 1 .. MaxShortcuts, ReleasePress(n)
      PROVE  BarInv'
  <2>1. /\ n \in down /\ down' = down \ {n} /\ holds' = holds \ {holder} /\ held' = held \ {n}
        /\ Fires(n) /\ UNCHANGED <<editing, orphaned>>
    BY <1>6 DEF ReleasePress
  <2>2. \A c \in barCalls' : ~c.wasHeld
    BY <2>1, FireIsNoHold
  <2>. QED
    BY <2>1, <2>2 DEF BarInv
<1>7. ASSUME NEW n \in 1 .. MaxShortcuts, SlideOff(n)
      PROVE  BarInv'
  BY <1>7 DEF BarInv, SlideOff
<1>8. ASSUME NEW n \in 1 .. MaxShortcuts, RemoveShortcut(n)
      PROVE  BarInv'
  BY <1>8 DEF BarInv, RemoveShortcut
<1>. QED
  BY <1>1, <1>2, <1>3, <1>4, <1>5, <1>6, <1>7, <1>8 DEF BarNext

(* A tap is not a hold, and a hold is not a tap.                           *)
THEOREM NoTapIsAHold == BarSpec => []TapsAreNotHolds
<1>1. BarInit => BarInv
  BY DEF BarInit, BarInv
<1>2. BarInv => TapsAreNotHolds
  BY DEF BarInv, TapsAreNotHolds
<1>. QED
  BY <1>1, <1>2, BarStep, PTL DEF BarSpec
-----------------------------------------------------------------------------
(* Queues: what is put on one, taken from it, or changed in it.            *)
LEMMA QueueGrows ==
    ASSUME NEW S, NEW s \in Seq(S), NEW x \in S
    PROVE  /\ Append(s, x) \in Seq(S) /\ Append(s, x) # <<>>
           /\ Append(s, x)[Len(Append(s, x))] = x /\ Len(Append(s, x)) = Len(s) + 1
           /\ \A i \in 1 .. Len(s) : Append(s, x)[i] = s[i]
OBVIOUS

LEMMA QueueShrinks ==
    ASSUME NEW S, NEW s \in Seq(S), s # <<>>
    PROVE  /\ Head(s) \in S /\ Head(s) = s[1] /\ Tail(s) \in Seq(S) /\ Len(Tail(s)) = Len(s) - 1
           /\ \A i \in 1 .. Len(Tail(s)) : Tail(s)[i] = s[i + 1]
           /\ Tail(s) # <<>> => Tail(s)[Len(Tail(s))] = s[Len(s)]
           /\ Tail(s) = <<>> => Head(s) = s[Len(s)] /\ Len(s) = 1
<1>1. Len(s) \in Nat \ {0}
  BY EmptySeq
<1>2. Head(s) \in S /\ Head(s) = s[1] /\ Tail(s) \in Seq(S) /\ Len(Tail(s)) = Len(s) - 1
  BY <1>1, HeadTailProperties
<1>3. \A i \in 1 .. Len(Tail(s)) : Tail(s)[i] = s[i + 1]
  BY <1>1, <1>2, HeadTailProperties
<1>4. ASSUME Tail(s) # <<>> PROVE Tail(s)[Len(Tail(s))] = s[Len(s)]
  <2>1. Len(Tail(s)) \in 1 .. Len(Tail(s))
    BY <1>1, <1>2, <1>4, EmptySeq
  <2>. QED
    BY <1>1, <1>2, <1>3, <2>1
<1>5. ASSUME Tail(s) = <<>> PROVE Len(s) = 1
  BY <1>1, <1>2, <1>5
<1>. QED
  BY <1>2, <1>3, <1>4, <1>5

LEMMA FunctionIsSeq ==
    ASSUME NEW S, NEW n \in Nat, NEW t \in [1 .. n -> S]
    PROVE  t \in Seq(S) /\ Len(t) = n /\ DOMAIN t = 1 .. n
<1>1. t \in Seq(S)
  BY SeqDef
<1>. QED
  BY <1>1, LenProperties

-----------------------------------------------------------------------------
(* Touching a fixture (FloorPlans).  The page is as the house was when it  *)
(* last heard of it, or will hear; and what a single open click would take *)
(* back to is what the house has.                                          *)
TouchShape == [kind : {"hit", "slide", "legend", "post"}, to : Fixture, keep : Fixture,
               back : BOOLEAN, heard : BOOLEAN, step : {"sent", "done", "over"}]

AllDoneBut(ns) == \A n \in Open \ ns : touches[n].step = "done"

TouchInv ==
    /\ planShows \in Fixture /\ real \in Fixture /\ astray \in BOOLEAN
    /\ news \in Seq(Fixture) /\ touches \in Seq(TouchShape)
    /\ news # <<>> => news[Len(news)] = real
    /\ \A n \in Open : touches[n].step = "done" /\ ~touches[n].heard => news # <<>>
    /\ ~astray /\ news = <<>> =>
          /\ AllDoneBut({}) => planShows = real
          /\ \A n \in Open : /\ touches[n].step = "sent" /\ touches[n].back
                             /\ ~touches[n].heard /\ AllDoneBut({n})
                             => touches[n].keep = real

LEMMA TouchBegins == TouchInit => TouchInv
<1>. SUFFICES ASSUME TouchInit PROVE TouchInv
  OBVIOUS
<1>1. DOMAIN touches = {} /\ Open = {}
  BY DEF TouchInit, Open
<1>2. news \in Seq(Fixture) /\ touches \in Seq(TouchShape)
  BY EmptySeq DEF TouchInit
<1>. QED
  BY <1>1, <1>2 DEF TouchInit, TouchInv, AllDoneBut

(* A press on a plan: one call or two, which keep what was shown before.   *)
LEMMA PressKeeps ==
    ASSUME TouchInv, NEW asks \in Seq(TouchShape), asks # <<>>, TouchPlan(asks),
           \A i \in DOMAIN asks : /\ asks[i].step = "sent" /\ ~asks[i].heard
                                  /\ asks[i].keep = planShows,
           planShows' \in Fixture
    PROVE  TouchInv'
<1>1. /\ touches' = touches \o asks /\ UNCHANGED <<real, news, astray>>
      /\ touches \in Seq(TouchShape)
  BY DEF TouchPlan, TouchInv
<1>2. /\ touches' \in Seq(TouchShape) /\ Len(touches') = Len(touches) + Len(asks)
      /\ \A n \in 1 .. Len(touches) : touches'[n] = touches[n]
      /\ \A n \in Len(touches) + 1 .. Len(touches') :
            n - Len(touches) \in DOMAIN asks /\ touches'[n] = asks[n - Len(touches)]
  BY <1>1
<1>3. /\ DOMAIN touches = 1 .. Len(touches) /\ DOMAIN touches' = 1 .. Len(touches')
      /\ Len(touches) \in Nat /\ Len(asks) \in Nat \ {0}
  BY <1>1, <1>2
<1>4. \A n \in Open' : \/ n \in Open /\ touches'[n] = touches[n]
                       \/ /\ n \notin DOMAIN touches /\ touches'[n].step = "sent"
                          /\ ~touches'[n].heard /\ touches'[n].keep = planShows
  BY <1>2, <1>3 DEF Open
<1>5. \A n \in Open : n \in Open' /\ touches'[n] = touches[n]
  BY <1>2, <1>3 DEF Open
<1>6. PICK k : k \in Open' /\ k \notin DOMAIN touches /\ touches'[k].step = "sent"
  <2>. DEFINE last == Len(touches) + 1
  <2>1. /\ last \in Len(touches) + 1 .. Len(touches') /\ last \in DOMAIN touches'
        /\ last \notin DOMAIN touches
    BY <1>2, <1>3
  <2>2. last - Len(touches) \in DOMAIN asks /\ touches'[last] = asks[last - Len(touches)]
    BY <1>2, <2>1
  <2>. HIDE DEF last
  <2>. QED
    BY <2>1, <2>2 DEF Open
<1>7. \A n \in Open' : touches'[n].step = "done" /\ ~touches'[n].heard => news' # <<>>
  BY <1>1, <1>4 DEF TouchInv
<1>8. ASSUME ~astray', news' = <<>>, NEW n \in Open', touches'[n].step = "sent", touches'[n].back,
             ~touches'[n].heard, AllDoneBut({n})'
      PROVE  touches'[n].keep = real'
  <2>1. n = k
    BY <1>6, <1>8 DEF AllDoneBut
  <2>2. AllDoneBut({})
    BY <1>5, <1>6, <1>8, <2>1 DEF AllDoneBut, Open
  <2>3. touches'[n].keep = planShows
    BY <1>4, <1>6, <2>1 DEF Open
  <2>. QED
    BY <1>1, <1>8, <2>2, <2>3 DEF TouchInv
<1>9. ~AllDoneBut({})'
  BY <1>6 DEF AllDoneBut
<1>. QED
  BY <1>1, <1>2, <1>7, <1>8, <1>9 DEF TouchInv

LEMMA TouchStep == TouchInv /\ [TouchNext]_touchVars => TouchInv'
<1>. SUFFICES ASSUME TouchInv, [TouchNext]_touchVars PROVE TouchInv'
  OBVIOUS
<1>1. /\ planShows \in Fixture /\ real \in Fixture /\ news \in Seq(Fixture)
      /\ touches \in Seq(TouchShape) /\ astray \in BOOLEAN
      /\ news # <<>> => news[Len(news)] = real
      /\ \A n \in Open : touches[n].step = "done" /\ ~touches[n].heard => news # <<>>
  BY DEF TouchInv
<1>2. Toggled \in Fixture
  BY <1>1 DEF Toggled, Fixture
<1>3. \A v \in Shades : [on |-> TRUE, shade |-> v] \in Fixture
  BY DEF Fixture
<1>4. ASSUME NEW kind \in {"hit", "slide", "legend", "post"}, NEW to \in Fixture
      PROVE  /\ TouchAsks(kind, to, planShows) \in TouchShape
             /\ TouchAsks(kind, to, planShows).step = "sent"
             /\ ~TouchAsks(kind, to, planShows).heard
             /\ TouchAsks(kind, to, planShows).keep = planShows
  <2>1. (kind = "hit") \in BOOLEAN
    OBVIOUS
  <2>. QED
    BY <1>1, <2>1 DEF TouchAsks, TouchShape
<1>5. ASSUME NEW kind \in {"hit", "slide", "legend", "post"}, NEW to \in Fixture,
             TouchPlan(<<TouchAsks(kind, to, planShows)>>), planShows' \in Fixture
      PROVE  TouchInv'
  <2>. DEFINE ask == TouchAsks(kind, to, planShows)
  <2>1. ask \in TouchShape /\ ask.step = "sent" /\ ~ask.heard /\ ask.keep = planShows
    BY <1>4
  <2>2. TouchPlan(<<ask>>)
    BY <1>5
  <2>. HIDE DEF ask
  <2>3. <<ask>> \in Seq(TouchShape) /\ <<ask>> # <<>>
        /\ \A i \in DOMAIN <<ask>> : <<ask>>[i] = ask
    BY <2>1
  <2>. QED
    BY <1>5, <2>1, <2>2, <2>3, PressKeeps
<1>6. CASE HitFixture \/ PopupToggle \/ LegendPress
  BY <1>2, <1>5, <1>6 DEF HitFixture, PopupToggle, LegendPress
<1>7. CASE CardToggle
  BY <1>2, <1>5, <1>7 DEF CardToggle
<1>8. CASE SlideShade
  BY <1>3, <1>5, <1>8 DEF SlideShade
<1>9. CASE CardSlide
  <2>1. PICK v \in Shades :
          /\ TouchPlan(<<TouchAsks("post", [on |-> TRUE, shade |-> v], planShows)>>
                \o IF planShows.on THEN <<>> ELSE <<TouchAsks("post", Toggled, planShows)>>)
          /\ planShows' = [on |-> TRUE, shade |-> v]
    BY <1>9 DEF CardSlide
  <2>. DEFINE one == TouchAsks("post", [on |-> TRUE, shade |-> v], planShows)
              two == TouchAsks("post", Toggled, planShows)
              asks == <<one>> \o IF planShows.on THEN <<>> ELSE <<two>>
  <2>2. /\ one \in TouchShape /\ one.step = "sent" /\ ~one.heard /\ one.keep = planShows
        /\ two \in TouchShape /\ two.step = "sent" /\ ~two.heard /\ two.keep = planShows
    BY <1>2, <1>3, <1>4
  <2>3. TouchPlan(asks)
    BY <2>1
  <2>4. asks = <<one>> \/ asks = <<one>> \o <<two>>
    <3>. HIDE DEF one, two
    <3>1. CASE planShows.on
      BY <3>1, <2>2
    <3>2. CASE ~planShows.on
      BY <3>2
    <3>. QED
      BY <3>1, <3>2
  <2>. HIDE DEF one, two, asks
  <2>5. /\ asks \in Seq(TouchShape) /\ asks # <<>>
        /\ \A i \in DOMAIN asks : asks[i] = one \/ asks[i] = two
    <3>1. CASE asks = <<one>>
      BY <3>1, <2>2
    <3>2. CASE asks = <<one>> \o <<two>>
      <4>1. <<one>> \in Seq(TouchShape) /\ <<two>> \in Seq(TouchShape)
        BY <2>2
      <4>. QED
        BY <3>2, <4>1
    <3>. QED
      BY <2>4, <3>1, <3>2
  <2>. QED
    BY <1>3, <2>1, <2>2, <2>3, <2>5, PressKeeps
<1>10. CASE PopupCloses \/ UNCHANGED touchVars
  <2>1. UNCHANGED <<planShows, real, news, touches, astray>>
    BY <1>10 DEF PopupCloses, touchVars
  <2>. QED
    BY <2>1 DEF TouchInv, AllDoneBut, Open
<1>11. CASE HouseChanges
  <2>1. /\ real' \in Fixture /\ news' = Append(news, real')
        /\ UNCHANGED <<planShows, touches, astray>>
    BY <1>11 DEF HouseChanges
  <2>2. news' # <<>> /\ news' \in Seq(Fixture) /\ news'[Len(news')] = real'
    BY <1>1, <2>1
  <2>. QED
    BY <1>1, <2>1, <2>2 DEF TouchInv, Open
<1>12. CASE PageHears
  <2>1. /\ news # <<>> /\ planShows' = Head(news) /\ news' = Tail(news) /\ real' = real
        /\ touches' = [n \in DOMAIN touches |-> [touches[n] EXCEPT !.heard = TRUE]]
        /\ astray' = (astray /\ (Len(news) > 1 \/ Open # {}))
    BY <1>12 DEF PageHears
  <2>2. /\ planShows' \in Fixture /\ news' \in Seq(Fixture)
        /\ news' # <<>> => news'[Len(news')] = real'
        /\ news' = <<>> => planShows' = real'
    BY <1>1, <2>1, QueueShrinks
  <2>3. /\ touches' \in Seq(TouchShape) /\ DOMAIN touches' = DOMAIN touches
        /\ \A n \in DOMAIN touches : touches'[n].heard /\ touches'[n].step = touches[n].step
    <3>1. DOMAIN touches = 1 .. Len(touches) /\ Len(touches) \in Nat
          /\ \A n \in DOMAIN touches : touches[n] \in TouchShape
      BY <1>1, LenProperties
    <3>2. \A n \in DOMAIN touches : [touches[n] EXCEPT !.heard = TRUE] \in TouchShape
      BY <3>1 DEF TouchShape
    <3>3. touches' \in [1 .. Len(touches) -> TouchShape]
      BY <2>1, <3>1, <3>2
    <3>4. \A n \in DOMAIN touches : touches'[n].heard /\ touches'[n].step = touches[n].step
      BY <2>1, <3>1 DEF TouchShape
    <3>. QED
      BY <3>1, <3>3, <3>4, FunctionIsSeq
  <2>4. astray' \in BOOLEAN
    BY <2>1
  <2>. QED
    BY <1>1, <2>2, <2>3, <2>4 DEF TouchInv, Open
<1>13. ASSUME NEW n \in DOMAIN touches, HouseObeys(n)
       PROVE  TouchInv'
  <2>1. /\ touches' = [touches EXCEPT ![n].step = "done"] /\ real' = Done(touches[n])
        /\ news' = Append(news, real') /\ UNCHANGED <<planShows, astray>>
    BY <1>13 DEF HouseObeys
  <2>2. touches[n] \in TouchShape
    BY <1>1
  <2>3. real' \in Fixture
    BY <1>1, <2>1, <2>2 DEF Done, TouchShape, Fixture
  <2>4. news' # <<>> /\ news' \in Seq(Fixture) /\ news'[Len(news')] = real'
    BY <1>1, <2>1, <2>3
  <2>5. touches' \in Seq(TouchShape)
    <3>1. [touches[n] EXCEPT !.step = "done"] \in TouchShape
      BY <2>2 DEF TouchShape
    <3>. QED
      BY <1>1, <2>1, <3>1, ExceptSeq, LenProperties
  <2>. QED
    BY <1>1, <2>1, <2>3, <2>4, <2>5 DEF TouchInv
<1>14. ASSUME NEW n \in DOMAIN touches, CallSucceeds(n) \/ CallFails(n)
       PROVE  TouchInv'
  <2>1. /\ touches' = [touches EXCEPT ![n].step = "over"] /\ real' = real /\ news' = news
    BY <1>14 DEF CallSucceeds, CallFails
  <2>2. touches[n] \in TouchShape /\ n \in Open
    BY <1>1, <1>14 DEF CallSucceeds, CallFails, Open
  <2>3. touches' \in Seq(TouchShape) /\ DOMAIN touches' = DOMAIN touches
    <3>1. [touches[n] EXCEPT !.step = "over"] \in TouchShape
      BY <2>2 DEF TouchShape
    <3>. QED
      BY <1>1, <2>1, <3>1, ExceptSeq, LenProperties
  <2>4. /\ touches'[n].step = "over"
        /\ \A m \in DOMAIN touches \ {n} : touches'[m] = touches[m]
    BY <1>1, <2>1, <2>2 DEF TouchShape
  <2>5. Open' = Open \ {n}
    BY <2>3, <2>4 DEF Open
  <2>6. \A m \in Open' : touches'[m].step = "done" /\ ~touches'[m].heard => news' # <<>>
    BY <1>1, <2>1, <2>4, <2>5 DEF Open
  <2>7. CASE CallSucceeds(n)
    <3>1. touches[n].step = "done" /\ UNCHANGED <<planShows, astray>>
      BY <2>7 DEF CallSucceeds
    <3>2. AllDoneBut({})' => AllDoneBut({})
      BY <2>4, <2>5, <3>1 DEF AllDoneBut, Open
    <3>3. \A m \in Open' : /\ m \in Open /\ touches'[m] = touches[m]
                           /\ AllDoneBut({m})' => AllDoneBut({m})
      BY <2>4, <2>5, <3>1 DEF AllDoneBut, Open
    <3>. QED
      BY <1>1, <2>1, <2>3, <2>6, <3>1, <3>2, <3>3 DEF TouchInv
  <2>8. CASE CallFails(n)
    <3>1. /\ planShows' = IF touches[n].back THEN touches[n].keep ELSE planShows
          /\ astray' = (astray \/ ~touches[n].back \/ touches[n].heard \/ Open # {n})
          /\ touches[n].step \in {"sent", "done"}
      BY <2>8 DEF CallFails
    <3>2. planShows' \in Fixture /\ astray' \in BOOLEAN
      BY <1>1, <2>2, <3>1 DEF TouchShape
    <3>3. ASSUME ~astray', news' = <<>>
          PROVE  planShows' = real' /\ Open' = {}
      <4>1. ~astray /\ touches[n].back /\ ~touches[n].heard /\ Open = {n}
        BY <3>1, <3>3
      <4>2. touches[n].step = "sent" /\ AllDoneBut({n})
        BY <1>1, <2>1, <2>2, <3>1, <3>3, <4>1 DEF AllDoneBut
      <4>3. touches[n].keep = real
        BY <2>1, <2>2, <3>3, <4>1, <4>2 DEF TouchInv
      <4>. QED
        BY <2>1, <2>5, <3>1, <4>1, <4>3
    <3>. QED
      BY <1>1, <2>1, <2>3, <2>6, <3>2, <3>3 DEF TouchInv
  <2>. QED
    BY <1>14, <2>7, <2>8
<1>. QED
  BY <1>6, <1>7, <1>8, <1>9, <1>10, <1>11, <1>12, <1>13, <1>14 DEF TouchNext

(* When every call is over and no news is on its way, the plan shows the   *)
(* fixture as it is.                                                       *)
THEOREM PlansAreTrue == TouchSpec => []PlanIsTrue
<1>1. TouchInv => PlanIsTrue
  BY DEF TouchInv, PlanIsTrue, AllDoneBut
<1>. QED
  BY <1>1, TouchBegins, TouchStep, PTL DEF TouchSpec

-----------------------------------------------------------------------------
(* The map of meshes (FloorPlans): what the file will be when all was sent *)
(* is what was picked, and so is what the panel shows once it is loaded.   *)
EditorShape == [step : {"opened", "asked", "ready", "failed"}, seen : SUBSET Devices, map : Maps,
                hist : Seq(Maps), at : Nat]

FileToBe == IF puts = <<>> THEN file ELSE puts[Len(puts)]

MapInv ==
    /\ file \in Maps /\ mapWanted \in Maps /\ puts \in Seq(Maps) /\ met \subseteq Devices
    /\ editor \in EditorShape /\ editor.at <= Len(editor.hist) /\ hasty \in BOOLEAN
    /\ ~hasty =>
          /\ \A mesh \in Meshes \ undone : /\ FileToBe[mesh] = mapWanted[mesh]
                                           /\ editor.step = "ready" =>
                                                 editor.map[mesh] = mapWanted[mesh]
          /\ editor.step # "ready" => puts = <<>>

LEMMA BareIsAMap == Bare \in Maps
BY DEF Bare, Maps

LEMMA EditorMoves ==
    ASSUME NEW m \in Maps, NEW h \in Seq(Maps), NEW k \in Nat, editor \in EditorShape,
           editor' = [editor EXCEPT !.map = m, !.hist = h, !.at = k], k <= Len(h)
    PROVE  /\ editor' \in EditorShape /\ editor'.at <= Len(editor'.hist)
           /\ editor'.map = m /\ editor'.step = editor.step
BY DEF EditorShape

LEMMA MapBegins == MapInit => MapInv
<1>1. <<>> \in Seq(Maps) /\ Len(<<>>) = 0
  BY EmptySeq
<1>2. Reset \in EditorShape /\ Reset.at = 0 /\ Reset.hist = <<>> /\ Reset.step = "opened"
  BY <1>1, BareIsAMap DEF Reset, EditorShape
<1>. QED
  <2>. SUFFICES ASSUME MapInit PROVE MapInv
    OBVIOUS
  <2>1. /\ file = Bare /\ mapWanted = Bare /\ puts = <<>> /\ editor = Reset /\ hasty = FALSE
        /\ met \subseteq Devices
    BY DEF MapInit
  <2>2. FileToBe = Bare /\ editor.step # "ready" /\ editor.at <= Len(editor.hist)
    BY <1>1, <1>2, <2>1 DEF FileToBe
  <2>. QED
    BY <1>1, <1>2, <2>1, <2>2, BareIsAMap DEF MapInv

(* Putting the map m on its way.                                           *)
LEMMA PuttingAMap ==
    ASSUME MapInv, NEW m \in Maps, PutsMap(m), file' = file
    PROVE  puts' \in Seq(Maps) /\ FileToBe' = m
<1>1. puts \in Seq(Maps) /\ puts' = Append(puts, m)
  BY DEF MapInv, PutsMap
<1>. QED
  BY <1>1, QueueGrows DEF FileToBe

(* What was shown is kept for undoing.                                     *)
LEMMA KeptIsHistory ==
    ASSUME MapInv
    PROVE  Kept \in Seq(Maps) /\ Len(Kept) = editor.at + 1
<1>1. /\ editor.hist \in Seq(Maps) /\ editor.at \in Nat /\ editor.at <= Len(editor.hist)
      /\ editor.map \in Maps /\ Len(editor.hist) \in Nat
  BY LenProperties DEF MapInv, EditorShape
<1>2. /\ SubSeq(editor.hist, 1, editor.at) \in Seq(Maps)
      /\ Len(SubSeq(editor.hist, 1, editor.at)) = editor.at
  BY <1>1
<1>. QED
  BY <1>1, <1>2, QueueGrows DEF Kept

(* A pick or an unbinding, which puts the map it makes.                    *)
LEMMA BindingKeeps ==
    ASSUME MapInv, NEW mesh \in Meshes, NEW d \in Devices \cup {Untagged},
           Binds(mesh, d), PutsMap([editor.map EXCEPT ![mesh] = d]), UNCHANGED <<file, met>>
    PROVE  MapInv'
<1>. DEFINE m == [editor.map EXCEPT ![mesh] = d]
<1>1. /\ editor \in EditorShape /\ editor.map \in Maps /\ mapWanted \in Maps /\ editor.at \in Nat
  BY DEF MapInv, EditorShape
<1>2. /\ m \in Maps /\ \A x \in Meshes : m[x] = IF x = mesh THEN d ELSE editor.map[x]
  BY <1>1 DEF Maps
<1>3. puts' \in Seq(Maps) /\ FileToBe' = m
  BY <1>2, PuttingAMap
<1>4. Kept \in Seq(Maps) /\ Len(Kept) = editor.at + 1
  BY KeptIsHistory
<1>5. /\ editor' = [editor EXCEPT !.map = m, !.hist = Kept, !.at = @ + 1]
      /\ mapWanted' = [mapWanted EXCEPT ![mesh] = d]
      /\ undone' = undone \ {mesh} /\ hasty' = (hasty \/ editor.step # "ready")
  BY DEF Binds
<1>. HIDE DEF m
<1>6. /\ editor' \in EditorShape /\ editor'.at <= Len(editor'.hist) /\ editor'.map = m
      /\ editor'.step = editor.step
  <2>1. editor' = [editor EXCEPT !.map = m, !.hist = Kept, !.at = editor.at + 1]
    BY <1>5
  <2>2. editor.at + 1 \in Nat /\ editor.at + 1 <= Len(Kept)
    BY <1>1, <1>4
  <2>. QED
    BY <1>1, <1>2, <1>4, <2>1, <2>2, EditorMoves, Zenon
<1>7. /\ mapWanted' \in Maps
      /\ \A x \in Meshes : mapWanted'[x] = IF x = mesh THEN d ELSE mapWanted[x]
  BY <1>1, <1>5 DEF Maps
<1>8. hasty' \in BOOLEAN
  BY <1>5
<1>9. ASSUME ~hasty', NEW x \in Meshes \ undone'
      PROVE  m[x] = mapWanted'[x]
  <2>1. ~hasty /\ editor.step = "ready"
    BY <1>5, <1>9
  <2>2. x # mesh => x \in Meshes \ undone
    BY <1>5, <1>9
  <2>3. x # mesh => editor.map[x] = mapWanted[x]
    BY <2>1, <2>2 DEF MapInv
  <2>. QED
    BY <1>2, <1>7, <2>3
<1>10. ~hasty' => editor'.step = "ready"
  BY <1>5, <1>6
<1>. QED
  BY <1>3, <1>6, <1>7, <1>8, <1>9, <1>10 DEF MapInv

LEMMA MapStep == MapInv /\ [MapNext]_mapVars => MapInv'
<1>. SUFFICES ASSUME MapInv, [MapNext]_mapVars PROVE MapInv'
  OBVIOUS
<1>1. /\ file \in Maps /\ mapWanted \in Maps /\ puts \in Seq(Maps) /\ met \subseteq Devices
      /\ editor \in EditorShape /\ editor.at <= Len(editor.hist) /\ hasty \in BOOLEAN
      /\ editor.map \in Maps /\ editor.hist \in Seq(Maps) /\ editor.at \in Nat
  BY DEF MapInv, EditorShape
<1>2. CASE AskForMap
  <2>1. /\ editor.step = "opened" /\ editor' = [editor EXCEPT !.step = "asked", !.seen = met]
        /\ UNCHANGED <<file, met, puts, mapWanted, undone, hasty>>
    BY <1>2 DEF AskForMap
  <2>2. /\ editor' \in EditorShape /\ editor'.at = editor.at /\ editor'.hist = editor.hist
        /\ editor'.step = "asked"
    BY <1>1, <2>1 DEF EditorShape
  <2>. QED
    BY <2>1, <2>2 DEF MapInv, FileToBe
<1>3. CASE MapArrives
  <2>1. editor.step = "asked" /\ UNCHANGED <<file, met, undone, hasty>>
    BY <1>3 DEF MapArrives
  <2>2. CASE file # Bare
    <3>1. editor' = [editor EXCEPT !.step = "ready", !.map = file] /\ UNCHANGED <<puts, mapWanted>>
      BY <1>3, <2>2 DEF MapArrives
    <3>2. /\ editor' \in EditorShape /\ editor'.at = editor.at /\ editor'.hist = editor.hist
          /\ editor'.step = "ready" /\ editor'.map = file
      BY <1>1, <3>1 DEF EditorShape
    <3>3. FileToBe' = FileToBe /\ (~hasty => FileToBe = file)
      BY <2>1, <3>1 DEF FileToBe, MapInv
    <3>. QED
      BY <2>1, <3>1, <3>2, <3>3 DEF MapInv
  <2>3. CASE file = Bare
    <3>1. PICK m \in Merged(editor.seen) :
             /\ editor' = [editor EXCEPT !.step = "ready", !.map = m] /\ mapWanted' = m
             /\ IF m # Bare THEN PutsMap(m) ELSE UNCHANGED puts
      BY <1>3, <2>3 DEF MapArrives
    <3>2. m \in Maps
      BY DEF Merged
    <3>3. /\ editor' \in EditorShape /\ editor'.at = editor.at /\ editor'.hist = editor.hist
          /\ editor'.step = "ready" /\ editor'.map = m
      BY <1>1, <3>1, <3>2 DEF EditorShape
    <3>4. puts' \in Seq(Maps) /\ (~hasty => FileToBe' = m)
      <4>1. CASE m # Bare
        BY <2>1, <3>1, <3>2, <4>1, PuttingAMap
      <4>2. CASE m = Bare
        BY <1>1, <2>1, <2>3, <3>1, <4>2 DEF MapInv, FileToBe
      <4>. QED
        BY <4>1, <4>2
    <3>. QED
      BY <2>1, <3>1, <3>2, <3>3, <3>4 DEF MapInv
  <2>. QED
    BY <2>2, <2>3
<1>4. CASE MapDoesNotArrive
  <2>1. /\ editor.step = "asked" /\ editor' = [editor EXCEPT !.step = "failed"]
        /\ UNCHANGED <<file, met, puts, mapWanted, undone, hasty>>
    BY <1>4 DEF MapDoesNotArrive
  <2>2. /\ editor' \in EditorShape /\ editor'.at = editor.at /\ editor'.hist = editor.hist
        /\ editor'.step = "failed"
    BY <1>1, <2>1 DEF EditorShape
  <2>. QED
    BY <2>1, <2>2 DEF MapInv, FileToBe
<1>5. CASE Pick
  BY <1>5, BindingKeeps DEF Pick, Edit
<1>6. CASE Unbind
  BY <1>6, BindingKeeps DEF Unbind, Edit
<1>7. CASE Undo
  <2>. DEFINE back == editor.hist[editor.at]
  <2>1. /\ editor.at > 0 /\ editor' = [editor EXCEPT !.map = back, !.at = @ - 1]
        /\ undone' = undone \cup {mesh \in Meshes : back[mesh] # editor.map[mesh]}
        /\ UNCHANGED <<file, met, puts, mapWanted, hasty>>
    BY <1>7 DEF Undo, Edit
  <2>2. back \in Maps
    BY <1>1, <2>1
  <2>. HIDE DEF back
  <2>3. /\ editor' \in EditorShape /\ editor'.at <= Len(editor'.hist) /\ editor'.map = back
        /\ editor'.step = editor.step
    <3>1. editor' = [editor EXCEPT !.map = back, !.hist = editor.hist, !.at = editor.at - 1]
      BY <1>1, <2>1 DEF EditorShape
    <3>2. editor.at - 1 \in Nat /\ editor.at - 1 <= Len(editor.hist)
      BY <1>1, <2>1, LenProperties
    <3>. QED
      BY <1>1, <2>2, <3>1, <3>2, EditorMoves, Zenon
  <2>4. FileToBe' = FileToBe
    BY <2>1 DEF FileToBe
  <2>5. \A mesh \in Meshes \ undone' : mesh \in Meshes \ undone /\ back[mesh] = editor.map[mesh]
    BY <2>1
  <2>. QED
    BY <1>1, <2>1, <2>3, <2>4, <2>5 DEF MapInv
<1>8. CASE SaveButton
  <2>1. /\ editor' = [editor EXCEPT !.hist = Kept, !.at = @ + 1] /\ PutsMap(editor.map)
        /\ mapWanted' = editor.map /\ undone' = {} /\ hasty' = (hasty \/ editor.step # "ready")
        /\ UNCHANGED <<file, met>>
    BY <1>8 DEF SaveButton, Edit
  <2>2. puts' \in Seq(Maps) /\ FileToBe' = editor.map
    BY <1>1, <2>1, PuttingAMap
  <2>3. /\ editor' \in EditorShape /\ editor'.at <= Len(editor'.hist) /\ editor'.map = editor.map
        /\ editor'.step = editor.step
    <3>1. editor' = [editor EXCEPT !.map = editor.map, !.hist = Kept, !.at = editor.at + 1]
      BY <1>1, <2>1 DEF EditorShape
    <3>2. editor.at + 1 \in Nat /\ Kept \in Seq(Maps) /\ editor.at + 1 <= Len(Kept)
      BY <1>1, KeptIsHistory
    <3>. QED
      BY <1>1, <3>1, <3>2, EditorMoves, Zenon
  <2>4. hasty' \in BOOLEAN /\ (~hasty' => editor'.step = "ready")
    BY <1>1, <2>1, <2>3
  <2>. QED
    BY <1>1, <2>1, <2>2, <2>3, <2>4 DEF MapInv
<1>9. CASE PutArrives
  <2>1. /\ puts # <<>> /\ file' = Head(puts) /\ puts' = Tail(puts)
        /\ UNCHANGED <<met, editor, mapWanted, undone, hasty>>
    BY <1>9 DEF PutArrives
  <2>2. file' \in Maps /\ puts' \in Seq(Maps) /\ FileToBe' = FileToBe
    BY <1>1, <2>1, QueueShrinks DEF FileToBe
  <2>. QED
    BY <2>1, <2>2 DEF MapInv
<1>10. CASE PutFails
  <2>1. /\ puts # <<>> /\ puts' = Tail(puts) /\ hasty' = TRUE
        /\ UNCHANGED <<file, met, editor, mapWanted>>
    BY <1>10 DEF PutFails
  <2>2. puts' \in Seq(Maps)
    BY <1>1, <2>1, QueueShrinks
  <2>. QED
    BY <1>1, <2>1, <2>2 DEF MapInv
<1>11. CASE ReopenPlan
  <2>1. puts = <<>> /\ editor' = Reset /\ UNCHANGED <<file, met, puts, mapWanted, undone, hasty>>
    BY <1>11 DEF ReopenPlan
  <2>2. /\ editor' \in EditorShape /\ editor'.at <= Len(editor'.hist) /\ editor'.step = "opened"
    <3>1. <<>> \in Seq(Maps) /\ Len(<<>>) = 0
      BY EmptySeq
    <3>. QED
      BY <2>1, <3>1, BareIsAMap DEF Reset, EditorShape
  <2>. QED
    BY <2>1, <2>2 DEF MapInv, FileToBe
<1>12. CASE Meets
  BY <1>12 DEF Meets, MapInv, FileToBe
<1>13. CASE PollMap \/ UNCHANGED mapVars
  BY <1>13 DEF PollMap, mapVars, MapInv, FileToBe
<1>. QED
  BY <1>2, <1>3, <1>4, <1>5, <1>6, <1>7, <1>8, <1>9, <1>10, <1>11, <1>12, <1>13 DEF MapNext

(* What was last picked or deleted for a mesh is in the file when all was  *)
(* sent, unless the map was not loaded, a save failed, or it was undone.   *)
THEOREM PicksReachTheFile == MapSpec => []PicksAreKept
<1>1. MapInv => PicksAreKept
  BY DEF MapInv, PicksAreKept, FileToBe
<1>. QED
  BY <1>1, MapBegins, MapStep, PTL DEF MapSpec

-----------------------------------------------------------------------------
(* The cards (Cards).  What a card's own state may be while it shows the   *)
(* state s: the value under the finger is the one it was moved to, and a   *)
(* card with a slider that is not held shows the value it is given.        *)
CardKinds == LightCards \cup MediaCards \cup {"nest", "number", "fan", "cover", "switch"}

ServiceNames == {"turn_on", "turn_off", "set", "up", "down", "playing", "paused", "heat", "cool",
                 "open", "closed", "off", "none"}
StateShape == [state : ServiceNames \cup {"on"}, level : Levels]
CallShape == [service : ServiceNames, level : Levels \cup {None}]
KnobShape == [grip : {"none", "card", "slider"}, moved : BOOLEAN, at : Levels, slid : BOOLEAN,
              timers : Int, hold : BOOLEAN, cut : BOOLEAN, own : BOOLEAN, local : Levels]

FingerFits(kind, k) ==
    /\ k \in KnobShape
    /\ k.grip = "slider" => kind \in Slidable
    /\ k.grip = "card" => kind \in Draggable
    /\ k.grip # "none" /\ k.moved /\ kind # "nest" => k.local = k.at
    /\ k.grip # "none" /\ k.moved /\ kind \in EveryMoveSends => k.own

KnobFits(kind, k, s) ==
    /\ FingerFits(kind, k)
    /\ kind \in Slidable /\ k.grip # "slider" /\ ~CardDrag(kind, k) /\ ~k.hold => k.local = Value(kind, s)

(* The calls a card makes.                                                 *)
CallFits(kind, c) ==
    /\ c \in CallShape
    /\ c.service = "set" => c.level \in Levels
    /\ kind \in LightCards => c.service \in {"turn_on", "turn_off"}
    /\ kind = "fan" => c.service \in {"turn_on", "turn_off", "set"}
    /\ kind = "nest" => c.service \in {"set", "heat", "cool", "off"}
    /\ kind = "cover" => c.service \in {"open", "closed"}

(* The thermostat and the garage door show what they asked for: their      *)
(* cards show what the server has, or will be told a new value, or have    *)
(* asked for what they show.                                               *)
Asking == {"nest", "cover"}

Differs(kind, s, t) == IF kind = "nest" THEN s.level # t.level ELSE s # t
Asks(kind, c) == kind = "cover" \/ c.service = "set"
Wants(kind, c) == IF kind = "cover" THEN IF c.service = "open" THEN 1 ELSE 0 ELSE c.level

WillLearn(p) == \E n \in DOMAIN events[p] : Differs(card[p], events[p][n], seen[p])
HasAsked(p) ==
    \E n \in DOMAIN calls[p] :
       /\ Asks(card[p], calls[p][n]) /\ Wants(card[p], calls[p][n]) = knob[p].local
       /\ \A m \in DOMAIN calls[p] : m > n => ~Asks(card[p], calls[p][m])

CardsShape ==
    /\ card \in Layouts /\ keeps \in BOOLEAN /\ entity \in StateShape
    /\ seen \in [Panels -> StateShape] /\ knob \in [Panels -> KnobShape]
    /\ calls \in [Panels -> Seq(CallShape)] /\ events \in [Panels -> Seq(StateShape)]
    /\ \A p \in Panels : \A n \in DOMAIN calls[p] : CallFits(card[p], calls[p][n])
    /\ wish \in [call : CallShape, by : Panels \cup {"none"}, alone : BOOLEAN]
    /\ cardSpent \in [gestures : Int, moves : Int, refusals : Int]
    /\ cardSpent.refusals <= MaxRefusals

KnobsInv == \A p \in Panels : KnobFits(card[p], knob[p], seen[p])

EchoInv ==
    \A p \in Panels : entity = IF events[p] = <<>> THEN seen[p] ELSE events[p][Len(events[p])]

WishInv ==
    wish.alone =>
       /\ wish.by \in Panels /\ CallFits(card[wish.by], wish.call)
       /\ wish.call.service \notin {"up", "down"}
       /\ \A q \in Panels \ {wish.by} : calls[q] = <<>>
       /\ IF calls[wish.by] = <<>> THEN AfterCall(wish.call, entity) = entity
          ELSE calls[wish.by][Len(calls[wish.by])] = wish.call

AskedFits(p) ==
    card[p] \in Asking /\ ~MayRefuse /\ knob[p].grip = "none"
    => WillLearn(p) \/ knob[p].local = Value(card[p], entity) \/ HasAsked(p)

AskedInv == \A p \in Panels : AskedFits(p)

CardsInv == CardsShape /\ KnobsInv /\ EchoInv /\ WishInv /\ AskedInv

(* The cards of a layout are of one domain.                                *)
LEMMA OneDomain ==
    ASSUME card \in Layouts
    PROVE  /\ card \in [Panels -> CardKinds]
           /\ \A p, q \in Panels : /\ card[p] \in {"nest", "number", "fan", "cover"} => card[q] = card[p]
                                   /\ card[p] \in LightCards => card[q] \in LightCards
<1>1. PICK kinds \in {LightCards, MediaCards, {"nest"}, {"number"}, {"fan"}, {"cover"}, {"switch"}} :
         card \in [Panels -> kinds]
  BY CardsAssumption
<1>2. kinds \subseteq CardKinds
  BY DEF CardKinds, LightCards, MediaCards
<1>3. card \in [Panels -> CardKinds]
  BY <1>1, <1>2
<1>4. \A x, y \in kinds : /\ x \in {"nest", "number", "fan", "cover"} => x = y
                          /\ x \in LightCards => y \in LightCards
  BY DEF LightCards, MediaCards
<1>. QED
  BY <1>1, <1>3, <1>4

LEMMA WhichHandler ==
    ASSUME card \in Layouts, NEW p \in Panels
    PROVE  /\ AnyOf({"fan"}) <=> card[p] = "fan"
           /\ AnyOf({"nest"}) <=> card[p] = "nest"
           /\ AnyOf(LightCards) <=> card[p] \in LightCards
BY OneDomain DEF AnyOf

(* States, and what changes one of their parts.                            *)
LEMMA StateParts ==
    ASSUME NEW e \in StateShape, NEW x \in ServiceNames \cup {"on"}, NEW v \in Levels
    PROVE  /\ e.state \in ServiceNames \cup {"on"} /\ e.level \in Levels
           /\ LET n == [e EXCEPT !.state = x]
              IN  n \in StateShape /\ n.state = x /\ n.level = e.level
           /\ LET n == [e EXCEPT !.level = v]
              IN  n \in StateShape /\ n.state = e.state /\ n.level = v
           /\ LET n == [state |-> x, level |-> v]
              IN  n \in StateShape /\ n.state = x /\ n.level = v
BY DEF StateShape

LEMMA StatesAreParts ==
    ASSUME NEW e \in StateShape, NEW f \in StateShape, e.state = f.state, e.level = f.level
    PROVE  e = f
BY DEF StateShape

LEMMA CallParts ==
    ASSUME NEW c \in CallShape
    PROVE  /\ c.service \in ServiceNames /\ (c.level # None => c.level \in Levels)
           /\ {"on", "off"} \subseteq ServiceNames \cup {"on"}
BY DEF CallShape, ServiceNames

(* What a handler leaves is a state, and a second time it leaves the same. *)
LEMMA SimpleLeaves ==
    ASSUME NEW c \in CallShape, c.service = "set" => c.level \in Levels, NEW e \in StateShape
    PROVE  /\ SimpleAfter(c, e) \in StateShape
           /\ SimpleAfter(c, SimpleAfter(c, e)) = SimpleAfter(c, e)
<1>1. CASE c.service = "turn_on"
  <2>. DEFINE v == IF c.level = None THEN e.level ELSE c.level
  <2>1. \A s : SimpleAfter(c, s)
                  = [state |-> "on", level |-> IF c.level = None THEN s.level ELSE c.level]
    BY <1>1 DEF SimpleAfter
  <2>2. v \in Levels
    BY CallParts DEF StateShape
  <2>3. SimpleAfter(c, e) = [state |-> "on", level |-> v]
    BY <2>1
  <2>4. SimpleAfter(c, [state |-> "on", level |-> v]) = [state |-> "on", level |-> v]
    BY <2>1
  <2>. HIDE DEF v
  <2>. QED
    BY <2>2, <2>3, <2>4, CallParts DEF StateShape
<1>2. CASE c.service = "turn_off"
  <2>1. \A s : SimpleAfter(c, s) = [s EXCEPT !.state = "off"]
    BY <1>2 DEF SimpleAfter
  <2>. QED
    BY <2>1, CallParts DEF StateShape
<1>3. CASE c.service = "set"
  <2>1. \A s : SimpleAfter(c, s) = [s EXCEPT !.level = c.level]
    BY <1>3 DEF SimpleAfter
  <2>. QED
    BY <1>3, <2>1, CallParts DEF StateShape
<1>4. CASE c.service \notin {"turn_on", "turn_off", "set"}
  <2>1. \A s : SimpleAfter(c, s) = [s EXCEPT !.state = c.service]
    BY <1>4 DEF SimpleAfter
  <2>. QED
    BY <2>1, CallParts DEF StateShape
<1>. QED
  BY <1>1, <1>2, <1>3, <1>4

LEMMA MediaLeaves ==
    ASSUME NEW c \in CallShape, NEW e \in StateShape
    PROVE  /\ MediaAfter(c, e) \in StateShape
           /\ c.service \notin {"up", "down"} => MediaAfter(c, MediaAfter(c, e)) = MediaAfter(c, e)
<1>1. CASE c.service = "up"
  <2>1. MediaAfter(c, e) = [e EXCEPT !.level = IF e.level = MaxLevel THEN e.level ELSE e.level + 1]
    BY <1>1 DEF MediaAfter
  <2>2. (IF e.level = MaxLevel THEN e.level ELSE e.level + 1) \in Levels
    BY CardsAssumption DEF Levels, StateShape
  <2>. QED
    BY <1>1, <2>1, <2>2 DEF StateShape
<1>2. CASE c.service = "down"
  <2>1. MediaAfter(c, e) = [e EXCEPT !.level = IF e.level = 0 THEN 0 ELSE e.level - 1]
    BY <1>2 DEF MediaAfter
  <2>2. (IF e.level = 0 THEN 0 ELSE e.level - 1) \in Levels
    BY CardsAssumption DEF Levels, StateShape
  <2>. QED
    BY <1>2, <2>1, <2>2 DEF StateShape
<1>3. CASE c.service \notin {"up", "down"}
  <2>1. \A s : MediaAfter(c, s) = [s EXCEPT !.state = c.service]
    BY <1>3 DEF MediaAfter
  <2>. QED
    BY <2>1, CallParts DEF StateShape
<1>. QED
  BY <1>1, <1>2, <1>3

LEMMA FanLeaves ==
    ASSUME NEW c \in CallShape, c.service = "set" => c.level \in Levels, NEW e \in StateShape,
           c.service \in {"turn_on", "turn_off", "set"}
    PROVE  /\ FanAfter(c, e) \in StateShape
           /\ FanAfter(c, FanAfter(c, e)) = FanAfter(c, e)
<1>1. CASE c.service = "turn_on"
  <2>. DEFINE v == IF e.level = 0 THEN 1 ELSE e.level
  <2>1. \A s : FanAfter(c, s) = [state |-> "on", level |-> IF s.level = 0 THEN 1 ELSE s.level]
    BY <1>1 DEF FanAfter
  <2>2. v \in Levels \ {0}
    BY CardsAssumption DEF Levels, StateShape
  <2>3. FanAfter(c, e) = [state |-> "on", level |-> v]
    BY <2>1
  <2>. HIDE DEF v
  <2>4. FanAfter(c, [state |-> "on", level |-> v]) = [state |-> "on", level |-> v]
    BY <2>1, <2>2
  <2>. QED
    BY <2>2, <2>3, <2>4, CallParts DEF StateShape
<1>2. CASE c.service = "turn_off"
  <2>1. \A s : FanAfter(c, s) = [s EXCEPT !.state = "off"]
    BY <1>2 DEF FanAfter
  <2>. QED
    BY <2>1, CallParts DEF StateShape
<1>3. CASE c.service = "set"
  <2>1. \A s : FanAfter(c, s) = [state |-> IF c.level > 0 THEN "on" ELSE "off", level |-> c.level]
    BY <1>3 DEF FanAfter
  <2>. QED
    BY <1>3, <2>1, CallParts DEF StateShape
<1>. QED
  BY <1>1, <1>2, <1>3

LEMMA CallLeaves ==
    ASSUME card \in Layouts, keeps \in BOOLEAN, NEW p \in Panels, NEW c, CallFits(card[p], c),
           NEW e \in StateShape
    PROVE  /\ AfterCall(c, e) \in StateShape
           /\ c.service \notin {"up", "down"} => AfterCall(c, AfterCall(c, e)) = AfterCall(c, e)
<1>1. /\ c \in CallShape
      /\ c.service = "set" => c.level \in Levels
      /\ c.service \in ServiceNames
  BY CallParts DEF CallFits
<1>2. CASE card[p] = "fan"
  <2>1. c.service \in {"turn_on", "turn_off", "set"}
    BY <1>2 DEF CallFits
  <2>2. AnyOf({"fan"}) /\ ~AnyOf({"nest"}) /\ ~AnyOf(LightCards)
    BY <1>2, WhichHandler DEF LightCards
  <2>3. \A s : AfterCall(c, s) = FanAfter(c, s)
    BY <2>1, <2>2 DEF AfterCall
  <2>. QED
    BY <1>1, <2>1, <2>3, FanLeaves
<1>3. CASE card[p] = "nest"
  <2>1. c.service \in {"set", "heat", "cool", "off"}
    BY <1>3 DEF CallFits
  <2>2. ~AnyOf({"fan"}) /\ AnyOf({"nest"}) /\ ~AnyOf(LightCards)
    BY <1>3, WhichHandler DEF LightCards
  <2>3. \A s : AfterCall(c, s) = IF c.service = "set" THEN SetpointAfter(c, s) ELSE ModeAfter(c, s)
    BY <2>1, <2>2 DEF AfterCall
  <2>4. CASE c.service = "set"
    <3>1. \A s : AfterCall(c, s) = [s EXCEPT !.level = c.level]
      BY <2>3, <2>4 DEF SetpointAfter
    <3>. QED
      BY <1>1, <2>4, <3>1 DEF StateShape
  <2>5. CASE c.service # "set"
    <3>1. \A s : AfterCall(c, s) = [s EXCEPT !.state = c.service]
      BY <2>3, <2>5 DEF ModeAfter
    <3>. QED
      BY <1>1, <3>1 DEF StateShape
  <2>. QED
    BY <2>4, <2>5
<1>4. CASE card[p] \in LightCards
  <2>1. c.service \in {"turn_on", "turn_off"}
    BY <1>4 DEF CallFits
  <2>2. ~AnyOf({"fan"}) /\ ~AnyOf({"nest"}) /\ AnyOf(LightCards)
    BY <1>4, WhichHandler DEF LightCards
  <2>3. CASE keeps
    <3>1. \A s : AfterCall(c, s) = SimpleAfter(c, s)
      BY <2>1, <2>2, <2>3 DEF AfterCall
    <3>. QED
      BY <1>1, <3>1, SimpleLeaves
  <2>4. CASE ~keeps
    <3>1. \A s : AfterCall(c, s) = IF c.service = "turn_off" THEN [state |-> "off", level |-> 0]
                                   ELSE SimpleAfter(c, s)
      BY <2>1, <2>2, <2>4 DEF AfterCall, LightAfter
    <3>2. [state |-> "off", level |-> 0] \in StateShape
      BY <1>1, CallParts, CardsAssumption DEF StateShape, Levels
    <3>. QED
      BY <1>1, <3>1, <3>2, SimpleLeaves
  <2>. QED
    BY <2>3, <2>4
<1>5. CASE card[p] \notin LightCards \cup {"fan", "nest"}
  <2>1. ~AnyOf({"fan"}) /\ ~AnyOf({"nest"}) /\ ~AnyOf(LightCards)
    BY <1>5, WhichHandler
  <2>2. CASE c.service \in {"up", "down", "playing", "paused"}
    <3>1. \A s : AfterCall(c, s) = MediaAfter(c, s)
      BY <2>1, <2>2 DEF AfterCall
    <3>. QED
      BY <1>1, <3>1, MediaLeaves
  <2>3. CASE c.service \notin {"up", "down", "playing", "paused"}
    <3>1. \A s : AfterCall(c, s) = SimpleAfter(c, s)
      BY <2>1, <2>3 DEF AfterCall
    <3>. QED
      BY <1>1, <3>1, SimpleLeaves
  <2>. QED
    BY <2>2, <2>3
<1>. QED
  BY <1>2, <1>3, <1>4, <1>5

(* A call that asks for what a card shows makes it so; another leaves it.  *)
LEMMA AskingMakes ==
    ASSUME card \in Layouts, NEW p \in Panels, NEW c, CallFits(card[p], c), NEW e \in StateShape,
           card[p] \in Asking
    PROVE  /\ Asks(card[p], c) => Value(card[p], AfterCall(c, e)) = Wants(card[p], c)
           /\ ~Asks(card[p], c) => Value(card[p], AfterCall(c, e)) = Value(card[p], e)
<1>1. CASE card[p] = "nest"
  <2>1. c.service \in {"set", "heat", "cool", "off"}
    BY <1>1 DEF CallFits
  <2>2. ~AnyOf({"fan"}) /\ AnyOf({"nest"}) /\ ~AnyOf(LightCards)
    BY <1>1, WhichHandler DEF LightCards
  <2>3. AfterCall(c, e) = IF c.service = "set" THEN SetpointAfter(c, e) ELSE ModeAfter(c, e)
    BY <2>1, <2>2 DEF AfterCall
  <2>. QED
    BY <1>1, <2>3 DEF SetpointAfter, ModeAfter, StateShape, Asks, Wants, Value
<1>2. CASE card[p] = "cover"
  <2>1. c.service \in {"open", "closed"}
    BY <1>2 DEF CallFits
  <2>2. ~AnyOf({"fan"}) /\ ~AnyOf({"nest"}) /\ ~AnyOf(LightCards)
    BY <1>2, WhichHandler DEF LightCards
  <2>3. AfterCall(c, e) = SimpleAfter(c, e)
    BY <2>1, <2>2 DEF AfterCall
  <2>4. AfterCall(c, e).state = c.service
    BY <2>1, <2>3 DEF SimpleAfter, StateShape
  <2>. QED
    BY <1>2, <2>1, <2>4 DEF Value, Wants, Asks, On
<1>. QED
  BY <1>1, <1>2 DEF Asking

(* A finger on a card, and a card that follows its entity.                 *)
LEMMA ValueIsLevel ==
    ASSUME NEW kind, NEW s \in StateShape
    PROVE  Value(kind, s) \in Levels /\ (kind \notin {"tile", "cover"} => Value(kind, s) = s.level)
<1>1. 0 \in Levels /\ 1 \in Levels /\ s.level \in Levels
  BY CardsAssumption DEF StateShape, Levels
<1>2. CASE kind \in {"tile", "cover"}
  BY <1>1, <1>2 DEF Value
<1>3. CASE kind \notin {"tile", "cover"}
  BY <1>1, <1>3 DEF Value
<1>. QED
  BY <1>2, <1>3

LEMMA FollowedFits ==
    ASSUME NEW kind \in CardKinds, NEW k, FingerFits(kind, k), NEW s \in StateShape,
           NEW changed \in BOOLEAN
    PROVE  KnobFits(kind, Followed(kind, k, s, changed), s)
<1>. DEFINE follows == CASE kind \in {"nest", "cover"} -> changed
                         [] kind \in EveryMoveSends -> changed /\ k.grip = "none"
                         [] OTHER -> k.grip # "slider" /\ ~CardDrag(kind, k) /\ ~k.hold
            local == IF follows THEN Value(kind, s) ELSE k.local
            own == kind \in EveryMoveSends /\ k.grip # "none"
            slid == k.slid /\ ~(changed /\ On(s) /\ ~CardDrag(kind, k))
            f == [k EXCEPT !.local = local, !.own = own, !.slid = slid]
<1>1. f = Followed(kind, k, s, changed)
  BY DEF Followed
<1>2. /\ k \in KnobShape
      /\ k.grip = "slider" => kind \in Slidable
      /\ k.grip = "card" => kind \in Draggable
      /\ k.grip # "none" /\ k.moved /\ kind # "nest" => k.local = k.at
  BY DEF FingerFits
<1>3. Value(kind, s) \in Levels
  BY ValueIsLevel
<1>4. local \in Levels /\ slid \in BOOLEAN /\ own \in BOOLEAN
  BY <1>2, <1>3 DEF KnobShape
<1>5. kind \in Slidable => follows = (k.grip # "slider" /\ ~CardDrag(kind, k) /\ ~k.hold)
  BY DEF Slidable, EveryMoveSends
<1>6. k.grip # "none" /\ k.moved /\ kind # "nest" => ~follows
  <2>. SUFFICES ASSUME k.grip # "none", k.moved, kind # "nest" PROVE ~follows
    OBVIOUS
  <2>1. kind \in Slidable \cup Draggable
    BY <1>2 DEF KnobShape
  <2>2. kind # "cover"
    BY <2>1 DEF Slidable, Draggable
  <2>3. CASE kind \in EveryMoveSends
    BY <2>2, <2>3 DEF EveryMoveSends
  <2>4. CASE kind \notin EveryMoveSends
    <3>1. k.grip = "slider" \/ CardDrag(kind, k)
      BY <1>2, <2>4 DEF CardDrag, KnobShape
    <3>. QED
      BY <2>2, <2>4, <3>1
  <2>. QED
    BY <2>3, <2>4
<1>. HIDE DEF follows, slid
<1>7. /\ f \in KnobShape /\ f.grip = k.grip /\ f.moved = k.moved /\ f.at = k.at /\ f.hold = k.hold
      /\ f.local = local /\ f.own = own
  BY <1>2, <1>4 DEF KnobShape
<1>8. kind \in Slidable => CardDrag(kind, f) = CardDrag(kind, k)
  BY <1>7 DEF CardDrag, EveryMoveSends, Slidable
<1>. HIDE DEF f
<1>. QED
  BY <1>1, <1>2, <1>5, <1>6, <1>7, <1>8 DEF KnobFits, FingerFits

LEMMA AskingFollows ==
    ASSUME NEW kind \in Asking, NEW k \in KnobShape, NEW s \in StateShape, NEW changed \in BOOLEAN
    PROVE  LET f == Followed(kind, k, s, changed)
           IN  f.grip = k.grip /\ f.local = IF changed THEN Value(kind, s) ELSE k.local
<1>1. k.grip = Followed(kind, k, s, changed).grip
  BY DEF Followed, KnobShape
<1>2. kind \in {"nest", "cover"}
  BY DEF Asking
<1>3. Followed(kind, k, s, changed).local = IF changed THEN Value(kind, s) ELSE k.local
  <2>1. CASE kind = "nest"
    BY <2>1 DEF Followed, KnobShape, EveryMoveSends
  <2>2. CASE kind = "cover"
    BY <2>2 DEF Followed, KnobShape, EveryMoveSends
  <2>. QED
    BY <1>2, <2>1, <2>2
<1>. QED
  BY <1>1, <1>3

(* One card's own state changes, as it should.                             *)
LEMMA KnobTurns ==
    ASSUME CardsInv, NEW p \in Panels, NEW k, knob' = [knob EXCEPT ![p] = k],
           UNCHANGED <<card, seen>>, KnobFits(card[p], k, seen[p])
    PROVE  KnobsInv' /\ knob' \in [Panels -> KnobShape]
<1>1. knob \in [Panels -> KnobShape] /\ k \in KnobShape
  BY DEF CardsInv, CardsShape, KnobFits, FingerFits
<1>. QED
  BY <1>1 DEF CardsInv, KnobsInv

(* A call goes out that fits the card.                                     *)
LEMMA CallGoesOut ==
    ASSUME CardsInv, NEW p \in Panels, NEW c, CallFits(card[p], c), Sends(p, c),
           UNCHANGED <<card, entity, keeps, seen, events>>
    PROVE  /\ calls' \in [Panels -> Seq(CallShape)] /\ EchoInv' /\ WishInv'
           /\ \A q \in Panels : \A n \in DOMAIN calls'[q] : CallFits(card[q], calls'[q][n])
           /\ wish' \in [call : CallShape, by : Panels \cup {"none"}, alone : BOOLEAN]
           /\ Asks(card[p], c) /\ Wants(card[p], c) = knob'[p].local => HasAsked(p)'
           /\ ~Asks(card[p], c) /\ knob' = knob /\ HasAsked(p) => HasAsked(p)'
           /\ \A q \in Panels \ {p} : calls'[q] = calls[q]
<1>1. /\ calls \in [Panels -> Seq(CallShape)] /\ c \in CallShape /\ calls[p] \in Seq(CallShape)
      /\ \A q \in Panels : \A n \in DOMAIN calls[q] : CallFits(card[q], calls[q][n])
  BY DEF CardsInv, CardsShape, CallFits
<1>2. /\ calls' = [calls EXCEPT ![p] = Append(calls[p], c)]
      /\ wish' = [call |-> c, by |-> p,
                  alone |-> c.service \notin {"up", "down"} /\ \A q \in Panels \ {p} : ~Busy(q)]
  BY DEF Sends
<1>. DEFINE s == Append(calls[p], c)
<1>3. /\ s \in Seq(CallShape) /\ s # <<>> /\ s[Len(s)] = c /\ Len(s) = Len(calls[p]) + 1
      /\ \A i \in 1 .. Len(calls[p]) : s[i] = calls[p][i]
  BY <1>1, QueueGrows
<1>4. /\ Len(calls[p]) \in Nat /\ DOMAIN calls[p] = 1 .. Len(calls[p]) /\ DOMAIN s = 1 .. Len(s)
  BY <1>1, <1>3, LenProperties
<1>5. calls'[p] = s /\ (\A q \in Panels \ {p} : calls'[q] = calls[q])
      /\ calls' \in [Panels -> Seq(CallShape)]
  BY <1>1, <1>2, <1>3
<1>. HIDE DEF s
<1>6. \A n \in DOMAIN s : (n \in DOMAIN calls[p] /\ s[n] = calls[p][n]) \/ n = Len(s)
  BY <1>3, <1>4
<1>7. \A n \in DOMAIN s : CallFits(card[p], s[n])
  BY <1>1, <1>3, <1>6
<1>8. \A q \in Panels : \A n \in DOMAIN calls'[q] : CallFits(card[q], calls'[q][n])
  BY <1>1, <1>5, <1>7
<1>9. EchoInv'
  BY DEF CardsInv, EchoInv
<1>10. wish' \in [call : CallShape, by : Panels \cup {"none"}, alone : BOOLEAN]
  BY <1>1, <1>2
<1>11. WishInv'
  <2>. SUFFICES ASSUME wish'.alone PROVE WishInv'
    BY DEF WishInv
  <2>1. wish'.call = c /\ wish'.by = p /\ c.service \notin {"up", "down"}
        /\ \A q \in Panels \ {p} : ~Busy(q)
    BY <1>2
  <2>2. \A q \in Panels \ {p} : calls'[q] = <<>>
    BY <1>5, <2>1 DEF Busy
  <2>. QED
    BY <1>3, <1>5, <2>1, <2>2 DEF WishInv
<1>12. ASSUME Asks(card[p], c), Wants(card[p], c) = knob'[p].local
       PROVE  HasAsked(p)'
  <2>1. Len(s) \in DOMAIN calls'[p] /\ calls'[p][Len(s)] = c
        /\ \A m \in DOMAIN calls'[p] : ~(m > Len(s))
    BY <1>3, <1>4, <1>5
  <2>. QED
    BY <1>12, <2>1 DEF HasAsked
<1>13. ASSUME ~Asks(card[p], c), knob' = knob, HasAsked(p)
       PROVE  HasAsked(p)'
  <2>1. PICK n \in DOMAIN calls[p] :
           /\ Asks(card[p], calls[p][n]) /\ Wants(card[p], calls[p][n]) = knob[p].local
           /\ \A m \in DOMAIN calls[p] : m > n => ~Asks(card[p], calls[p][m])
    BY <1>13 DEF HasAsked
  <2>2. n \in DOMAIN s /\ s[n] = calls[p][n]
    BY <1>3, <1>4
  <2>3. \A m \in DOMAIN s : m > n => ~Asks(card[p], s[m])
    BY <1>3, <1>6, <1>13, <2>1
  <2>. QED
    BY <1>5, <1>13, <2>1, <2>2, <2>3 DEF HasAsked
<1>. QED
  BY <1>5, <1>8, <1>9, <1>10, <1>11, <1>12, <1>13

(* What is left of the bounds.                                             *)
LEMMA Spends ==
    ASSUME CardsInv, NEW what \in {"gestures", "moves", "refusals"},
           Spend(what) \/ UNCHANGED cardSpent
    PROVE  /\ cardSpent' \in [gestures : Int, moves : Int, refusals : Int]
           /\ cardSpent'.refusals <= MaxRefusals /\ (MayRefuse => MayRefuse')
           /\ what = "refusals" /\ Spend(what) => MayRefuse'
<1>1. /\ cardSpent \in [gestures : Int, moves : Int, refusals : Int]
      /\ cardSpent.refusals <= MaxRefusals /\ MaxRefusals \in Nat
  BY CardsAssumption DEF CardsInv, CardsShape
<1>2. CASE UNCHANGED cardSpent /\ ~Spend(what)
  BY <1>1, <1>2 DEF MayRefuse
<1>3. CASE Spend(what) /\ what = "gestures"
  BY <1>1, <1>3 DEF Spend, MayRefuse
<1>4. CASE Spend(what) /\ what = "moves"
  BY <1>1, <1>4 DEF Spend, MayRefuse
<1>5. CASE Spend(what) /\ what = "refusals"
  BY <1>1, <1>5 DEF Spend, MayRefuse
<1>. QED
  BY <1>2, <1>3, <1>4, <1>5

(* What panel p does leaves the other thermostats and doors as they are.   *)
LEMMA OthersAsked ==
    ASSUME CardsInv, NEW p \in Panels, AskedFits(p)', UNCHANGED <<card, seen, events, entity>>,
           \A q \in Panels \ {p} : knob'[q] = knob[q] /\ calls'[q] = calls[q],
           MayRefuse => MayRefuse'
    PROVE  AskedInv'
<1>1. ASSUME NEW q \in Panels \ {p}
      PROVE  AskedFits(q)'
  <2>1. AskedFits(q) /\ knob'[q] = knob[q] /\ calls'[q] = calls[q]
    BY DEF CardsInv, AskedInv
  <2>. QED
    BY <2>1 DEF AskedFits, WillLearn, HasAsked, Differs
<1>. QED
  BY <1>1 DEF AskedInv

(* A step that asks the server for nothing.                                *)
LEMMA QuietKnob ==
    ASSUME CardsInv, NEW p \in Panels, NEW k, knob' = [knob EXCEPT ![p] = k],
           KnobFits(card[p], k, seen[p]), UNCHANGED <<card, entity, keeps, seen, events, calls>>,
           wish' = wish \/ wish' = [wish EXCEPT !.alone = wish.alone /\ wish.by = p],
           NEW what \in {"gestures", "moves", "refusals"}, Spend(what) \/ UNCHANGED cardSpent,
           card[p] \in Asking => k.grip # "none" \/ (k.grip = knob[p].grip /\ k.local = knob[p].local)
    PROVE  CardsInv'
<1>1. KnobsInv' /\ knob' \in [Panels -> KnobShape]
  BY KnobTurns
<1>2. /\ cardSpent' \in [gestures : Int, moves : Int, refusals : Int]
      /\ cardSpent'.refusals <= MaxRefusals /\ (MayRefuse => MayRefuse')
  BY Spends
<1>3. knob'[p] = k /\ \A q \in Panels \ {p} : knob'[q] = knob[q]
  BY DEF CardsInv, CardsShape
<1>4. AskedFits(p)'
  <2>. SUFFICES ASSUME card[p] \in Asking, ~MayRefuse', k.grip = "none"
                PROVE  (WillLearn(p) \/ knob[p].local = Value(card[p], entity) \/ HasAsked(p))'
    BY <1>3 DEF AskedFits
  <2>1. knob[p].grip = "none" /\ k.local = knob[p].local /\ ~MayRefuse
    BY <1>2
  <2>2. AskedFits(p)
    BY DEF CardsInv, AskedInv
  <2>. QED
    BY <1>3, <2>1, <2>2 DEF AskedFits, WillLearn, HasAsked
<1>5. AskedInv'
  BY <1>2, <1>3, <1>4, OthersAsked
<1>6. EchoInv'
  BY DEF CardsInv, EchoInv
<1>7. /\ wish' \in [call : CallShape, by : Panels \cup {"none"}, alone : BOOLEAN]
      /\ wish'.call = wish.call /\ wish'.by = wish.by /\ (wish'.alone => wish.alone)
  <2>1. wish \in [call : CallShape, by : Panels \cup {"none"}, alone : BOOLEAN]
    BY DEF CardsInv, CardsShape
  <2>2. (wish.alone /\ wish.by = p) \in BOOLEAN
    OBVIOUS
  <2>3. CASE wish' = wish
    BY <2>1, <2>3
  <2>4. CASE wish' = [wish EXCEPT !.alone = wish.alone /\ wish.by = p]
    BY <2>1, <2>2, <2>4
  <2>. QED
    BY <2>3, <2>4
<1>8. WishInv'
  BY <1>7 DEF CardsInv, WishInv, AfterCall, AnyOf, SimpleAfter, LightAfter
<1>9. CardsShape'
  BY <1>1, <1>2, <1>7 DEF CardsInv, CardsShape
<1>. QED
  BY <1>1, <1>5, <1>6, <1>8, <1>9 DEF CardsInv

(* A step that asks for something.                                         *)
LEMMA AskingKnob ==
    ASSUME CardsInv, NEW p \in Panels, NEW k, knob' = [knob EXCEPT ![p] = k],
           KnobFits(card[p], k, seen[p]), UNCHANGED <<card, entity, keeps, seen, events>>,
           NEW c, CallFits(card[p], c), Sends(p, c),
           NEW what \in {"gestures", "moves", "refusals"}, Spend(what) \/ UNCHANGED cardSpent,
           card[p] \in Asking => \/ k.grip # "none"
                                 \/ Asks(card[p], c) /\ Wants(card[p], c) = k.local
                                 \/ ~Asks(card[p], c) /\ knob' = knob
    PROVE  CardsInv'
<1>1. KnobsInv' /\ knob' \in [Panels -> KnobShape]
  BY KnobTurns
<1>2. /\ cardSpent' \in [gestures : Int, moves : Int, refusals : Int]
      /\ cardSpent'.refusals <= MaxRefusals /\ (MayRefuse => MayRefuse')
  BY Spends
<1>3. knob'[p] = k /\ \A q \in Panels \ {p} : knob'[q] = knob[q]
  BY DEF CardsInv, CardsShape
<1>4. /\ calls' \in [Panels -> Seq(CallShape)] /\ EchoInv' /\ WishInv'
      /\ \A q \in Panels : \A n \in DOMAIN calls'[q] : CallFits(card[q], calls'[q][n])
      /\ wish' \in [call : CallShape, by : Panels \cup {"none"}, alone : BOOLEAN]
      /\ Asks(card[p], c) /\ Wants(card[p], c) = knob'[p].local => HasAsked(p)'
      /\ ~Asks(card[p], c) /\ knob' = knob /\ HasAsked(p) => HasAsked(p)'
      /\ \A q \in Panels \ {p} : calls'[q] = calls[q]
  BY CallGoesOut
<1>5. AskedFits(p)'
  <2>. SUFFICES ASSUME card[p] \in Asking, ~MayRefuse', k.grip = "none"
                PROVE  (WillLearn(p) \/ knob[p].local = Value(card[p], entity) \/ HasAsked(p))'
    BY <1>3 DEF AskedFits
  <2>1. CASE Asks(card[p], c) /\ Wants(card[p], c) = k.local
    BY <1>3, <1>4, <2>1
  <2>2. CASE ~Asks(card[p], c) /\ knob' = knob
    <3>1. AskedFits(p) /\ ~MayRefuse /\ knob[p].grip = "none"
      BY <1>2, <1>3, <2>2 DEF CardsInv, AskedInv
    <3>2. WillLearn(p)' = WillLearn(p) /\ knob'[p].local = knob[p].local
      BY <2>2 DEF WillLearn
    <3>. QED
      BY <1>4, <2>2, <3>1, <3>2 DEF AskedFits
  <2>. QED
    BY <2>1, <2>2
<1>6. AskedInv'
  BY <1>2, <1>3, <1>4, <1>5, OthersAsked
<1>7. CardsShape'
  BY <1>1, <1>2, <1>4 DEF CardsInv, CardsShape
<1>. QED
  BY <1>1, <1>4, <1>6, <1>7 DEF CardsInv

-----------------------------------------------------------------------------
(* The finger.                                                             *)
LEMMA KnobParts ==
    ASSUME CardsInv, NEW p \in Panels
    PROVE  /\ card[p] \in CardKinds /\ knob[p] \in KnobShape /\ seen[p] \in StateShape
           /\ KnobFits(card[p], knob[p], seen[p]) /\ FingerFits(card[p], knob[p])
           /\ knob[p].local \in Levels /\ knob[p].at \in Levels
BY OneDomain DEF CardsInv, CardsShape, KnobsInv, KnobFits, KnobShape

LEMMA SettingFits ==
    ASSUME NEW p \in Panels, NEW v \in Levels, card[p] \in Draggable \cup Slidable
    PROVE  CallFits(card[p], Setting(card[p], v))
<1>1. MaxLevel \in Nat \ {0}
  BY CardsAssumption
<1>2. CASE card[p] \in LightCards /\ v > 0
  <2>1. Setting(card[p], v) = Call("turn_on", v)
    BY <1>2 DEF Setting
  <2>. QED
    BY <1>2, <2>1 DEF CallFits, Call, CallShape, LightCards, ServiceNames
<1>3. CASE card[p] \in LightCards /\ ~(v > 0)
  <2>1. Setting(card[p], v) = Call("turn_off", None)
    BY <1>3 DEF Setting
  <2>. QED
    BY <1>3, <2>1 DEF CallFits, Call, CallShape, LightCards, ServiceNames
<1>4. CASE card[p] \notin LightCards
  <2>1. Setting(card[p], v) = Call("set", v)
    BY <1>4 DEF Setting
  <2>2. card[p] # "cover"
    BY DEF Draggable, Slidable
  <2>. QED
    BY <1>4, <2>1, <2>2 DEF CallFits, Call, CallShape, ServiceNames
<1>. QED
  BY <1>2, <1>3, <1>4

LEMMA TapFits ==
    ASSUME NEW p \in Panels, card[p] \notin {"cover", "nest"}
    PROVE  /\ CallFits(card[p], Toggling(p)) /\ CallFits(card[p], Call("turn_on", MaxLevel))
           /\ card[p] \notin LightCards \cup {"fan"} => /\ CallFits(card[p], Call("playing", None))
                                                       /\ CallFits(card[p], Call("paused", None))
                                                       /\ CallFits(card[p], Call("up", None))
                                                       /\ CallFits(card[p], Call("down", None))
<1>1. MaxLevel \in Levels
  BY CardsAssumption DEF Levels
<1>2. Call("turn_on", MaxLevel) \in CallShape
  BY <1>1 DEF Call, CallShape, ServiceNames
<1>3. \A s \in {"turn_on", "turn_off", "playing", "paused", "up", "down"} :
         Call(s, None) \in CallShape /\ Call(s, None).service = s
  BY DEF Call, CallShape, ServiceNames
<1>4. Call("turn_on", MaxLevel).service = "turn_on"
  BY DEF Call
<1>5. Toggling(p) = Call("turn_on", None) \/ Toggling(p) = Call("turn_off", None)
  BY DEF Toggling
<1>. QED
  BY <1>2, <1>3, <1>4, <1>5 DEF CallFits

LEMMA PressFits == \A p \in Panels, grip \in {"card", "slider"} : CardsInv /\ Press(p, grip) => CardsInv'
<1>. SUFFICES ASSUME NEW p \in Panels, NEW grip \in {"card", "slider"}, CardsInv, Press(p, grip)
              PROVE  CardsInv'
  OBVIOUS
<1>. DEFINE value == Value(card[p], seen[p])
            at == IF grip = "slider" THEN value ELSE seen[p].level
            local == IF grip = "slider" THEN value ELSE knob[p].local
            k == [knob[p] EXCEPT !.grip = grip, !.moved = (grip = "slider"), !.cut = FALSE,
                                 !.at = at, !.local = local]
<1>1. /\ knob[p].grip = "none" /\ card[p] \in (IF grip = "slider" THEN Slidable ELSE Draggable)
      /\ knob' = [knob EXCEPT ![p] = k] /\ wish' = [wish EXCEPT !.alone = wish.alone /\ wish.by = p]
      /\ Spend("gestures") /\ UNCHANGED calls /\ Unchanged
  BY DEF Press, CardsInv, CardsShape
<1>2. /\ knob[p] \in KnobShape /\ seen[p].level \in Levels /\ KnobFits(card[p], knob[p], seen[p])
      /\ value \in Levels /\ knob[p].local \in Levels
  BY KnobParts, ValueIsLevel DEF StateShape
<1>. HIDE DEF value
<1>3. /\ k \in KnobShape /\ k.grip = grip /\ k.at = at /\ k.moved = (grip = "slider")
      /\ k.local = local /\ k.hold = knob[p].hold /\ k.own = knob[p].own
  <2>1. at \in Levels /\ local \in Levels
    BY <1>2
  <2>. HIDE DEF at, local
  <2>. QED
    BY <1>2, <2>1 DEF KnobShape
<1>. HIDE DEF k
<1>4. KnobFits(card[p], k, seen[p])
  <2>1. FingerFits(card[p], k)
    BY <1>1, <1>2, <1>3 DEF FingerFits, Slidable, EveryMoveSends
  <2>2. card[p] \in Slidable /\ grip = "card" /\ ~k.hold => k.local = Value(card[p], seen[p])
    BY <1>1, <1>2, <1>3 DEF KnobFits, CardDrag, Slidable, EveryMoveSends
  <2>. QED
    BY <1>3, <2>1, <2>2 DEF KnobFits
<1>. QED
  BY <1>1, <1>3, <1>4, QuietKnob DEF Unchanged

LEMMA MoveFits == \A p \in Panels, v \in Levels : CardsInv /\ Move(p, v) => CardsInv'
<1>. SUFFICES ASSUME NEW p \in Panels, NEW v \in Levels, CardsInv, Move(p, v)
              PROVE  CardsInv'
  OBVIOUS
<1>. DEFINE own == card[p] \in EveryMoveSends
            k == [knob[p] EXCEPT !.moved = TRUE, !.at = v, !.local = v, !.own = own]
<1>1. /\ knob[p].grip # "none" /\ knob' = [knob EXCEPT ![p] = k] /\ Spend("moves") /\ Unchanged
      /\ Quietly \/ (~Sliding(p) /\ SendsLevel(p, v))
  BY DEF Move, TileMove, RingMove, PlayerMove, MringMove, NestMove, CardsInv, CardsShape
<1>2. knob[p] \in KnobShape /\ KnobFits(card[p], knob[p], seen[p])
  BY KnobParts
<1>3. /\ k \in KnobShape /\ k.grip = knob[p].grip /\ k.at = v /\ k.moved /\ k.local = v
      /\ k.hold = knob[p].hold /\ k.own = own
  <2>1. own \in BOOLEAN
    OBVIOUS
  <2>. QED
    BY <1>2, <2>1 DEF KnobShape
<1>. HIDE DEF k
<1>4. KnobFits(card[p], k, seen[p])
  BY <1>1, <1>2, <1>3 DEF KnobFits, FingerFits, CardDrag, KnobShape
<1>5. card[p] \in Draggable \cup Slidable
  BY <1>1, <1>2 DEF KnobFits, FingerFits, KnobShape
<1>6. CASE Quietly
  BY <1>1, <1>3, <1>4, <1>6, QuietKnob DEF Unchanged, Quietly
<1>7. CASE SendsLevel(p, v)
  BY <1>1, <1>3, <1>4, <1>5, <1>7, SettingFits, AskingKnob DEF Unchanged, SendsLevel
<1>. QED
  BY <1>1, <1>6, <1>7

LEMMA CutFits == \A p \in Panels : CardsInv /\ (TakenAway(p) \/ TouchAgain(p)) => CardsInv'
<1>. SUFFICES ASSUME NEW p \in Panels, CardsInv, TakenAway(p) \/ TouchAgain(p)
              PROVE  CardsInv'
  OBVIOUS
<1>1. PICK b \in BOOLEAN : knob' = [knob EXCEPT ![p].cut = b]
  BY DEF TakenAway, TouchAgain
<1>. DEFINE k == [knob[p] EXCEPT !.cut = b]
<1>2. /\ knob' = [knob EXCEPT ![p] = k] /\ UNCHANGED <<wish, calls>> /\ Unchanged
      /\ Spend("gestures") \/ UNCHANGED cardSpent
  BY <1>1 DEF TakenAway, TouchAgain, CardsInv, CardsShape
<1>3. knob[p] \in KnobShape /\ KnobFits(card[p], knob[p], seen[p])
  BY KnobParts
<1>4. /\ k \in KnobShape /\ k.grip = knob[p].grip /\ k.at = knob[p].at /\ k.moved = knob[p].moved
      /\ k.hold = knob[p].hold /\ k.local = knob[p].local /\ k.own = knob[p].own
  BY <1>3 DEF KnobShape
<1>. HIDE DEF k
<1>5. KnobFits(card[p], k, seen[p])
  BY <1>3, <1>4 DEF KnobFits, FingerFits, CardDrag
<1>. QED
  BY <1>2, <1>4, <1>5, QuietKnob DEF Unchanged

LEMMA HoldEndsFits == \A p \in Panels : CardsInv /\ HoldEnds(p) => CardsInv'
<1>. SUFFICES ASSUME NEW p \in Panels, CardsInv, HoldEnds(p)
              PROVE  CardsInv'
  OBVIOUS
<1>. DEFINE j == [knob[p] EXCEPT !.timers = knob[p].timers - 1, !.hold = FALSE]
            k == Followed(card[p], j, seen[p], FALSE)
<1>1. /\ knob' = [knob EXCEPT ![p] = k] /\ UNCHANGED <<wish, calls, cardSpent>> /\ Unchanged
  BY DEF HoldEnds, CardsInv, CardsShape
<1>2. /\ knob[p] \in KnobShape /\ FingerFits(card[p], knob[p]) /\ card[p] \in CardKinds
      /\ seen[p] \in StateShape
  BY KnobParts
<1>3. /\ j.grip = knob[p].grip /\ j.at = knob[p].at /\ j.moved = knob[p].moved
      /\ j.local = knob[p].local /\ j.own = knob[p].own /\ j \in KnobShape
  <2>1. knob[p].timers - 1 \in Int
    BY <1>2 DEF KnobShape
  <2>. QED
    BY <1>2, <2>1 DEF KnobShape
<1>. HIDE DEF j
<1>4. FingerFits(card[p], j)
  BY <1>2, <1>3 DEF FingerFits
<1>5. KnobFits(card[p], k, seen[p])
  BY <1>2, <1>4, FollowedFits
<1>6. card[p] \in Asking => k.grip = knob[p].grip /\ k.local = knob[p].local
  BY <1>2, <1>3, AskingFollows
<1>. HIDE DEF k
<1>. QED
  BY <1>1, <1>5, <1>6, QuietKnob DEF Unchanged

LEMMA LiftedFits ==
    ASSUME CardsInv, NEW p \in Panels
    PROVE  /\ FingerFits(card[p], Lifted(p)) /\ Lifted(p) \in KnobShape
           /\ Lifted(p).grip = "none" /\ Lifted(p).at = knob[p].at
           /\ Lifted(p).local = knob[p].local /\ Lifted(p).hold = knob[p].hold
           /\ \/ card[p] \notin Slidable
              \/ card[p] \in Throttled /\ knob[p].grip = "card" /\ ~knob[p].moved
              => KnobFits(card[p], Lifted(p), seen[p])
<1>1. knob[p] \in KnobShape /\ KnobFits(card[p], knob[p], seen[p])
  BY KnobParts
<1>2. /\ Lifted(p) \in KnobShape /\ Lifted(p).grip = "none" /\ Lifted(p).at = knob[p].at
      /\ Lifted(p).local = knob[p].local /\ Lifted(p).hold = knob[p].hold
  BY <1>1 DEF Lifted, KnobShape
<1>3. FingerFits(card[p], Lifted(p))
  BY <1>2 DEF FingerFits
<1>4. card[p] \notin Slidable => KnobFits(card[p], Lifted(p), seen[p])
  BY <1>3 DEF KnobFits
<1>5. ASSUME card[p] \in Throttled, knob[p].grip = "card", ~knob[p].moved
      PROVE  KnobFits(card[p], Lifted(p), seen[p])
  <2>1. card[p] \in Slidable /\ ~CardDrag(card[p], knob[p])
    BY <1>5 DEF Throttled, Slidable, CardDrag, EveryMoveSends
  <2>2. ~knob[p].hold => knob[p].local = Value(card[p], seen[p])
    BY <1>1, <1>5, <2>1 DEF KnobFits
  <2>. QED
    BY <1>2, <1>3, <2>2 DEF KnobFits
<1>. QED
  BY <1>2, <1>3, <1>4, <1>5

LEMMA SlidFits ==
    ASSUME CardsInv, NEW p \in Panels
    PROVE  /\ FingerFits(card[p], Slid(p, Lifted(p)))
           /\ FingerFits(card[p], AfterDrag(p, Slid(p, Lifted(p))))
<1>. DEFINE l == Lifted(p)
            s == Slid(p, l)
            a == AfterDrag(p, s)
<1>1. l \in KnobShape /\ l.grip = "none"
  BY LiftedFits
<1>. HIDE DEF l
<1>2. s \in KnobShape /\ s.grip = "none"
  <2>1. (l.slid \/ (card[p] = "tile" /\ l.local = 0)) \in BOOLEAN
    OBVIOUS
  <2>. QED
    BY <1>1, <2>1 DEF Slid, KnobShape
<1>. HIDE DEF s
<1>3. a \in KnobShape /\ a.grip = "none"
  <2>1. (s.slid /\ ~(Dragged(p) /\ On(seen[p]))) \in BOOLEAN
    OBVIOUS
  <2>. QED
    BY <1>2, <2>1 DEF AfterDrag, KnobShape
<1>. HIDE DEF a
<1>4. FingerFits(card[p], s) /\ FingerFits(card[p], a)
  BY <1>2, <1>3 DEF FingerFits
<1>. QED
  BY <1>4 DEF a, s, l

LEMMA ReleaseFits == \A p \in Panels : CardsInv /\ Release(p) => CardsInv'
<1>. SUFFICES ASSUME NEW p \in Panels, CardsInv, Release(p)
              PROVE  CardsInv'
  OBVIOUS
<1>1. /\ knob[p].grip # "none" /\ UNCHANGED cardSpent /\ Unchanged
      /\ \/ TileUp(p) \/ PlayerUp(p) \/ RingUp(p) \/ MringUp(p) \/ NestUp(p)
         \/ SliderUp(p) \/ NumberUp(p)
  BY DEF Release
<1>2. /\ card[p] \in CardKinds /\ knob[p] \in KnobShape /\ seen[p] \in StateShape
      /\ knob[p].at \in Levels /\ FingerFits(card[p], knob[p])
  BY KnobParts
<1>3. ~Sliding(p) => knob[p].grip = "card"
  BY <1>1, <1>2 DEF Sliding, KnobShape
<1>4. ASSUME NEW k, Shows(p, k), FingerFits(card[p], k), SendsLevel(p, knob[p].at),
             card[p] \in Slidable
      PROVE  CardsInv'
  <2>1. KnobFits(card[p], Followed(card[p], k, seen[p], FALSE), seen[p])
    BY <1>2, <1>4, FollowedFits
  <2>2. CallFits(card[p], Setting(card[p], knob[p].at))
    BY <1>2, <1>4, SettingFits
  <2>3. card[p] \notin Asking
    BY <1>4 DEF Asking, Slidable
  <2>. QED
    BY <1>1, <1>4, <2>1, <2>2, <2>3, AskingKnob DEF Unchanged, SendsLevel, Shows, Lets
<1>5. ASSUME NEW c, Sends(p, c), CallFits(card[p], c), Lets(p, Lifted(p)),
             KnobFits(card[p], Lifted(p), seen[p]), card[p] \notin Asking
      PROVE  CardsInv'
  BY <1>1, <1>5, AskingKnob DEF Unchanged, Lets
<1>6. CASE TileUp(p)
  <2>1. card[p] = "tile" /\ knob[p].grip = "card"
    BY <1>3, <1>6 DEF TileUp
  <2>2. CASE ~knob[p].moved /\ Sends(p, TileTap(p)) /\ Lets(p, Lifted(p))
    <3>1. CallFits(card[p], TileTap(p))
      BY <2>1, TapFits DEF TileTap
    <3>2. KnobFits(card[p], Lifted(p), seen[p])
      BY <2>1, <2>2, LiftedFits DEF Throttled
    <3>. QED
      BY <1>5, <2>1, <2>2, <3>1, <3>2 DEF Asking
  <2>3. CASE SendsLevel(p, knob[p].at) /\ Shows(p, AfterDrag(p, Slid(p, Lifted(p))))
    BY <1>4, <2>1, <2>3, SlidFits DEF Slidable
  <2>. QED
    BY <1>6, <2>2, <2>3 DEF TileUp
<1>7. CASE PlayerUp(p)
  <2>1. card[p] = "player" /\ knob[p].grip = "card"
    BY <1>3, <1>7 DEF PlayerUp
  <2>2. CASE ~knob[p].moved /\ Sends(p, Toggling(p)) /\ Lets(p, Lifted(p))
    <3>1. CallFits(card[p], Toggling(p))
      BY <2>1, TapFits
    <3>2. KnobFits(card[p], Lifted(p), seen[p])
      BY <2>1, <2>2, LiftedFits DEF Throttled
    <3>. QED
      BY <1>5, <2>1, <2>2, <3>1, <3>2 DEF Asking
  <2>3. CASE SendsLevel(p, knob[p].at) /\ Shows(p, Lifted(p))
    BY <1>4, <2>1, <2>3, LiftedFits DEF Slidable
  <2>. QED
    BY <1>7, <2>2, <2>3 DEF PlayerUp
<1>8. CASE RingUp(p) \/ MringUp(p)
  <2>1. card[p] \in EveryMoveSends /\ Lets(p, Lifted(p))
    BY <1>8 DEF RingUp, MringUp, EveryMoveSends
  <2>2. KnobFits(card[p], Lifted(p), seen[p]) /\ card[p] \notin Asking
    BY <2>1, LiftedFits DEF EveryMoveSends, Slidable, Asking
  <2>3. CASE Quietly
    BY <1>1, <2>1, <2>2, <2>3, QuietKnob DEF Unchanged, Quietly, Lets
  <2>4. CASE card[p] = "ring" /\ Sends(p, RingTap(p))
    <3>1. CallFits(card[p], RingTap(p))
      BY <2>4, TapFits DEF RingTap
    <3>. QED
      BY <1>5, <2>1, <2>2, <2>4, <3>1
  <2>5. CASE card[p] = "mring" /\ Sends(p, MringTap(p))
    <3>1. CallFits(card[p], MringTap(p))
      BY <2>5, TapFits DEF MringTap, LightCards
    <3>. QED
      BY <1>5, <2>1, <2>2, <2>5, <3>1
  <2>. QED
    BY <1>8, <2>3, <2>4, <2>5 DEF RingUp, MringUp
<1>9. CASE NestUp(p)
  <2>. DEFINE k == [Lifted(p) EXCEPT !.local = knob[p].at]
  <2>1. card[p] = "nest" /\ SendsLevel(p, knob[p].at) /\ Lets(p, k)
    BY <1>9 DEF NestUp
  <2>2. k \in KnobShape /\ k.grip = "none" /\ k.local = knob[p].at
    BY <1>2, LiftedFits DEF KnobShape
  <2>. HIDE DEF k
  <2>3. KnobFits(card[p], k, seen[p])
    BY <2>1, <2>2 DEF KnobFits, FingerFits, Slidable
  <2>4. CallFits(card[p], Setting(card[p], knob[p].at))
    BY <1>2, <2>1, SettingFits DEF Draggable
  <2>5. /\ Asks(card[p], Setting(card[p], knob[p].at))
        /\ Wants(card[p], Setting(card[p], knob[p].at)) = k.local
    BY <2>1, <2>2 DEF Setting, Asks, Wants, Call, LightCards
  <2>. QED
    BY <1>1, <2>1, <2>3, <2>4, <2>5, AskingKnob DEF Unchanged, SendsLevel, Lets
<1>10. CASE SliderUp(p)
  <2>1. Sliding(p) /\ SendsLevel(p, knob[p].at) /\ Shows(p, Slid(p, Lifted(p)))
    BY <1>10 DEF SliderUp
  <2>2. card[p] \in Slidable
    BY <1>2, <2>1 DEF Sliding, FingerFits
  <2>. QED
    BY <1>4, <2>1, <2>2, SlidFits
<1>11. CASE NumberUp(p)
  <2>. DEFINE k == [Lifted(p) EXCEPT !.timers = Lifted(p).timers + 1, !.hold = TRUE]
  <2>1. card[p] = "number" /\ SendsLevel(p, knob[p].at) /\ Lets(p, k)
    BY <1>11 DEF NumberUp
  <2>2. k \in KnobShape /\ k.grip = "none" /\ k.hold
    <3>1. Lifted(p) \in KnobShape /\ Lifted(p).grip = "none"
      BY LiftedFits
    <3>2. Lifted(p).timers + 1 \in Int
      BY <3>1 DEF KnobShape
    <3>. QED
      BY <3>1, <3>2 DEF KnobShape
  <2>. HIDE DEF k
  <2>3. KnobFits(card[p], k, seen[p])
    BY <2>1, <2>2 DEF KnobFits, FingerFits
  <2>4. CallFits(card[p], Setting(card[p], knob[p].at))
    BY <1>2, <2>1, SettingFits DEF Slidable
  <2>. QED
    BY <1>1, <2>1, <2>3, <2>4, AskingKnob DEF Unchanged, SendsLevel, Lets, Asking
<1>. QED
  BY <1>1, <1>6, <1>7, <1>8, <1>9, <1>10, <1>11

LEMMA TapFitsAll == \A p \in Panels : CardsInv /\ (Tap(p) \/ PressButton(p)) => CardsInv'
<1>. SUFFICES ASSUME NEW p \in Panels, CardsInv, Tap(p) \/ PressButton(p)
              PROVE  CardsInv'
  OBVIOUS
<1>1. /\ card[p] \in CardKinds /\ knob[p] \in KnobShape /\ seen[p] \in StateShape
      /\ KnobFits(card[p], knob[p], seen[p]) /\ FingerFits(card[p], knob[p])
      /\ knob \in [Panels -> KnobShape]
  BY KnobParts DEF CardsInv, CardsShape
<1>2. knob' = knob => knob' = [knob EXCEPT ![p] = knob[p]]
  BY <1>1
<1>3. CASE Tap(p) /\ card[p] = "cover"
  <2>. DEFINE v == IF On(seen[p]) THEN 0 ELSE 1
              k == [knob[p] EXCEPT !.local = v]
  <2>1. /\ knob' = [knob EXCEPT ![p] = k] /\ knob[p].grip = "none" /\ Unchanged
        /\ Sends(p, CoverTap(p)) /\ Spend("gestures")
    BY <1>1, <1>3 DEF Tap, Tapped
  <2>2. v \in Levels
    BY CardsAssumption DEF Levels
  <2>3. /\ CallFits(card[p], CoverTap(p)) /\ Asks(card[p], CoverTap(p))
        /\ Wants(card[p], CoverTap(p)) = v
    BY <1>3 DEF CoverTap, Call, CallFits, CallShape, ServiceNames, LightCards, Asks, Wants
  <2>. HIDE DEF v
  <2>4. k \in KnobShape /\ k.grip = "none" /\ k.local = v
    BY <1>1, <2>1, <2>2 DEF KnobShape
  <2>. HIDE DEF k
  <2>5. KnobFits(card[p], k, seen[p])
    BY <1>3, <2>4 DEF KnobFits, FingerFits, Slidable
  <2>. QED
    BY <2>1, <2>3, <2>4, <2>5, AskingKnob DEF Unchanged
<1>4. CASE Tap(p) /\ card[p] # "cover"
  <2>1. /\ knob' = knob /\ Unchanged /\ Sends(p, Tapped(p)) /\ Spend("gestures")
        /\ card[p] \in Tappable \ Draggable
    BY <1>4 DEF Tap
  <2>2. Tapped(p) = Toggling(p) /\ card[p] \notin Asking
    BY <1>4, <2>1 DEF Tapped, Tappable, Draggable, Asking
  <2>3. CallFits(card[p], Toggling(p))
    BY <2>2, TapFits DEF Asking
  <2>. QED
    BY <1>1, <1>2, <2>1, <2>2, <2>3, AskingKnob DEF Unchanged
<1>5. CASE PressButton(p)
  <2>1. /\ knob' = knob /\ Unchanged /\ Spend("gestures")
        /\ \E c \in Buttons(p) : Sends(p, c)
    BY <1>5 DEF PressButton
  <2>2. PICK c \in Buttons(p) : Sends(p, c)
    BY <2>1
  <2>3. CASE card[p] = "theater"
    <3>1. c \in {Call(s, None) : s \in {"paused", "playing", "up", "down"}}
      BY <2>3 DEF Buttons, TheaterButtons
    <3>2. CallFits(card[p], c)
      BY <2>3, <3>1, TapFits DEF LightCards
    <3>. QED
      BY <1>1, <1>2, <2>1, <2>2, <2>3, <3>2, AskingKnob DEF Unchanged, Asking
  <2>4. CASE card[p] = "nest"
    <3>1. PICK m \in {"heat", "cool", "off"} : c = Call(m, None)
      BY <2>4 DEF Buttons, NestButtons
    <3>2. CallFits(card[p], c) /\ ~Asks(card[p], c)
      BY <2>4, <3>1 DEF CallFits, Call, CallShape, ServiceNames, LightCards, Asks
    <3>. QED
      BY <1>1, <1>2, <2>1, <2>2, <3>2, AskingKnob DEF Unchanged
  <2>. QED
    BY <2>2, <2>3, <2>4 DEF Buttons
<1>. QED
  BY <1>3, <1>4, <1>5

-----------------------------------------------------------------------------
(* The server, and what it tells.                                          *)
LEMMA NextCall ==
    ASSUME CardsInv, NEW p \in Panels, calls[p] # <<>>, calls' = [calls EXCEPT ![p] = Tail(@)],
           card' = card
    PROVE  /\ calls' \in [Panels -> Seq(CallShape)] /\ CallFits(card[p], Head(calls[p]))
           /\ calls'[p] = Tail(calls[p]) /\ \A q \in Panels \ {p} : calls'[q] = calls[q]
           /\ \A q \in Panels : \A n \in DOMAIN calls'[q] : CallFits(card[q], calls'[q][n])
           /\ calls[p] \in Seq(CallShape)
<1>1. /\ calls \in [Panels -> Seq(CallShape)] /\ calls[p] \in Seq(CallShape)
      /\ \A q \in Panels : \A n \in DOMAIN calls[q] : CallFits(card[q], calls[q][n])
  BY DEF CardsInv, CardsShape
<1>. DEFINE s == calls[p]
            t == Tail(s)
<1>2. /\ Head(s) = s[1] /\ t \in Seq(CallShape) /\ Len(t) = Len(s) - 1
      /\ \A i \in 1 .. Len(t) : t[i] = s[i + 1]
  BY <1>1, QueueShrinks
<1>3. /\ DOMAIN s = 1 .. Len(s) /\ DOMAIN t = 1 .. Len(t) /\ Len(s) \in Nat \ {0}
  BY <1>1, <1>2, LenProperties, EmptySeq
<1>4. calls'[p] = t /\ (\A q \in Panels \ {p} : calls'[q] = calls[q])
      /\ calls' \in [Panels -> Seq(CallShape)]
  BY <1>1, <1>2
<1>. HIDE DEF t
<1>5. CallFits(card[p], Head(s))
  <2>1. 1 \in DOMAIN s
    BY <1>3
  <2>. QED
    BY <1>1, <1>2, <2>1
<1>6. \A n \in DOMAIN t : n + 1 \in DOMAIN s /\ t[n] = s[n + 1]
  BY <1>2, <1>3
<1>7. \A n \in DOMAIN t : CallFits(card[p], t[n])
  BY <1>1, <1>6
<1>8. \A q \in Panels : \A n \in DOMAIN calls'[q] : CallFits(card[q], calls'[q][n])
  BY <1>1, <1>4, <1>7
<1>. QED
  BY <1>1, <1>4, <1>5, <1>8 DEF t

LEMMA SameHandler ==
    ASSUME UNCHANGED <<card, keeps>>, wish'.call = wish.call
    PROVE  AfterCall(wish.call, entity)' = AfterCall(wish.call, entity')
BY DEF AfterCall, AnyOf

LEMMA ExecuteFits == \A p \in Panels : CardsInv /\ Execute(p) => CardsInv'
<1>. SUFFICES ASSUME NEW p \in Panels, CardsInv, Execute(p)
              PROVE  CardsInv'
  OBVIOUS
<1>. DEFINE c == Head(calls[p])
<1>1. /\ calls[p] # <<>> /\ calls' = [calls EXCEPT ![p] = Tail(@)] /\ entity' = AfterCall(c, entity)
      /\ events' = [q \in Panels |->
                      IF entity' = entity THEN events[q] ELSE Append(events[q], entity')]
      /\ wish' = [wish EXCEPT !.alone = wish.alone /\ wish.by = p]
      /\ UNCHANGED <<card, keeps, seen, knob, cardSpent>>
  BY DEF Execute
<1>2. /\ calls' \in [Panels -> Seq(CallShape)] /\ CallFits(card[p], c)
      /\ calls'[p] = Tail(calls[p]) /\ \A q \in Panels \ {p} : calls'[q] = calls[q]
      /\ \A q \in Panels : \A n \in DOMAIN calls'[q] : CallFits(card[q], calls'[q][n])
      /\ calls[p] \in Seq(CallShape)
  BY <1>1, NextCall
<1>3. /\ card \in Layouts /\ keeps \in BOOLEAN /\ entity \in StateShape /\ seen \in [Panels -> StateShape]
      /\ events \in [Panels -> Seq(StateShape)]
      /\ wish \in [call : CallShape, by : Panels \cup {"none"}, alone : BOOLEAN]
      /\ EchoInv /\ KnobsInv /\ AskedInv /\ WishInv
  BY DEF CardsInv, CardsShape
<1>. HIDE DEF c
<1>4. /\ entity' \in StateShape
      /\ c.service \notin {"up", "down"} => AfterCall(c, entity') = entity'
  <2>1. /\ AfterCall(c, entity) \in StateShape
        /\ c.service \notin {"up", "down"} => AfterCall(c, AfterCall(c, entity)) = AfterCall(c, entity)
    BY <1>2, <1>3, CallLeaves
  <2>. QED
    BY <1>1, <2>1 DEF c
<1>5. events' \in [Panels -> Seq(StateShape)]
  <2>1. \A q \in Panels : Append(events[q], entity') \in Seq(StateShape)
    BY <1>3, <1>4, QueueGrows
  <2>. QED
    BY <1>1, <1>3, <2>1
<1>6. ASSUME NEW q \in Panels, entity' # entity
      PROVE  /\ events'[q] # <<>> /\ events'[q][Len(events'[q])] = entity'
             /\ Len(events'[q]) \in DOMAIN events'[q]
             /\ \A n \in DOMAIN events[q] : n \in DOMAIN events'[q] /\ events'[q][n] = events[q][n]
  <2>. DEFINE s == events[q]
              t == Append(s, entity')
  <2>1. s \in Seq(StateShape) /\ events'[q] = t
    BY <1>1, <1>3, <1>6
  <2>2. /\ t \in Seq(StateShape) /\ t # <<>> /\ t[Len(t)] = entity' /\ Len(t) = Len(s) + 1
        /\ \A i \in 1 .. Len(s) : t[i] = s[i]
    BY <1>4, <2>1, QueueGrows
  <2>3. DOMAIN t = 1 .. Len(t) /\ DOMAIN s = 1 .. Len(s) /\ Len(s) \in Nat
    BY <2>1, <2>2, LenProperties
  <2>. HIDE DEF t
  <2>. QED
    BY <2>1, <2>2, <2>3
<1>7. EchoInv'
  <2>1. CASE entity' = entity
    BY <1>1, <1>3, <2>1 DEF EchoInv
  <2>2. CASE entity' # entity
    BY <1>6, <2>2 DEF EchoInv
  <2>. QED
    BY <2>1, <2>2
<1>8. wish' \in [call : CallShape, by : Panels \cup {"none"}, alone : BOOLEAN]
      /\ wish'.call = wish.call /\ wish'.by = wish.by /\ (wish'.alone => wish.alone /\ wish.by = p)
  <2>1. (wish.alone /\ wish.by = p) \in BOOLEAN
    OBVIOUS
  <2>. QED
    BY <1>1, <1>3, <2>1
<1>9. WishInv'
  <2>. SUFFICES ASSUME wish'.alone PROVE WishInv'
    BY DEF WishInv
  <2>1. /\ wish.alone /\ wish.by = p /\ wish.call.service \notin {"up", "down"}
        /\ CallFits(card[p], wish.call) /\ \A q \in Panels \ {p} : calls[q] = <<>>
        /\ calls[p][Len(calls[p])] = wish.call
    BY <1>1, <1>3, <1>8 DEF WishInv
  <2>2. \A q \in Panels \ {p} : calls'[q] = <<>>
    BY <1>2, <2>1
  <2>3. /\ Tail(calls[p]) # <<>> => Tail(calls[p])[Len(Tail(calls[p]))] = wish.call
        /\ Tail(calls[p]) = <<>> => c = wish.call
    BY <1>1, <1>2, <2>1, QueueShrinks DEF c
  <2>4. calls'[p] = <<>> => AfterCall(wish.call, entity') = entity'
    BY <1>2, <1>4, <2>1, <2>3
  <2>5. AfterCall(wish.call, entity)' = AfterCall(wish.call, entity')
    BY <1>1, <1>8, SameHandler
  <2>. QED
    BY <1>1, <1>2, <1>8, <2>1, <2>2, <2>3, <2>4, <2>5 DEF WishInv, CallFits
<1>10. ASSUME NEW q \in Panels
       PROVE  AskedFits(q)'
  <2>. SUFFICES ASSUME card[q] \in Asking, ~MayRefuse, knob[q].grip = "none"
                PROVE  (WillLearn(q) \/ knob[q].local = Value(card[q], entity) \/ HasAsked(q))'
    BY <1>1 DEF AskedFits, MayRefuse
  <2>1. WillLearn(q) \/ knob[q].local = Value(card[q], entity) \/ HasAsked(q)
    BY <1>3 DEF AskedInv, AskedFits
  <2>2. WillLearn(q) => WillLearn(q)'
    <3>1. CASE entity' = entity
      BY <1>1, <1>3, <3>1 DEF WillLearn
    <3>2. CASE entity' # entity
      BY <1>1, <1>6, <3>2 DEF WillLearn
    <3>. QED
      BY <3>1, <3>2
  <2>3. ~WillLearn(q)' => Value(card[q], entity') = Value(card[q], entity)
    <3>. SUFFICES ASSUME ~WillLearn(q)', entity' # entity
                  PROVE  Value(card[q], entity') = Value(card[q], entity)
      OBVIOUS
    <3>1. ~Differs(card[q], entity', seen[q])
      BY <1>1, <1>6 DEF WillLearn
    <3>2. ~WillLearn(q)
      BY <2>2
    <3>3. CASE events[q] = <<>>
      <4>1. entity = seen[q]
        BY <1>3, <3>3 DEF EchoInv
      <4>. QED
        BY <3>1, <4>1 DEF Differs, Value, Asking
    <3>4. CASE events[q] # <<>>
      <4>1. entity = events[q][Len(events[q])] /\ Len(events[q]) \in DOMAIN events[q]
        <5>1. events[q] \in Seq(StateShape)
          BY <1>3
        <5>2. Len(events[q]) \in DOMAIN events[q]
          BY <3>4, <5>1, EmptySeq, LenProperties
        <5>. QED
          BY <1>3, <3>4, <5>2 DEF EchoInv
      <4>2. ~Differs(card[q], entity, seen[q])
        BY <3>2, <4>1 DEF WillLearn
      <4>. QED
        BY <3>1, <4>2 DEF Differs, Value, Asking
    <3>. QED
      BY <3>3, <3>4
  <2>4. HasAsked(q) => HasAsked(q)' \/ knob[q].local = Value(card[q], entity')
    <3>. SUFFICES ASSUME HasAsked(q)
                  PROVE  HasAsked(q)' \/ knob[q].local = Value(card[q], entity')
      OBVIOUS
    <3>1. CASE q # p
      <4>1. calls'[q] = calls[q]
        BY <1>2, <3>1
      <4>. QED
        BY <1>1, <4>1 DEF HasAsked
    <3>2. CASE q = p
      <4>. DEFINE s == calls[p]
                  t == Tail(s)
      <4>1. PICK n \in DOMAIN s :
               /\ Asks(card[p], s[n]) /\ Wants(card[p], s[n]) = knob[p].local
               /\ \A m \in DOMAIN s : m > n => ~Asks(card[p], s[m])
        BY <3>2 DEF HasAsked
      <4>2. /\ c = s[1] /\ Len(t) = Len(s) - 1 /\ \A i \in 1 .. Len(t) : t[i] = s[i + 1]
            /\ t \in Seq(CallShape)
        BY <1>1, <1>2, QueueShrinks DEF c
      <4>3. DOMAIN s = 1 .. Len(s) /\ DOMAIN t = 1 .. Len(t) /\ Len(s) \in Nat
        BY <1>2, <4>2, LenProperties
      <4>4. CASE n = 1
        <5>1. Value(card[p], AfterCall(c, entity)) = Wants(card[p], c)
          BY <1>2, <1>3, <3>2, <4>1, <4>2, <4>4, AskingMakes
        <5>. QED
          BY <1>1, <3>2, <4>1, <4>2, <4>4, <5>1
      <4>5. CASE n # 1
        <5>. HIDE DEF t
        <5>1. n - 1 \in DOMAIN t /\ t[n - 1] = s[n]
          BY <4>2, <4>3, <4>5
        <5>2. \A m \in DOMAIN t : m > n - 1 => m + 1 \in DOMAIN s /\ t[m] = s[m + 1] /\ m + 1 > n
          BY <4>2, <4>3
        <5>3. \A m \in DOMAIN t : m > n - 1 => ~Asks(card[p], t[m])
          BY <4>1, <5>2
        <5>4. calls'[p] = t
          BY <1>2 DEF t
        <5>. QED
          BY <1>1, <3>2, <4>1, <5>1, <5>3, <5>4 DEF HasAsked
      <4>. QED
        BY <4>4, <4>5
    <3>. QED
      BY <3>1, <3>2
  <2>. QED
    BY <1>1, <2>1, <2>2, <2>3, <2>4
<1>11. CardsShape' /\ KnobsInv'
  BY <1>1, <1>2, <1>3, <1>4, <1>5, <1>8 DEF CardsInv, CardsShape, KnobsInv
<1>. QED
  BY <1>7, <1>9, <1>10, <1>11 DEF CardsInv, AskedInv

LEMMA RefusedFits == \A p \in Panels : CardsInv /\ CallRefused(p) => CardsInv'
<1>. SUFFICES ASSUME NEW p \in Panels, CardsInv, CallRefused(p)
              PROVE  CardsInv'
  OBVIOUS
<1>1. /\ calls[p] # <<>> /\ calls' = [calls EXCEPT ![p] = Tail(@)]
      /\ (card[p] = "number" /\ UNCHANGED cardSpent) \/ Spend("refusals")
      /\ wish' = [wish EXCEPT !.alone = FALSE]
      /\ UNCHANGED <<card, entity, keeps, seen, knob, events>>
  BY DEF CallRefused
<1>2. /\ calls' \in [Panels -> Seq(CallShape)]
      /\ \A q \in Panels : \A n \in DOMAIN calls'[q] : CallFits(card[q], calls'[q][n])
  BY <1>1, NextCall
<1>3. /\ cardSpent' \in [gestures : Int, moves : Int, refusals : Int]
      /\ cardSpent'.refusals <= MaxRefusals /\ (Spend("refusals") => MayRefuse')
  BY <1>1, Spends
<1>4. /\ wish' \in [call : CallShape, by : Panels \cup {"none"}, alone : BOOLEAN] /\ ~wish'.alone
  BY <1>1 DEF CardsInv, CardsShape
<1>5. AskedInv'
  <2>1. CASE Spend("refusals")
    BY <1>3, <2>1 DEF AskedInv, AskedFits
  <2>2. CASE card[p] = "number"
    <3>1. \A q \in Panels : card'[q] = "number"
      BY <1>1, <2>2, OneDomain DEF CardsInv, CardsShape
    <3>. QED
      BY <3>1 DEF AskedInv, AskedFits, Asking
  <2>. QED
    BY <1>1, <2>1, <2>2
<1>6. CardsShape' /\ KnobsInv' /\ EchoInv'
  BY <1>1, <1>2, <1>3, <1>4 DEF CardsInv, CardsShape, KnobsInv, EchoInv
<1>. QED
  BY <1>4, <1>5, <1>6 DEF CardsInv, WishInv

(* A panel that will be told nothing new has been told what there is.      *)
LEMMA NothingToLearn ==
    ASSUME NEW kind \in Asking, NEW e, NEW old, NEW told \in Seq(StateShape),
           e = IF told = <<>> THEN old ELSE told[Len(told)],
           \A n \in DOMAIN told : ~Differs(kind, told[n], old)
    PROVE  Value(kind, e) = Value(kind, old)
<1>1. CASE told = <<>>
  BY <1>1
<1>2. CASE told # <<>>
  <2>1. Len(told) \in DOMAIN told
    BY <1>2, EmptySeq, LenProperties
  <2>2. ~Differs(kind, e, old)
    BY <1>2, <2>1
  <2>. QED
    BY <2>2 DEF Differs, Value, Asking
<1>. QED
  BY <1>1, <1>2

(* A player that goes off takes its slider from under the finger.          *)
LEMMA UnmountedFits ==
    ASSUME NEW kind, NEW k, FingerFits(kind, k), NEW s
    PROVE  /\ FingerFits(kind, Unmounted(kind, k, s))
           /\ kind \in Asking => Unmounted(kind, k, s) = k
<1>1. CASE Unmounted(kind, k, s) = k
  BY <1>1
<1>2. CASE Unmounted(kind, k, s) # k
  <2>. DEFINE f == [k EXCEPT !.grip = "none", !.moved = FALSE, !.cut = FALSE]
  <2>1. Unmounted(kind, k, s) = f /\ kind = "player"
    BY <1>2 DEF Unmounted
  <2>2. f \in KnobShape /\ f.grip = "none"
    BY DEF FingerFits, KnobShape
  <2>. HIDE DEF f
  <2>. QED
    BY <2>1, <2>2 DEF FingerFits, Asking
<1>. QED
  BY <1>1, <1>2

LEMMA ReceiveFits == \A p \in Panels : CardsInv /\ Receive(p) => CardsInv'
<1>. SUFFICES ASSUME NEW p \in Panels, CardsInv, Receive(p)
              PROVE  CardsInv'
  OBVIOUS
<1>. DEFINE s == Head(events[p])
            changed == Differs(card[p], s, seen[p])
            u == Unmounted(card[p], knob[p], s)
            k == Followed(card[p], u, s, changed)
<1>1. /\ card \in [Panels -> CardKinds] /\ seen \in [Panels -> StateShape]
      /\ knob \in [Panels -> KnobShape] /\ events \in [Panels -> Seq(StateShape)]
      /\ EchoInv /\ KnobsInv /\ AskedInv /\ WishInv
      /\ FingerFits(card[p], knob[p])
  BY OneDomain DEF CardsInv, CardsShape, KnobsInv, KnobFits
<1>2. /\ events[p] # <<>> /\ seen' = [seen EXCEPT ![p] = s] /\ knob' = [knob EXCEPT ![p] = k]
      /\ events' = [events EXCEPT ![p] = Tail(events[p])]
      /\ UNCHANGED <<card, entity, keeps, calls, wish, cardSpent>>
  BY <1>1 DEF Receive, Differs
<1>3. /\ s \in StateShape /\ s = events[p][1] /\ Tail(events[p]) \in Seq(StateShape)
      /\ Len(Tail(events[p])) = Len(events[p]) - 1
      /\ \A i \in 1 .. Len(Tail(events[p])) : Tail(events[p])[i] = events[p][i + 1]
      /\ Tail(events[p]) # <<>> => Tail(events[p])[Len(Tail(events[p]))] = events[p][Len(events[p])]
      /\ Tail(events[p]) = <<>> => s = events[p][Len(events[p])]
  BY <1>1, <1>2, QueueShrinks
<1>4. changed \in BOOLEAN
  BY DEF Differs
<1>. HIDE DEF u
<1>5. FingerFits(card[p], u) /\ KnobFits(card[p], k, s)
  <2>1. FingerFits(card[p], u)
    BY <1>1, UnmountedFits DEF u
  <2>. QED
    BY <1>1, <1>3, <1>4, <2>1, FollowedFits
<1>6. /\ seen'[p] = s /\ knob'[p] = k /\ events'[p] = Tail(events[p])
      /\ \A q \in Panels \ {p} : seen'[q] = seen[q] /\ knob'[q] = knob[q] /\ events'[q] = events[q]
      /\ seen' \in [Panels -> StateShape] /\ knob' \in [Panels -> KnobShape]
      /\ events' \in [Panels -> Seq(StateShape)]
  <2>1. k \in KnobShape
    BY <1>5 DEF KnobFits, FingerFits
  <2>. HIDE DEF k, s
  <2>. QED
    BY <1>1, <1>2, <1>3, <2>1
<1>. HIDE DEF k
<1>7. KnobsInv'
  BY <1>1, <1>2, <1>5, <1>6 DEF KnobsInv
<1>8. EchoInv'
  BY <1>1, <1>2, <1>3, <1>6 DEF EchoInv
<1>9. CardsShape' /\ WishInv'
  <2>1. CardsShape'
    BY <1>2, <1>6 DEF CardsInv, CardsShape
  <2>2. WishInv'
    <3>1. AfterCall(wish.call, entity)' = AfterCall(wish.call, entity')
      BY <1>2, SameHandler
    <3>. QED
      BY <1>1, <1>2, <3>1 DEF WishInv
  <2>. QED
    BY <2>1, <2>2
<1>10. AskedFits(p)'
  <2>. SUFFICES ASSUME card[p] \in Asking, ~MayRefuse, knob'[p].grip = "none"
                PROVE  (WillLearn(p) \/ knob[p].local = Value(card[p], entity) \/ HasAsked(p))'
    BY <1>2 DEF AskedFits, MayRefuse
  <2>1. k.grip = knob[p].grip /\ k.local = IF changed THEN Value(card[p], s) ELSE knob[p].local
    <3>1. u = knob[p]
      BY <1>1, UnmountedFits DEF u
    <3>. QED
      BY <1>1, <1>3, <1>4, <3>1, AskingFollows DEF k
  <2>2. WillLearn(p) \/ knob[p].local = Value(card[p], entity) \/ HasAsked(p)
    BY <1>1, <1>6, <2>1 DEF AskedInv, AskedFits
  <2>3. CASE changed
    <3>1. ~WillLearn(p)' => Value(card[p], entity) = Value(card[p], s)
      <4>. SUFFICES ASSUME ~WillLearn(p)' PROVE Value(card[p], entity) = Value(card[p], s)
        OBVIOUS
      <4>1. \A n \in DOMAIN Tail(events[p]) : ~Differs(card[p], Tail(events[p])[n], s)
        BY <1>2, <1>6 DEF WillLearn
      <4>2. entity = IF Tail(events[p]) = <<>> THEN s ELSE Tail(events[p])[Len(Tail(events[p]))]
        BY <1>1, <1>2, <1>3 DEF EchoInv
      <4>. HIDE DEF s
      <4>. QED
        BY <1>3, <4>1, <4>2, NothingToLearn
    <3>. QED
      BY <1>2, <1>6, <2>1, <2>3, <3>1
  <2>4. CASE ~changed
    <3>1. HasAsked(p) => HasAsked(p)'
      BY <1>2, <1>6, <2>1, <2>4 DEF HasAsked
    <3>2. WillLearn(p) => WillLearn(p)'
      <4>. SUFFICES ASSUME WillLearn(p) PROVE WillLearn(p)'
        OBVIOUS
      <4>1. PICK n \in DOMAIN events[p] : Differs(card[p], events[p][n], seen[p])
        BY DEF WillLearn
      <4>2. n # 1
        BY <1>3, <2>4, <4>1
      <4>3. Differs(card[p], events[p][n], s)
        BY <2>4, <4>1 DEF Differs
      <4>4. n - 1 \in DOMAIN Tail(events[p]) /\ Tail(events[p])[n - 1] = events[p][n]
        <5>1. /\ DOMAIN events[p] = 1 .. Len(events[p]) /\ Len(events[p]) \in Nat
              /\ DOMAIN Tail(events[p]) = 1 .. Len(Tail(events[p]))
          BY <1>1, <1>3, LenProperties
        <5>. QED
          BY <1>3, <4>2, <5>1
      <4>. QED
        BY <1>2, <1>6, <4>3, <4>4 DEF WillLearn
    <3>. QED
      BY <1>2, <1>6, <2>1, <2>2, <2>4, <3>1, <3>2
  <2>. QED
    BY <2>3, <2>4
<1>11. ASSUME NEW q \in Panels \ {p}
       PROVE  AskedFits(q)'
  <2>1. AskedFits(q)
    BY <1>1 DEF AskedInv
  <2>. QED
    BY <1>2, <1>6, <2>1 DEF AskedFits, WillLearn, HasAsked, MayRefuse
<1>. QED
  BY <1>7, <1>8, <1>9, <1>10, <1>11 DEF CardsInv, AskedInv

LEMMA DrawnAnewFits == \A p \in Panels : CardsInv /\ DrawnAnew(p) => CardsInv'
<1>. SUFFICES ASSUME NEW p \in Panels, CardsInv, DrawnAnew(p)
              PROVE  CardsInv'
  OBVIOUS
<1>. DEFINE own == ~knob[p].own
            k == [knob[p] EXCEPT !.own = own]
<1>1. /\ knob' = [knob EXCEPT ![p] = k] /\ UNCHANGED <<wish, calls, cardSpent>> /\ Unchanged
      /\ card[p] \in EveryMoveSends /\ knob[p].own # (knob[p].grip # "none")
  BY DEF DrawnAnew, CardsInv, CardsShape
<1>2. knob[p] \in KnobShape /\ KnobFits(card[p], knob[p], seen[p])
  BY KnobParts
<1>3. /\ k \in KnobShape /\ k.grip = knob[p].grip /\ k.at = knob[p].at /\ k.moved = knob[p].moved
      /\ k.hold = knob[p].hold /\ k.local = knob[p].local /\ k.own = own
  <2>1. own \in BOOLEAN
    OBVIOUS
  <2>. HIDE DEF own
  <2>. QED
    BY <1>2, <2>1 DEF KnobShape
<1>. HIDE DEF k
<1>4. card[p] \notin Slidable /\ card[p] \notin Asking
  BY <1>1 DEF EveryMoveSends, Slidable, Asking
<1>5. KnobFits(card[p], k, seen[p])
  BY <1>1, <1>2, <1>3, <1>4 DEF KnobFits, FingerFits
<1>. QED
  BY <1>1, <1>4, <1>5, QuietKnob DEF Unchanged

LEMMA CardsBegins == CardsInit => CardsInv
<1>. SUFFICES ASSUME CardsInit
              PROVE  CardsInv
  OBVIOUS
<1>. DEFINE local(p) == Value(card[p], entity)
            k(p) == [grip |-> "none", moved |-> FALSE, at |-> entity.level, slid |-> FALSE,
                     timers |-> 0, hold |-> FALSE, cut |-> FALSE, own |-> FALSE,
                     local |-> local(p)]
<1>1. /\ card \in Layouts /\ entity \in StateShape /\ keeps \in BOOLEAN
      /\ seen = [p \in Panels |-> entity] /\ knob = [p \in Panels |-> k(p)]
      /\ calls = [p \in Panels |-> <<>>] /\ events = [p \in Panels |-> <<>>]
      /\ wish = NoWish
      /\ cardSpent = [gestures |-> MaxGestures, moves |-> MaxMoves, refusals |-> MaxRefusals]
  <2>1. /\ card \in Layouts
        /\ entity \in {[state |-> "off", level |-> 0], [state |-> "on", level |-> MaxLevel]}
        /\ seen = [p \in Panels |-> entity] /\ knob = [p \in Panels |-> k(p)]
        /\ calls = [p \in Panels |-> <<>>] /\ events = [p \in Panels |-> <<>>]
        /\ wish = NoWish
        /\ cardSpent = [gestures |-> MaxGestures, moves |-> MaxMoves, refusals |-> MaxRefusals]
    BY DEF CardsInit
  <2>2. entity \in StateShape
    BY <2>1, CardsAssumption DEF StateShape, ServiceNames, Levels
  <2>3. keeps \in BOOLEAN
    BY DEF CardsInit
  <2>. QED
    BY <2>1, <2>2, <2>3
<1>2. \A p \in Panels : local(p) \in Levels
  BY <1>1, ValueIsLevel
<1>3. entity.level \in Levels
  BY <1>1 DEF StateShape
<1>4. /\ wish \in [call : CallShape, by : Panels \cup {"none"}, alone : BOOLEAN] /\ ~wish.alone
  BY <1>1 DEF NoWish, Call, CallShape, ServiceNames
<1>5. ~MayRefuse /\ cardSpent.refusals <= MaxRefusals
      /\ cardSpent \in [gestures : Int, moves : Int, refusals : Int]
  BY <1>1, CardsAssumption DEF MayRefuse
<1>6. \A p \in Panels : /\ knob[p] \in KnobShape /\ knob[p].grip = "none" /\ ~knob[p].moved /\ ~knob[p].hold
                        /\ knob[p].local = local(p)
  BY <1>1, <1>2, <1>3 DEF KnobShape
<1>9. KnobsInv
  BY <1>1, <1>6 DEF KnobsInv, KnobFits, FingerFits
<1>10. AskedInv
  BY <1>6 DEF AskedInv, AskedFits
<1>11. EchoInv
  BY <1>1 DEF EchoInv
<1>12. CardsShape
  <2>1. <<>> \in Seq(StateShape) /\ <<>> \in Seq(CallShape) /\ DOMAIN <<>> = {}
    OBVIOUS
  <2>2. /\ calls \in [Panels -> Seq(CallShape)] /\ events \in [Panels -> Seq(StateShape)]
        /\ \A p \in Panels : DOMAIN calls[p] = {}
    BY <1>1, <2>1
  <2>3. seen \in [Panels -> StateShape] /\ knob \in [Panels -> KnobShape]
    BY <1>1, <1>6
  <2>. QED
    BY <1>1, <1>4, <1>5, <2>2, <2>3 DEF CardsShape
<1>. QED
  BY <1>4, <1>9, <1>10, <1>11, <1>12 DEF CardsInv, WishInv

LEMMA CardsStep == CardsInv /\ [CardsNext]_cardsVars => CardsInv'
<1>. SUFFICES ASSUME CardsInv, [CardsNext]_cardsVars
              PROVE  CardsInv'
  OBVIOUS
<1>1. CASE UNCHANGED cardsVars
  BY <1>1 DEF cardsVars, CardsInv, CardsShape, KnobsInv, EchoInv, WishInv, AskedInv, AskedFits,
              WillLearn, HasAsked, MayRefuse, AfterCall, AnyOf
<1>2. CASE CardsNext
  <2>1. PICK p \in Panels :
           \/ \E grip \in {"card", "slider"} : Press(p, grip)
           \/ \E v \in Levels : Move(p, v)
           \/ Release(p) \/ TakenAway(p) \/ TouchAgain(p) \/ HoldEnds(p) \/ Tap(p) \/ PressButton(p)
           \/ Execute(p) \/ CallRefused(p) \/ Receive(p) \/ DrawnAnew(p)
    BY <1>2 DEF CardsNext
  <2>. QED
    BY <2>1, PressFits, MoveFits, ReleaseFits, CutFits, HoldEndsFits, TapFitsAll, ExecuteFits,
       RefusedFits, ReceiveFits, DrawnAnewFits
<1>. QED
  BY <1>1, <1>2

LEMMA CardsStand == CardsSpec => []CardsInv
<1>. QED
  BY CardsBegins, CardsStep, PTL DEF CardsSpec

-----------------------------------------------------------------------------
(* What follows for who looks at the panels.                               *)
LEMMA WhatIsDrawn ==
    ASSUME CardsInv, NEW p \in Panels, ~Held(knob[p]), ~knob[p].own
    PROVE  /\ card[p] \notin Asking =>
                 Drawn(p) = Drawing(On(seen[p]), IF card[p] = "tile" THEN Value("tile", seen[p])
                                                 ELSE seen[p].level)
           /\ card[p] = "nest" => Drawn(p) = Drawing(On(seen[p]), knob[p].local)
           /\ card[p] = "cover" => Drawn(p) = Drawing(knob[p].local = 1, seen[p].level)
           /\ card[p] \in Slidable => knob[p].local = Value(card[p], seen[p])
<1>1. /\ card[p] \in CardKinds /\ KnobFits(card[p], knob[p], seen[p]) /\ seen[p] \in StateShape
      /\ knob[p].grip = "none" /\ ~knob[p].hold
  BY KnobParts DEF Held
<1>2. ~Dragged(p) /\ ~Sliding(p)
  BY <1>1 DEF Dragged, CardDrag, Sliding
<1>3. card[p] \in Slidable => knob[p].local = Value(card[p], seen[p])
  BY <1>1, <1>2 DEF KnobFits, Dragged
<1>4. /\ LocalOr(p, FALSE) = Value(card[p], seen[p]) /\ SliderDrawn(p) = Value(card[p], seen[p])
      /\ Glows(p) = On(seen[p])
      /\ card[p] \notin {"tile", "cover"} => Value(card[p], seen[p]) = seen[p].level
  BY <1>1, <1>2, ValueIsLevel DEF LocalOr, SliderDrawn, Glows, On
<1>5. CASE card[p] = "tile"
  BY <1>2, <1>3, <1>4, <1>5 DEF Drawn, TileDrawn, Asking
<1>6. CASE card[p] = "ring"
  BY <1>2, <1>3, <1>4, <1>6 DEF Drawn, RingDrawn, Asking, LocalOr
<1>7. CASE card[p] = "player"
  BY <1>2, <1>3, <1>4, <1>7 DEF Drawn, PlayerDrawn, Asking
<1>8. CASE card[p] = "mring"
  BY <1>2, <1>3, <1>4, <1>8 DEF Drawn, MringDrawn, Asking, LocalOr
<1>9. CASE card[p] = "theater"
  BY <1>3, <1>9 DEF Drawn, TheaterDrawn, Asking
<1>10. CASE card[p] = "nest"
  BY <1>3, <1>10 DEF Drawn, NestDrawn, Asking
<1>11. CASE card[p] = "fan"
  BY <1>3, <1>4, <1>11 DEF Drawn, FanDrawn, Asking
<1>12. CASE card[p] = "number"
  BY <1>3, <1>4, <1>12 DEF Drawn, NumberDrawn, Asking
<1>13. CASE card[p] = "cover"
  BY <1>3, <1>13 DEF Drawn, CoverDrawn, Asking
<1>14. CASE card[p] = "switch"
  BY <1>3, <1>14 DEF Drawn, SwitchDrawn, Asking
<1>. QED
  BY <1>1, <1>5, <1>6, <1>7, <1>8, <1>9, <1>10, <1>11, <1>12, <1>13, <1>14
     DEF CardKinds, LightCards, MediaCards

LEMMA PanelsAgree == CardsInv => CardsAgree
<1>. SUFFICES ASSUME CardsInv, NEW p \in Panels, Settled, events[p] = <<>>, ~Held(knob[p]),
                     ~knob[p].own, card[p] \in {"nest", "cover"} => ~MayRefuse
              PROVE  /\ Drawn(p) = Drawing(On(entity), IF card[p] = "tile" THEN Value("tile", entity)
                                                       ELSE entity.level)
                     /\ card[p] \in Slidable => knob[p].local = Value(card[p], entity)
  BY DEF CardsAgree
<1>1. entity = seen[p]
  BY DEF CardsInv, EchoInv
<1>2. card[p] \in Asking => knob[p].local = Value(card[p], entity)
  <2>1. DOMAIN events[p] = {} /\ DOMAIN calls[p] = {}
    BY DEF Settled
  <2>. QED
    BY <2>1 DEF CardsInv, AskedInv, AskedFits, WillLearn, HasAsked, Asking, Held
<1>3. card[p] = "cover" => (knob[p].local = 1) = On(entity)
  BY <1>2 DEF Asking, Value, On
<1>4. card[p] = "nest" => knob[p].local = entity.level
  BY <1>2 DEF Asking, Value
<1>. QED
  BY <1>1, <1>3, <1>4, WhatIsDrawn DEF Asking

LEMMA FingersLead == CardsInv => FingerLeads
<1>. SUFFICES ASSUME CardsInv, NEW p \in Panels, knob[p].grip # "none", knob[p].moved, card[p] # "nest"
              PROVE  Drawn(p).level = knob[p].at
  BY DEF FingerLeads
<1>1. /\ card[p] \in CardKinds /\ knob[p].local = knob[p].at
      /\ knob[p].grip = "slider" => card[p] \in Slidable
      /\ knob[p].grip = "card" => card[p] \in Draggable
      /\ knob[p].grip \in {"card", "slider"}
      /\ card[p] \in EveryMoveSends => knob[p].own
  BY KnobParts DEF FingerFits, KnobShape
<1>2. /\ Dragged(p) \/ Sliding(p)
      /\ Sliding(p) => card[p] \in Slidable
      /\ Dragged(p) => card[p] \in Draggable
  BY <1>1 DEF Dragged, CardDrag, Sliding, EveryMoveSends, Draggable
<1>3. Sliding(p) => SliderDrawn(p) = knob[p].at
  BY <1>1 DEF SliderDrawn, LocalOr
<1>4. CASE card[p] = "tile"
  BY <1>1, <1>2, <1>3, <1>4 DEF Drawn, TileDrawn, Drawing
<1>5. CASE card[p] = "ring"
  BY <1>1, <1>2, <1>5 DEF Drawn, RingDrawn, Drawing, LocalOr, Slidable
<1>6. CASE card[p] = "player"
  BY <1>1, <1>2, <1>3, <1>6 DEF Drawn, PlayerDrawn, Drawing
<1>7. CASE card[p] = "mring"
  BY <1>1, <1>2, <1>7 DEF Drawn, MringDrawn, Drawing, LocalOr, Slidable
<1>8. CASE card[p] \in {"fan", "number"}
  BY <1>2, <1>3, <1>8 DEF Drawn, FanDrawn, NumberDrawn, Drawing, Draggable
<1>9. card[p] \notin {"theater", "cover", "switch"}
  BY <1>2 DEF Slidable, Draggable
<1>. QED
  BY <1>1, <1>4, <1>5, <1>6, <1>7, <1>8, <1>9 DEF CardKinds, LightCards, MediaCards

LEMMA LastOneCounts == CardsInv => LastGestureCounts
BY DEF CardsInv, WishInv, LastGestureCounts, Settled

(* With nothing on its way and no finger on a card every panel shows what  *)
(* the server holds, whatever was slid, tapped and refused on the way; the *)
(* value under a finger is never pulled back; and the last gesture made by *)
(* one panel alone is what the entity becomes.                             *)
THEOREM CardsAreTrue == CardsSpec => [](CardsAgree /\ FingerLeads /\ LastGestureCounts)
<1>1. CardsInv => CardsAgree /\ FingerLeads /\ LastGestureCounts
  BY PanelsAgree, FingersLead, LastOneCounts
<1>. QED
  BY <1>1, CardsStand, PTL

-----------------------------------------------------------------------------
(* The configuration (ConfigFile).  As long as nobody else writes, the     *)
(* file holds what the forms have sent until the page says it is applied,  *)
(* and a process that has started since, or that will not restart, runs it.*)
SentIsRunning ==
    form.doing # "idle" /\ form.alone =>
        /\ disk.conf = form.sent
        /\ (form.rebooted \/ form.doing = "reloading") /\ proc.up /\ ~proc.refused
              => proc.conf = form.sent

CfgInv == CfgTypeOK /\ RunsWhatIsThere /\ SentIsRunning

(* What each of them keeps has the shape the code gives it.                *)
DiskShape == disk \in [conf : Docs, source : 0..MaxUpdates, dist : 0..MaxUpdates]
ProcShape ==
    proc \in [up : BOOLEAN, conf : Docs, dist : 0..MaxUpdates, due : SUBSET {"pm2", "exit"},
              job : {"none", "pull", "build"}, refused : BOOLEAN]
ShelfShape == shelf \in [Snaps -> Docs \cup {NoDoc}]
FormShape ==
    form \in [values : Forms, answer : Docs \cup {NoDoc}, asked : BOOLEAN,
              doing : {"idle", "waiting", "reloading"}, sent : Docs \cup {NoDoc},
              alone : BOOLEAN, rebooted : BOOLEAN]
YamlShape == yamlTab \in [text : Docs \cup {NoDoc}, answer : Docs \cup {NoDoc}, asked : BOOLEAN]
BackupShape ==
    backup \in [open : BOOLEAN, listed : SUBSET Snaps, confirming : Snaps \cup {Nobody},
                answers : SUBSET SUBSET Snaps]
OtaShape == ota \in [sees : BOOLEAN, confirming : BOOLEAN]
RunsShape ==
    cfgRuns \in [tabs : Tabs, writes : 0..MaxWrites, edits : 0..MaxEdits, updates : 0..MaxUpdates,
                 faults : 0..MaxPm2Faults]

LEMMA CfgShapes ==
    CfgTypeOK <=> /\ DiskShape /\ ProcShape /\ ShelfShape /\ FormShape
                  /\ YamlShape /\ BackupShape /\ OtaShape /\ RunsShape
BY DEF CfgTypeOK, DiskShape, ProcShape, ShelfShape, FormShape, YamlShape, BackupShape, OtaShape,
       RunsShape

LEMMA CfgTypes ==
    ASSUME CfgTypeOK,
           disk' = disk \/ DiskShape', proc' = proc \/ ProcShape',
           shelf' = shelf \/ ShelfShape', form' = form \/ FormShape',
           yamlTab' = yamlTab \/ YamlShape', backup' = backup \/ BackupShape',
           ota' = ota \/ OtaShape', cfgRuns' = cfgRuns \/ RunsShape'
    PROVE  CfgTypeOK'
<1>1. DiskShape' /\ ProcShape'
  BY DEF CfgTypeOK, DiskShape, ProcShape
<1>2. ShelfShape' /\ FormShape'
  BY DEF CfgTypeOK, ShelfShape, FormShape
<1>3. YamlShape' /\ BackupShape'
  BY DEF CfgTypeOK, YamlShape, BackupShape
<1>4. OtaShape' /\ RunsShape'
  BY DEF CfgTypeOK, OtaShape, RunsShape
<1>5. CfgTypeOK' <=> /\ DiskShape' /\ ProcShape' /\ ShelfShape' /\ FormShape'
                     /\ YamlShape' /\ BackupShape' /\ OtaShape' /\ RunsShape'
  BY DEF CfgTypeOK, DiskShape, ProcShape, ShelfShape, FormShape, YamlShape, BackupShape, OtaShape,
         RunsShape
<1>. QED
  BY <1>1, <1>2, <1>3, <1>4, <1>5

(* The values they have then.                                              *)
LEMMA CfgShapeOf ==
    ASSUME CfgInv
    PROVE  /\ DiskShape /\ ProcShape /\ ShelfShape /\ FormShape
           /\ YamlShape /\ BackupShape /\ OtaShape /\ RunsShape
           /\ CfgTypeOK
BY CfgShapes DEF CfgInv

LEMMA CfgBegins == CfgInit => CfgInv
<1>. SUFFICES ASSUME CfgInit PROVE CfgInv
  OBVIOUS
<1>1. 0 \in 0 .. MaxUpdates /\ 0 \in 0 .. MaxWrites /\ 0 \in 0 .. MaxEdits /\ 0 \in 0 .. MaxPm2Faults
  BY ConfigAssumption
<1>2. PICK conf \in Docs :
         /\ disk = [conf |-> conf, source |-> 0, dist |-> 0]
         /\ proc = [up |-> TRUE, conf |-> conf, dist |-> 0, due |-> {}, job |-> "none",
                    refused |-> FALSE]
  BY DEF CfgInit
<1>3. PICK tabs \in Tabs :
         cfgRuns = [tabs |-> tabs, writes |-> 0, edits |-> 0, updates |-> 0, faults |-> 0]
  BY DEF CfgInit
<1>4. form = [values |-> Empty, answer |-> NoDoc, asked |-> FALSE, doing |-> "idle",
              sent |-> NoDoc, alone |-> TRUE, rebooted |-> FALSE] /\ Empty \in Forms
  BY DEF CfgInit, Empty, Forms
<1>5. CfgTypeOK
  BY <1>1, <1>2, <1>3, <1>4 DEF CfgInit, CfgTypeOK
<1>6. RunsWhatIsThere /\ SentIsRunning
  BY <1>2, <1>4 DEF RunsWhatIsThere, SentIsRunning
<1>. QED
  BY <1>5, <1>6 DEF CfgInv

(* Steps that leave the disk and the process alone, and of the forms what  *)
(* they wait for.                                                          *)
LEMMA CfgAside ==
    ASSUME CfgInv, CfgTypeOK', UNCHANGED <<disk, proc>>,
           form'.doing = form.doing, form'.sent = form.sent, form'.alone = form.alone,
           form'.rebooted = form.rebooted
    PROVE  CfgInv'
BY DEF CfgInv, RunsWhatIsThere, SentIsRunning

LEMMA ProcessFits == CfgInv /\ (Boot \/ Restart \/ Pm2Fails \/ UpdateFails) => CfgInv'
<1>. SUFFICES ASSUME CfgInv, Boot \/ Restart \/ Pm2Fails \/ UpdateFails PROVE CfgInv'
  OBVIOUS
<1>0. /\ DiskShape /\ ProcShape /\ FormShape /\ RunsShape /\ CfgTypeOK
      /\ RunsWhatIsThere /\ SentIsRunning
  BY CfgShapeOf DEF CfgInv
<1>1. CASE Boot
  <2>1. ProcShape' /\ proc'.up /\ proc'.conf = disk.conf /\ proc'.dist = disk.dist
    BY <1>0, <1>1 DEF Boot, ProcShape, DiskShape
  <2>2. FormShape' /\ form'.doing = form.doing /\ form'.sent = form.sent /\ form'.alone = form.alone
    BY <1>0, <1>1 DEF Boot, FormShape
  <2>3. UNCHANGED <<disk, shelf, yamlTab, backup, ota, cfgRuns>>
    BY <1>1 DEF Boot
  <2>4. CfgTypeOK'
    BY <1>0, <2>1, <2>2, <2>3, CfgTypes
  <2>. QED
    BY <1>0, <2>1, <2>2, <2>3, <2>4 DEF CfgInv, RunsWhatIsThere, SentIsRunning
<1>2. CASE Restart \/ UpdateFails
  <2>1. ProcShape' /\ ~proc'.up
    BY <1>0, <1>2 DEF Restart, UpdateFails, Dies, ProcShape
  <2>2. UNCHANGED <<disk, shelf, form, yamlTab, backup, ota, cfgRuns>>
    BY <1>2 DEF Restart, UpdateFails
  <2>3. CfgTypeOK'
    BY <1>0, <2>1, <2>2, CfgTypes
  <2>. QED
    BY <1>0, <2>1, <2>2, <2>3 DEF CfgInv, RunsWhatIsThere, SentIsRunning
<1>3. CASE Pm2Fails
  <2>1. cfgRuns.faults + 1 \in 0 .. MaxPm2Faults
    BY <1>0, <1>3, ConfigAssumption DEF Pm2Fails, RunsShape
  <2>2. RunsShape'
    BY <1>0, <1>3, <2>1 DEF Pm2Fails, RunsShape
  <2>3. ProcShape' /\ proc'.refused
    BY <1>0, <1>3 DEF Pm2Fails, ProcShape
  <2>4. UNCHANGED <<disk, shelf, form, yamlTab, backup, ota>>
    BY <1>3 DEF Pm2Fails
  <2>5. CfgTypeOK'
    BY <1>0, <2>2, <2>3, <2>4, CfgTypes
  <2>6. RunsWhatIsThere' /\ SentIsRunning'
    BY <1>0, <2>3, <2>4 DEF RunsWhatIsThere, SentIsRunning
  <2>. QED
    BY <2>5, <2>6 DEF CfgInv
<1>. QED
  BY <1>1, <1>2, <1>3

LEMMA StoredFits ==
    ASSUME CfgInv, MayWrite, NEW doc \in Docs, NEW way \in {"pm2", "exit"}, Stored(doc, way)
    PROVE  /\ DiskShape' /\ ProcShape' /\ RunsShape'
           /\ disk'.conf = doc /\ proc'.due # {}
<1>0. DiskShape /\ ProcShape /\ RunsShape
  BY CfgShapeOf
<1>1. cfgRuns.writes + 1 \in 0 .. MaxWrites
  BY <1>0, ConfigAssumption DEF MayWrite, RunsShape
<1>2. DiskShape' /\ disk'.conf = doc
  BY <1>0 DEF Stored, DiskShape
<1>3. ProcShape' /\ proc'.due # {}
  BY <1>0 DEF Stored, ProcShape
<1>4. RunsShape'
  BY <1>0, <1>1 DEF Stored, RunsShape
<1>. QED
  BY <1>2, <1>3, <1>4

LEMMA SaveFormsFits == CfgInv /\ SaveForms => CfgInv'
<1>. SUFFICES ASSUME CfgInv, SaveForms PROVE CfgInv'
  OBVIOUS
<1>0. FormShape /\ CfgTypeOK
  BY CfgShapeOf
<1>1. Sent \in Docs
  BY DEF Sent, Docs
<1>2. DiskShape' /\ ProcShape' /\ RunsShape' /\ disk'.conf = Sent /\ proc'.due # {}
  BY <1>1, StoredFits DEF SaveForms
<1>. HIDE DEF Sent
<1>3. FormShape' /\ form'.doing = "waiting" /\ form'.sent = Sent /\ ~form'.rebooted
  BY <1>0, <1>1 DEF SaveForms, FormShape
<1>4. UNCHANGED <<shelf, yamlTab, backup, ota>>
  BY DEF SaveForms
<1>5. CfgTypeOK'
  BY <1>0, <1>2, <1>3, <1>4, CfgTypes
<1>. QED
  BY <1>2, <1>3, <1>5 DEF CfgInv, RunsWhatIsThere, SentIsRunning

LEMMA WaitFits == CfgInv /\ (Healthy \/ GivesUp \/ ReloadForms) => CfgInv'
<1>. SUFFICES ASSUME CfgInv, Healthy \/ GivesUp \/ ReloadForms PROVE CfgInv'
  OBVIOUS
<1>0. ProcShape /\ FormShape /\ CfgTypeOK /\ RunsWhatIsThere /\ SentIsRunning
  BY CfgShapeOf DEF CfgInv
<1>1. UNCHANGED <<disk, proc, shelf, yamlTab, backup, ota, cfgRuns>>
  BY DEF Healthy, GivesUp, ReloadForms
<1>2. CASE Healthy
  <2>1. FormShape'
    BY <1>0, <1>2 DEF Healthy, FormShape
  <2>2. /\ form'.sent = form.sent /\ form'.alone = form.alone
        /\ form.doing = "waiting" /\ (form.rebooted \/ proc.due = {})
    BY <1>0, <1>2 DEF Healthy, FormShape
  <2>3. CfgTypeOK'
    BY <1>0, <1>1, <2>1, CfgTypes
  <2>. QED
    BY <1>0, <1>1, <2>2, <2>3 DEF CfgInv, RunsWhatIsThere, SentIsRunning
<1>3. CASE GivesUp \/ ReloadForms
  <2>1. proc.conf \in Forms
    BY <1>0 DEF ProcShape, Docs, Forms
  <2>2. FormShape' /\ form'.doing = "idle"
    BY <1>0, <1>3, <2>1 DEF GivesUp, ReloadForms, FormShape
  <2>3. CfgTypeOK'
    BY <1>0, <1>1, <2>2, CfgTypes
  <2>4. RunsWhatIsThere' /\ SentIsRunning'
    BY <1>0, <1>1, <2>2 DEF RunsWhatIsThere, SentIsRunning
  <2>. QED
    BY <2>3, <2>4 DEF CfgInv
<1>. QED
  BY <1>2, <1>3

LEMMA FormsFit == CfgInv /\ (OpenForms \/ FormsLoaded \/ EditForm) => CfgInv'
<1>. SUFFICES ASSUME CfgInv, OpenForms \/ FormsLoaded \/ EditForm PROVE CfgInv'
  OBVIOUS
<1>1. ProcShape /\ FormShape /\ RunsShape /\ CfgTypeOK
  BY CfgShapeOf
<1>2. CASE OpenForms
  <2>1. UNCHANGED <<disk, proc, shelf, yamlTab, backup, ota, cfgRuns>>
    BY <1>2 DEF OpenForms
  <2>2. /\ FormShape' /\ form'.doing = form.doing /\ form'.sent = form.sent
        /\ form'.alone = form.alone /\ form'.rebooted = form.rebooted
    BY <1>1, <1>2 DEF OpenForms, FormShape, ProcShape
  <2>. QED
    BY <1>1, <2>1, <2>2, CfgTypes, CfgAside
<1>3. CASE FormsLoaded
  <2>1. form.answer \in Docs
    BY <1>1, <1>3 DEF FormsLoaded, FormShape
  <2>. DEFINE new == [i \in Known |-> IF form.answer[i] # Off THEN form.answer[i]
                                      ELSE form.values[i]]
  <2>2. new \in Forms
    BY <1>1, <2>1 DEF FormShape, Docs, Forms
  <2>3. form' = [form EXCEPT !.answer = NoDoc, !.values = new]
        /\ UNCHANGED <<disk, proc, shelf, yamlTab, backup, ota, cfgRuns>>
    BY <1>3 DEF FormsLoaded
  <2>. HIDE DEF new
  <2>4. /\ FormShape' /\ form'.doing = form.doing /\ form'.sent = form.sent
        /\ form'.alone = form.alone /\ form'.rebooted = form.rebooted
    BY <1>1, <2>2, <2>3 DEF FormShape
  <2>. QED
    BY <1>1, <2>3, <2>4, CfgTypes, CfgAside
<1>4. CASE EditForm
  <2>1. PICK i \in Formed, v \in Settings \cup {Blank} : form' = [form EXCEPT !.values[i] = v]
    BY <1>4 DEF EditForm
  <2>2. [form.values EXCEPT ![i] = v] \in Forms
    BY <1>1 DEF FormShape, Forms
  <2>3. cfgRuns.edits + 1 \in 0 .. MaxEdits
    BY <1>1, <1>4, ConfigAssumption DEF EditForm, RunsShape
  <2>4. RunsShape'
    BY <1>1, <1>4, <2>3 DEF EditForm, RunsShape
  <2>5. /\ FormShape' /\ form'.doing = form.doing /\ form'.sent = form.sent
        /\ form'.alone = form.alone /\ form'.rebooted = form.rebooted
    BY <1>1, <2>1, <2>2 DEF FormShape
  <2>6. UNCHANGED <<disk, proc, shelf, yamlTab, backup, ota>>
    BY <1>4 DEF EditForm
  <2>. QED
    BY <1>1, <2>4, <2>5, <2>6, CfgTypes, CfgAside
<1>. QED
  BY <1>2, <1>3, <1>4

LEMMA YamlFits == CfgInv /\ (OpenYaml \/ YamlLoaded \/ EditYaml) => CfgInv'
<1>. SUFFICES ASSUME CfgInv, OpenYaml \/ YamlLoaded \/ EditYaml PROVE CfgInv'
  OBVIOUS
<1>1. DiskShape /\ YamlShape /\ RunsShape /\ CfgTypeOK
  BY CfgShapeOf
<1>2. UNCHANGED <<disk, proc, shelf, form, backup, ota>>
  BY DEF OpenYaml, YamlLoaded, EditYaml
<1>3. YamlShape' /\ (cfgRuns' = cfgRuns \/ RunsShape')
  <2>1. CASE OpenYaml
    BY <1>1, <2>1 DEF OpenYaml, YamlShape, DiskShape
  <2>2. CASE YamlLoaded
    BY <1>1, <2>2 DEF YamlLoaded, YamlShape
  <2>3. CASE EditYaml
    <3>1. PICK i \in Known, v \in Settings \cup {Off} : yamlTab' = [yamlTab EXCEPT !.text[i] = v]
      BY <2>3 DEF EditYaml
    <3>2. yamlTab.text \in Docs
      BY <1>1, <2>3 DEF EditYaml, YamlShape
    <3>3. [yamlTab.text EXCEPT ![i] = v] \in Docs
      BY <3>2 DEF Docs
    <3>4. cfgRuns.edits + 1 \in 0 .. MaxEdits
      BY <1>1, <2>3, ConfigAssumption DEF EditYaml, RunsShape
    <3>5. RunsShape'
      BY <1>1, <2>3, <3>4 DEF EditYaml, RunsShape
    <3>6. YamlShape'
      BY <1>1, <3>1, <3>3 DEF YamlShape
    <3>. QED
      BY <3>5, <3>6
  <2>. QED
    BY <2>1, <2>2, <2>3
<1>. QED
  BY <1>1, <1>2, <1>3, CfgTypes, CfgAside

(* Others who write the file are in the way of the forms from then on.     *)
LEMMA OthersFit == CfgInv /\ (SaveYaml \/ RestoreSnapshot) => CfgInv'
<1>. SUFFICES ASSUME CfgInv, SaveYaml \/ RestoreSnapshot PROVE CfgInv'
  OBVIOUS
<1>0. FormShape /\ BackupShape /\ ShelfShape /\ YamlShape /\ CfgTypeOK
  BY CfgShapeOf
<1>1. ASSUME MayWrite, Crowded, NEW doc \in Docs, NEW way \in {"pm2", "exit"}, Stored(doc, way),
             backup' = backup \/ BackupShape', UNCHANGED <<shelf, yamlTab, ota>>
      PROVE  CfgInv'
  <2>1. DiskShape' /\ ProcShape' /\ RunsShape' /\ proc'.due # {}
    BY <1>1, StoredFits
  <2>2. FormShape' /\ ~form'.alone
    BY <1>0, <1>1 DEF Crowded, FormShape
  <2>3. CfgTypeOK'
    BY <1>0, <1>1, <2>1, <2>2, CfgTypes
  <2>. QED
    BY <2>1, <2>2, <2>3 DEF CfgInv, RunsWhatIsThere, SentIsRunning
<1>2. CASE SaveYaml
  <2>1. yamlTab.text \in Docs
    BY <1>0, <1>2 DEF SaveYaml, YamlShape
  <2>. QED
    BY <1>1, <1>2, <2>1 DEF SaveYaml
<1>3. CASE RestoreSnapshot
  <2>1. BackupShape'
    BY <1>0, <1>3 DEF RestoreSnapshot, BackupShape
  <2>2. backup.confirming \in Snaps
    BY <1>0, <1>3 DEF RestoreSnapshot, Confirmed, BackupShape
  <2>3. CASE shelf[backup.confirming] = NoDoc
    <3>1. UNCHANGED <<disk, proc, cfgRuns, form, shelf, yamlTab, ota>>
      BY <1>3, <2>3 DEF RestoreSnapshot
    <3>. QED
      BY <1>0, <2>1, <3>1, CfgTypes, CfgAside
  <2>4. CASE shelf[backup.confirming] # NoDoc
    <3>1. shelf[backup.confirming] \in Docs
      BY <1>0, <2>2, <2>4 DEF ShelfShape
    <3>2. Stored(shelf[backup.confirming], "exit") /\ Crowded
      BY <1>3, <2>4 DEF RestoreSnapshot
    <3>. QED
      BY <1>1, <1>3, <2>1, <3>1, <3>2 DEF RestoreSnapshot
  <2>. QED
    BY <2>3, <2>4
<1>. QED
  BY <1>2, <1>3

LEMMA BackupsFit ==
    CfgInv /\ (OpenBackups \/ SnapshotsListed \/ CreateSnapshot \/ ConfirmSaved \/ DeleteSnapshot)
        => CfgInv'
<1>. SUFFICES ASSUME CfgInv, \/ OpenBackups \/ SnapshotsListed \/ CreateSnapshot \/ ConfirmSaved
                             \/ DeleteSnapshot
              PROVE  CfgInv'
  OBVIOUS
<1>1. DiskShape /\ ShelfShape /\ BackupShape /\ CfgTypeOK
  BY CfgShapeOf
<1>2. There \in SUBSET Snaps
  BY DEF There
<1>. HIDE DEF There
<1>3. UNCHANGED <<disk, proc, form, yamlTab, ota, cfgRuns>>
  BY DEF OpenBackups, SnapshotsListed, CreateSnapshot, ConfirmSaved, DeleteSnapshot
<1>4. BackupShape' /\ (shelf' = shelf \/ ShelfShape')
  <2>1. CASE OpenBackups
    BY <1>1, <1>2, <2>1 DEF OpenBackups, BackupShape
  <2>2. CASE SnapshotsListed
    <3>1. PICK l \in backup.answers :
             backup' = [backup EXCEPT !.answers = @ \ {l}, !.listed = l]
      BY <2>2 DEF SnapshotsListed
    <3>2. l \in SUBSET Snaps /\ backup.answers \ {l} \in SUBSET SUBSET Snaps
      BY <1>1 DEF BackupShape
    <3>. QED
      BY <1>1, <2>2, <3>1, <3>2 DEF SnapshotsListed, BackupShape
  <2>3. CASE CreateSnapshot
    <3>1. PICK s \in Snaps : /\ shelf' = [shelf EXCEPT ![s] = disk.conf]
                             /\ backup' = [backup EXCEPT !.answers = @ \cup {There \cup {s}}]
      BY <2>3 DEF CreateSnapshot
    <3>2. backup.answers \cup {There \cup {s}} \in SUBSET SUBSET Snaps
      BY <1>1, <1>2 DEF BackupShape
    <3>3. ShelfShape'
      BY <1>1, <3>1 DEF ShelfShape, DiskShape
    <3>. QED
      BY <1>1, <3>1, <3>2, <3>3 DEF BackupShape
  <2>4. CASE ConfirmSaved
    <3>1. PICK s \in backup.listed : backup' = [backup EXCEPT !.confirming = s]
      BY <2>4 DEF ConfirmSaved
    <3>2. s \in Snaps
      BY <1>1 DEF BackupShape
    <3>. QED
      BY <1>1, <2>4, <3>1, <3>2 DEF ConfirmSaved, BackupShape
  <2>5. CASE DeleteSnapshot
    <3>1. backup.answers \cup {There \ {backup.confirming}} \in SUBSET SUBSET Snaps
      BY <1>1, <1>2 DEF BackupShape
    <3>2. ShelfShape'
      BY <1>1, <2>5 DEF DeleteSnapshot, ShelfShape
    <3>. QED
      BY <1>1, <2>5, <3>1, <3>2 DEF DeleteSnapshot, BackupShape
  <2>. QED
    BY <2>1, <2>2, <2>3, <2>4, <2>5
<1>. QED
  BY <1>1, <1>3, <1>4, CfgTypes, CfgAside

LEMMA UpdatesFit == CfgInv /\ (CheckUpdates \/ AskUpdate \/ UpdateServer \/ UpdateStep) => CfgInv'
<1>. SUFFICES ASSUME CfgInv, CheckUpdates \/ AskUpdate \/ UpdateServer \/ UpdateStep PROVE CfgInv'
  OBVIOUS
<1>1. /\ DiskShape /\ ProcShape /\ OtaShape /\ RunsShape /\ CfgTypeOK
      /\ RunsWhatIsThere /\ SentIsRunning
  BY CfgShapeOf DEF CfgInv
<1>2. CASE CheckUpdates \/ AskUpdate
  <2>1. OtaShape'
    BY <1>1, <1>2 DEF CheckUpdates, AskUpdate, OtaShape
  <2>2. UNCHANGED <<disk, proc, shelf, form, yamlTab, backup, cfgRuns>>
    BY <1>2 DEF CheckUpdates, AskUpdate
  <2>. QED
    BY <1>1, <2>1, <2>2, CfgTypes, CfgAside
<1>3. CASE UpdateServer
  <2>1. cfgRuns.updates + 1 \in 0 .. MaxUpdates
    BY <1>1, <1>3, ConfigAssumption DEF UpdateServer, RunsShape
  <2>2. RunsShape'
    BY <1>1, <1>3, <2>1 DEF UpdateServer, RunsShape
  <2>3. OtaShape'
    BY <1>1, <1>3 DEF UpdateServer, OtaShape
  <2>4. /\ ProcShape' /\ proc'.up = proc.up /\ proc'.due = proc.due /\ proc'.refused = proc.refused
        /\ proc'.conf = proc.conf /\ proc'.dist = proc.dist
    BY <1>1, <1>3 DEF UpdateServer, ProcShape
  <2>5. UNCHANGED <<disk, shelf, form, yamlTab, backup>>
    BY <1>3 DEF UpdateServer
  <2>6. CfgTypeOK'
    BY <1>1, <2>2, <2>3, <2>4, <2>5, CfgTypes
  <2>. QED
    BY <1>1, <2>4, <2>5, <2>6 DEF CfgInv, RunsWhatIsThere, SentIsRunning
<1>4. CASE UpdateStep
  <2>1. MaxUpdates \in 0 .. MaxUpdates
    BY ConfigAssumption
  <2>2. UNCHANGED <<shelf, form, yamlTab, backup, ota, cfgRuns>>
    BY <1>4 DEF UpdateStep
  <2>3. CASE proc.job = "pull"
    <3>1. disk' = [disk EXCEPT !.source = MaxUpdates] /\ proc' = [proc EXCEPT !.job = "build"]
      BY <1>4, <2>3 DEF UpdateStep
    <3>2. DiskShape' /\ disk'.conf = disk.conf /\ disk'.dist = disk.dist
      BY <1>1, <2>1, <3>1 DEF DiskShape
    <3>3. /\ ProcShape' /\ proc'.up = proc.up /\ proc'.due = proc.due
          /\ proc'.refused = proc.refused /\ proc'.conf = proc.conf /\ proc'.dist = proc.dist
      BY <1>1, <3>1 DEF ProcShape
    <3>4. CfgTypeOK'
      BY <1>1, <2>2, <3>2, <3>3, CfgTypes
    <3>. QED
      BY <1>1, <2>2, <3>2, <3>3, <3>4 DEF CfgInv, RunsWhatIsThere, SentIsRunning
  <2>4. CASE proc.job = "build"
    <3>1. /\ disk' = [disk EXCEPT !.dist = disk.source]
          /\ proc' = [proc EXCEPT !.job = "none", !.due = @ \cup {"exit"}]
      BY <1>4, <2>4 DEF UpdateStep
    <3>2. DiskShape' /\ disk'.conf = disk.conf
      BY <1>1, <3>1 DEF DiskShape
    <3>3. /\ ProcShape' /\ proc'.up = proc.up /\ proc'.due # {}
          /\ proc'.refused = proc.refused /\ proc'.conf = proc.conf
      BY <1>1, <3>1 DEF ProcShape
    <3>4. CfgTypeOK'
      BY <1>1, <2>2, <3>2, <3>3, CfgTypes
    <3>. QED
      BY <1>1, <2>2, <3>2, <3>3, <3>4 DEF CfgInv, RunsWhatIsThere, SentIsRunning
  <2>. QED
    BY <1>4, <2>3, <2>4 DEF UpdateStep
<1>. QED
  BY <1>2, <1>3, <1>4

LEMMA CfgStep == CfgInv /\ [CfgNext]_cfgVars => CfgInv'
<1>1. CfgInv /\ UNCHANGED cfgVars => CfgInv'
  BY DEF cfgVars, CfgInv, CfgTypeOK, RunsWhatIsThere, SentIsRunning
<1>. QED
  BY <1>1, ProcessFits, SaveFormsFits, WaitFits, FormsFit, YamlFits, OthersFit, BackupsFit,
     UpdatesFit DEF CfgNext

(* When the page stops reloading, what it has sent is what runs.           *)
LEMMA AppliedRuns ==
    ASSUME CfgInv, [CfgNext]_cfgVars, form.doing = "reloading", form'.doing = "idle",
           proc.up, form.alone, ~proc.refused
    PROVE  proc.conf = form.sent /\ form'.values = form.sent
<1>0. FormShape
  BY CfgShapeOf
<1>1. proc.conf = form.sent
  BY DEF CfgInv, SentIsRunning
<1>2. CASE ReloadForms
  BY <1>0, <1>1, <1>2 DEF ReloadForms, FormShape
<1>3. CASE UNCHANGED form
  BY <1>3
<1>4. CASE Boot \/ OpenForms \/ FormsLoaded \/ EditForm
  <2>1. form'.doing = form.doing
    BY <1>0, <1>4 DEF Boot, OpenForms, FormsLoaded, EditForm, FormShape
  <2>. QED
    BY <2>1
<1>5. CASE SaveForms \/ Healthy \/ GivesUp
  BY <1>0, <1>5 DEF SaveForms, Healthy, GivesUp, FormShape
<1>6. CASE SaveYaml \/ RestoreSnapshot
  <2>1. form'.doing = form.doing
    BY <1>0, <1>6 DEF SaveYaml, RestoreSnapshot, Crowded, FormShape
  <2>. QED
    BY <2>1
<1>7. ASSUME \/ Restart \/ Pm2Fails \/ OpenYaml \/ YamlLoaded \/ EditYaml
             \/ OpenBackups \/ SnapshotsListed \/ CreateSnapshot \/ ConfirmSaved
             \/ DeleteSnapshot
             \/ CheckUpdates \/ AskUpdate \/ UpdateServer \/ UpdateStep \/ UpdateFails
      PROVE  UNCHANGED form
  BY <1>7 DEF Restart, Pm2Fails, OpenYaml, YamlLoaded, EditYaml, OpenBackups, SnapshotsListed,
              CreateSnapshot, ConfirmSaved, DeleteSnapshot, CheckUpdates, AskUpdate, UpdateServer,
              UpdateStep, UpdateFails
<1>. QED
  BY <1>2, <1>3, <1>4, <1>5, <1>6, <1>7 DEF CfgNext, cfgVars

LEMMA CfgStands == CfgSpec => []CfgInv
BY CfgBegins, CfgStep, PTL DEF CfgSpec

(* A process that is not about to restart runs what is on the disk, unless *)
(* pm2 refused to restart it, whoever wrote and built; and when the page   *)
(* says that its forms are applied they are, unless others wrote as well.  *)
THEOREM DiskIsRunning == CfgSpec => []RunsWhatIsThere /\ AppliedIsRunning
<1>1. CfgInv => RunsWhatIsThere
  BY DEF CfgInv
<1>2. CfgInv /\ [CfgNext]_cfgVars
        => [form.doing = "reloading" /\ form'.doing = "idle" /\ proc.up
            /\ form.alone /\ ~proc.refused
              => proc.conf = form.sent /\ form'.values = form.sent]_cfgVars
  BY AppliedRuns
<1>. QED
  BY <1>1, <1>2, CfgStands, PTL DEF CfgSpec, AppliedIsRunning

-----------------------------------------------------------------------------
(* The automations (AutomationFile).  What has been read and what the page *)
(* still waits for is the file's, as long as no save was hasty; and what   *)
(* the file has and the text has not, somebody has removed.                *)
AText == [ok : BOOLEAN, entries : Seq(Entries)]

FileShape ==
    /\ autoFile \in AText /\ watcher \in BOOLEAN
    /\ autoPage \in [tab : {"list", "new", "edit", "ai"}, yaml : AText, dirty : BOOLEAN,
                     answer : AText \cup {NoText}, saving : BOOLEAN,
                     ideas : SUBSET Suggestions, removed : SUBSET Entries,
                     read : BOOLEAN, hasty : BOOLEAN]

TextIsFile ==
    ~autoPage.hasty =>
        /\ autoPage.answer # NoText => autoPage.answer = autoFile
        /\ autoPage.read => ToSet(autoFile.entries) \ ToSet(autoPage.yaml.entries)
                              \subseteq autoPage.removed

FileInv == FileShape /\ EngineFollowsFile /\ TextIsFile

LEMMA FileBegins == AutoInit => FileInv
<1>. SUFFICES ASSUME AutoInit PROVE FileInv
  OBVIOUS
<1>1. PICK e \in Hand : autoFile = [ok |-> TRUE, entries |-> <<e>>]
  BY DEF AutoInit
<1>2. <<e>> \in Seq(Entries) /\ << >> \in Seq(Entries)
  BY DEF Entries
<1>3. autoFile \in AText /\ NoEntries \in AText
  BY <1>1, <1>2 DEF AText, NoEntries
<1>. HIDE DEF AText
<1>4. FileShape
  BY <1>3 DEF AutoInit, FileShape
<1>5. EngineFollowsFile /\ TextIsFile
  BY DEF AutoInit, EngineFollowsFile, TextIsFile
<1>. QED
  BY <1>4, <1>5 DEF FileInv

(* What is written behind what is there keeps what is there.               *)
LEMMA AppendKeeps ==
    ASSUME NEW s \in Seq(Entries), NEW e \in Entries
    PROVE  Append(s, e) \in Seq(Entries) /\ ToSet(s) \subseteq ToSet(Append(s, e))
<1>1. Append(s, e) \in Seq(Entries) /\ Len(Append(s, e)) = Len(s) + 1
      /\ \A i \in 1 .. Len(s) : Append(s, e)[i] = s[i]
  OBVIOUS
<1>2. DOMAIN s = 1 .. Len(s) /\ DOMAIN Append(s, e) = 1 .. Len(s) + 1 /\ Len(s) \in Nat
  BY <1>1
<1>3. ASSUME NEW x \in ToSet(s) PROVE x \in ToSet(Append(s, e))
  <2>1. PICK i \in DOMAIN s : x = s[i]
    BY <1>3 DEF ToSet
  <2>2. i \in DOMAIN Append(s, e) /\ Append(s, e)[i] = x
    BY <1>1, <1>2, <2>1
  <2>. QED
    BY <2>2 DEF ToSet
<1>. QED
  BY <1>1, <1>3

LEMMA FrontIsText ==
    ASSUME NEW s \in Seq(Entries), s # << >>
    PROVE  Front(s) \in Seq(Entries)
<1>1. Len(s) \in Nat /\ Len(s) > 0 /\ \A i \in 1 .. Len(s) : s[i] \in Entries
  OBVIOUS
<1>2. Front(s) = [i \in 1 .. Len(s) - 1 |-> s[i]]
  BY <1>1 DEF Front
<1>. QED
  BY <1>1, <1>2

LEMMA ElementsOfText == \A s \in Seq(Entries) : ToSet(s) \subseteq Entries
BY DEF ToSet

(* A text that keeps what is there, and one typed by hand.                 *)
LEMMA AppendFits ==
    ASSUME FileInv, NEW e \in Entries, Appended(e), UNCHANGED <<autoFile, watcher, engine>>
    PROVE  FileInv'
<1>. DEFINE new == [autoPage.yaml EXCEPT !.entries = Append(autoPage.yaml.entries, e)]
<1>1. autoPage.yaml.entries \in Seq(Entries) /\ autoPage.yaml \in AText
  BY DEF FileInv, FileShape, AText
<1>2. /\ new \in AText /\ new.entries = Append(autoPage.yaml.entries, e)
      /\ ToSet(autoPage.yaml.entries) \subseteq ToSet(new.entries)
  BY <1>1, AppendKeeps DEF AText
<1>3. autoPage' = [autoPage EXCEPT !.tab = "edit", !.dirty = TRUE, !.yaml = new]
  BY DEF Appended, FileInv, FileShape
<1>. HIDE DEF new, AText
<1>4. FileShape' /\ autoPage'.hasty = autoPage.hasty /\ autoPage'.answer = autoPage.answer
      /\ autoPage'.read = autoPage.read /\ autoPage'.removed = autoPage.removed
      /\ autoPage'.yaml = new
  BY <1>2, <1>3 DEF FileInv, FileShape
<1>. QED
  BY <1>2, <1>4 DEF FileInv, EngineFollowsFile, TextIsFile

LEMMA TypeFits ==
    ASSUME FileInv, Type
    PROVE  FileInv'
<1>1. PICK e \in Hand :
         \E text \in {[autoPage.yaml EXCEPT !.entries = Append(@, e)],
                      [autoPage.yaml EXCEPT !.entries = IF @ = << >> THEN @ ELSE Front(@)],
                      [autoPage.yaml EXCEPT !.ok = ~@]} :
            autoPage' = [autoPage EXCEPT !.yaml = text, !.dirty = TRUE,
               !.removed = @ \cup (ToSet(autoPage.yaml.entries) \ ToSet(text.entries))]
  BY DEF Type
<1>2. PICK text \in {[autoPage.yaml EXCEPT !.entries = Append(@, e)],
                     [autoPage.yaml EXCEPT !.entries = IF @ = << >> THEN @ ELSE Front(@)],
                     [autoPage.yaml EXCEPT !.ok = ~@]} :
         autoPage' = [autoPage EXCEPT !.yaml = text, !.dirty = TRUE,
            !.removed = @ \cup (ToSet(autoPage.yaml.entries) \ ToSet(text.entries))]
  BY <1>1
<1>3. autoPage.yaml.entries \in Seq(Entries) /\ autoPage.yaml \in AText /\ e \in Entries
  BY DEF FileInv, FileShape, AText, Entries
<1>4. text \in AText
  <2>1. Append(autoPage.yaml.entries, e) \in Seq(Entries)
    BY <1>3, AppendKeeps
  <2>2. (IF autoPage.yaml.entries = << >> THEN autoPage.yaml.entries
         ELSE Front(autoPage.yaml.entries)) \in Seq(Entries)
    BY <1>3, FrontIsText
  <2>. QED
    BY <1>2, <1>3, <2>1, <2>2 DEF AText
<1>5. ToSet(autoPage.yaml.entries) \subseteq Entries
  BY <1>3, ElementsOfText
<1>6. FileShape' /\ autoPage'.hasty = autoPage.hasty /\ autoPage'.answer = autoPage.answer
      /\ autoPage'.read = autoPage.read /\ autoPage'.yaml = text
      /\ autoPage'.removed
           = autoPage.removed \cup (ToSet(autoPage.yaml.entries) \ ToSet(text.entries))
      /\ UNCHANGED <<autoFile, watcher, engine>>
  <2>. HIDE DEF AText
  <2>1. UNCHANGED <<autoFile, watcher, engine>>
    BY DEF Type, Typing
  <2>2. autoPage.removed \cup (ToSet(autoPage.yaml.entries) \ ToSet(text.entries)) \in SUBSET Entries
    BY <1>5 DEF FileInv, FileShape
  <2>. QED
    BY <1>2, <1>4, <2>1, <2>2 DEF FileInv, FileShape
<1>. QED
  BY <1>6 DEF FileInv, EngineFollowsFile, TextIsFile

LEMMA SaveTextFits ==
    ASSUME FileInv, SaveYamlText
    PROVE  /\ FileInv'
           /\ ~autoPage'.hasty => ToSet(autoFile.entries) \ ToSet(autoFile'.entries)
                                    \subseteq autoPage.removed
<1>1. /\ autoFile' = autoPage.yaml /\ watcher' = TRUE /\ engine' = engine
      /\ autoPage' = [autoPage EXCEPT !.saving = TRUE,
                       !.hasty = @ \/ ~autoPage.read \/ autoPage.answer # NoText]
  BY DEF SaveYamlText, Written
<1>. DEFINE rash == autoPage.hasty \/ ~autoPage.read \/ autoPage.answer # NoText
<1>2. rash \in BOOLEAN
  OBVIOUS
<1>3. autoPage' = [autoPage EXCEPT !.saving = TRUE, !.hasty = rash]
  BY <1>1
<1>. HIDE DEF rash
<1>4. /\ FileShape' /\ autoPage'.hasty = rash /\ autoPage'.answer = autoPage.answer
      /\ autoPage'.read = autoPage.read /\ autoPage'.yaml = autoPage.yaml
      /\ autoPage'.removed = autoPage.removed
  BY <1>1, <1>2, <1>3 DEF FileInv, FileShape
<1>5. TextIsFile'
  BY <1>1, <1>4 DEF TextIsFile, rash
<1>6. EngineFollowsFile'
  BY <1>1 DEF EngineFollowsFile
<1>. QED
  BY <1>1, <1>4, <1>5, <1>6 DEF FileInv, TextIsFile, rash

LEMMA PageFits ==
    ASSUME FileInv, OpenTab \/ TextArrives \/ LoadFails \/ Suggest \/ SavedAnswer
    PROVE  FileInv'
<1>. USE DEF FileInv
<1>0. UNCHANGED <<autoFile, watcher, engine>>
  BY DEF OpenTab, TextArrives, LoadFails, Suggest, SavedAnswer
<1>1. CASE OpenTab
  <2>1. PICK t \in {"new", "edit", "ai"} :
           autoPage' = Loading([autoPage EXCEPT !.tab = t])
    BY <1>1 DEF OpenTab
  <2>. DEFINE page == [autoPage EXCEPT !.tab = t]
  <2>2. /\ page \in [tab : {"list", "new", "edit", "ai"}, yaml : AText, dirty : BOOLEAN,
                     answer : AText \cup {NoText}, saving : BOOLEAN,
                     ideas : SUBSET Suggestions, removed : SUBSET Entries,
                     read : BOOLEAN, hasty : BOOLEAN]
        /\ page.hasty = autoPage.hasty /\ page.answer = autoPage.answer
        /\ page.read = autoPage.read /\ page.yaml = autoPage.yaml
        /\ page.removed = autoPage.removed
    BY DEF FileShape
  <2>3. autoPage' = [page EXCEPT !.answer = autoFile] \/ autoPage' = page
    BY <2>1 DEF Loading
  <2>. HIDE DEF page, AText
  <2>4. FileShape' /\ autoPage'.hasty = autoPage.hasty
        /\ autoPage'.answer \in {autoPage.answer, autoFile}
        /\ autoPage'.read = autoPage.read /\ autoPage'.yaml = autoPage.yaml
        /\ autoPage'.removed = autoPage.removed
    BY <1>0, <2>2, <2>3 DEF FileShape
  <2>. QED
    BY <1>0, <2>4 DEF EngineFollowsFile, TextIsFile
<1>2. CASE TextArrives
  <2>1. FileShape' /\ autoPage'.hasty = autoPage.hasty /\ autoPage'.answer = NoText
        /\ autoPage'.yaml = autoPage.answer /\ autoPage'.removed = autoPage.removed
        /\ autoPage.answer # NoText
    BY <1>0, <1>2 DEF TextArrives, FileShape
  <2>. QED
    BY <1>0, <2>1 DEF EngineFollowsFile, TextIsFile
<1>3. CASE LoadFails \/ Suggest \/ SavedAnswer
  <2>1. FileShape' /\ autoPage'.hasty = autoPage.hasty
        /\ autoPage'.answer \in {autoPage.answer, NoText}
        /\ autoPage'.read = autoPage.read /\ autoPage'.yaml = autoPage.yaml
        /\ autoPage'.removed = autoPage.removed
    <3>1. CASE LoadFails
      BY <1>0, <3>1 DEF LoadFails, FileShape
    <3>2. CASE Suggest
      BY <1>0, <3>2 DEF Suggest, FileShape
    <3>3. CASE SavedAnswer
      BY <1>0, <3>3 DEF SavedAnswer, FileShape
    <3>. QED
      BY <1>3, <3>1, <3>2, <3>3
  <2>. QED
    BY <1>0, <2>1 DEF EngineFollowsFile, TextIsFile
<1>. QED
  BY <1>1, <1>2, <1>3

LEMMA FileStep == FileInv /\ [AutoNext]_autoVars => FileInv'
<1>. SUFFICES ASSUME FileInv, [AutoNext]_autoVars PROVE FileInv'
  OBVIOUS
<1>1. CASE UNCHANGED autoVars
  BY <1>1 DEF autoVars, FileInv, FileShape, EngineFollowsFile, TextIsFile
<1>2. CASE ReloadFile
  <2>1. watcher' = FALSE /\ UNCHANGED <<autoFile, autoPage>>
        /\ engine' = IF autoFile.ok THEN UpToFault(autoFile.entries) ELSE engine
    BY <1>2 DEF ReloadFile
  <2>. QED
    BY <2>1 DEF FileInv, FileShape, EngineFollowsFile, TextIsFile
<1>3. CASE Generate
  BY <1>3, AppendFits DEF Generate, Typing, Entries
<1>4. CASE Apply
  <2>1. PICK s \in autoPage.ideas : Appended(s)
    BY <1>4 DEF Apply
  <2>2. s \in Entries
    BY DEF FileInv, FileShape, Entries
  <2>. QED
    BY <1>4, <2>1, <2>2, AppendFits DEF Apply, Typing
<1>. QED
  BY <1>1, <1>2, <1>3, <1>4, TypeFits, SaveTextFits, PageFits DEF AutoNext

LEMMA FileStands == AutoSpec => []FileInv
BY FileBegins, FileStep, PTL DEF AutoSpec

(* However often and quickly automations.yaml is written, the engine runs  *)
(* what it says once the watcher's timer has run out; text that does not   *)
(* parse stops nothing; and a save of the page drops no automation that    *)
(* nobody has removed, unless some save was made before the file was read. *)
THEOREM AutomationsAreThere ==
    AutoSpec => []EngineFollowsFile /\ BrokenTextStopsNone /\ SaveKeepsOthers
<1>1. FileInv => EngineFollowsFile
  BY DEF FileInv
<1>2. [AutoNext]_autoVars => [~autoFile.ok => engine' = engine]_autoVars
  BY DEF AutoNext, ReloadFile, OpenTab, TextArrives, LoadFails, Generate, Suggest, Apply, Type,
         Typing, SaveYamlText, SavedAnswer
<1>3. FileInv /\ [AutoNext]_autoVars
        => [autoFile' # autoFile /\ ~autoPage'.hasty =>
              ToSet(autoFile.entries) \ ToSet(autoFile'.entries) \subseteq autoPage.removed]_autoVars
  <2>1. AutoNext => autoFile' = autoFile \/ SaveYamlText
    BY DEF AutoNext, ReloadFile, OpenTab, TextArrives, LoadFails, Generate, Suggest, Apply, Type,
           Typing, SavedAnswer
  <2>. QED
    BY <2>1, SaveTextFits
<1>. QED
  BY <1>1, <1>2, <1>3, FileStands, PTL DEF AutoSpec, BrokenTextStopsNone, SaveKeepsOthers

-----------------------------------------------------------------------------
(* The plugins.  But for the directory the timer is about and those the    *)
(* watcher was not told of, memory is what the disk holds, or is about to  *)
(* be looked at once more.                                                 *)
PluginsShape ==
    /\ pluginDisk \in [Dirs -> Nat] /\ loaded \in [PluginDomains -> Nat]
    /\ scanTimer \in Dirs \cup {NoDir}

MemoryFollows ==
    \A d \in Recognised \ (missed \cup {scanTimer}) :
        IF pluginDisk[d] = 0 THEN loaded[PluginDomain[d]] = 0 \/ d \in goings
        ELSE sound[d] => loaded[PluginDomain[d]] = pluginDisk[d]

PluginsInv == PluginsShape /\ MemoryFollows

LEMMA OneDirectory == \A d \in Dirs : PluginDomain[d] \in PluginDomains /\ DirFor(PluginDomain[d]) = d
<1>. SUFFICES ASSUME NEW d \in Dirs
              PROVE  PluginDomain[d] \in PluginDomains /\ DirFor(PluginDomain[d]) = d
  OBVIOUS
<1>1. PluginDomain[d] \in PluginDomains
  BY DEF PluginDomains
<1>2. DirFor(PluginDomain[d]) \in Dirs /\ PluginDomain[DirFor(PluginDomain[d])] = PluginDomain[d]
  BY DEF DirFor
<1>. QED
  BY <1>1, <1>2, PluginsAssumption

(* What a load leaves in memory.                                           *)
LEMMA WhatLoads ==
    ASSUME NEW mem \in [PluginDomains -> Nat], NEW dk \in [Dirs -> Nat], NEW ok, NEW ds \in SUBSET Dirs
    PROVE  /\ Load(mem, dk, ok, ds) \in [PluginDomains -> Nat]
           /\ \A d \in Dirs : Load(mem, dk, ok, ds)[PluginDomain[d]]
                                = IF d \in ds /\ dk[d] > 0 /\ ok[d] THEN dk[d]
                                  ELSE mem[PluginDomain[d]]
<1>1. \A m \in PluginDomains : DirFor(m) \in Dirs
  BY DEF PluginDomains, DirFor
<1>. QED
  BY <1>1, OneDirectory DEF Load

LEMMA PluginsBegin == PluginsInit => PluginsInv
<1>. SUFFICES ASSUME PluginsInit PROVE PluginsInv
  OBVIOUS
<1>1. pluginDisk \in [Dirs -> Nat] /\ Nothing \in [PluginDomains -> Nat]
  BY DEF PluginsInit, Nothing
<1>2. /\ loaded \in [PluginDomains -> Nat]
      /\ \A d \in Dirs : loaded[PluginDomain[d]]
                           = IF pluginDisk[d] > 0 /\ sound[d] THEN pluginDisk[d] ELSE 0
  BY <1>1, WhatLoads, OneDirectory DEF PluginsInit, Nothing
<1>3. scanTimer = NoDir
  BY DEF PluginsInit
<1>. QED
  BY <1>1, <1>2, <1>3, PluginsAssumption DEF PluginsInv, PluginsShape, MemoryFollows

(* A change the watcher notices, and one it does not.                      *)
LEMMA WhatIsNoticed ==
    ASSUME NEW d \in Dirs, Notices(d), scanTimer \in Dirs \cup {NoDir}
    PROVE  /\ scanTimer' \in Dirs \cup {NoDir}
           /\ d \in missed' \cup {scanTimer'}
           /\ \A e \in Dirs \ {d} : e \notin missed' \cup {scanTimer'}
                                      => e \notin missed \cup {scanTimer}
BY PluginsAssumption DEF Notices

LEMMA PluginsStep == PluginsInv /\ [PluginsNext]_pluginVars => PluginsInv'
<1>. SUFFICES ASSUME PluginsInv, [PluginsNext]_pluginVars PROVE PluginsInv'
  OBVIOUS
<1>0. PluginsShape /\ MemoryFollows
  BY DEF PluginsInv
<1>1. CASE UNCHANGED pluginVars \/ WatchStarts \/ PressInstall \/ NotRouted
  <2>1. UNCHANGED <<pluginDisk, sound, loaded, scanTimer, goings, missed>>
    BY <1>1 DEF pluginVars, WatchStarts, PressInstall, NotRouted
  <2>. QED
    BY <1>0, <2>1 DEF PluginsInv, PluginsShape, MemoryFollows
<1>2. ASSUME NEW d \in Dirs, EditPlugin(d)
      PROVE  PluginsInv'
  <2>1. /\ pluginDisk' = [pluginDisk EXCEPT ![d] = @ + 1]
        /\ \E ok \in BOOLEAN : sound' = [sound EXCEPT ![d] = ok]
        /\ Notices(d) /\ UNCHANGED <<loaded, goings>>
    BY <1>2 DEF EditPlugin
  <2>2. pluginDisk' \in [Dirs -> Nat] /\ \A e \in Dirs \ {d} : pluginDisk'[e] = pluginDisk[e]
    BY <1>0, <2>1 DEF PluginsShape
  <2>3. \A e \in Dirs \ {d} : sound'[e] = sound[e]
    BY <2>1
  <2>4. /\ scanTimer' \in Dirs \cup {NoDir} /\ d \in missed' \cup {scanTimer'}
        /\ \A e \in Dirs \ {d} : e \notin missed' \cup {scanTimer'}
                                   => e \notin missed \cup {scanTimer}
    BY <1>0, <2>1, WhatIsNoticed DEF PluginsShape
  <2>. QED
    BY <1>0, <2>1, <2>2, <2>3, <2>4, PluginsAssumption DEF PluginsInv, PluginsShape, MemoryFollows
<1>3. ASSUME NEW d \in Dirs, Install(d) \/ Uninstall(d)
      PROVE  PluginsInv'
  <2>1. PICK v \in Nat, ok \in BOOLEAN : /\ pluginDisk' = [pluginDisk EXCEPT ![d] = v]
                                         /\ sound' = [sound EXCEPT ![d] = ok]
    <3>1. 1 .. MaxVersion \subseteq Nat /\ 0 \in Nat
      BY PluginsAssumption
    <3>2. CASE Install(d)
      BY <3>1, <3>2 DEF Install
    <3>3. CASE Uninstall(d)
      BY <3>1, <3>3 DEF Uninstall
    <3>. QED
      BY <1>3, <3>2, <3>3
  <2>2. Scan(pluginDisk', sound') /\ Notices(d) /\ UNCHANGED goings
    BY <1>3 DEF Install, Uninstall
  <2>3. pluginDisk' \in [Dirs -> Nat] /\ \A e \in Dirs \ {d} : pluginDisk'[e] = pluginDisk[e]
    BY <1>0, <2>1 DEF PluginsShape
  <2>4. \A e \in Dirs \ {d} : sound'[e] = sound[e]
    BY <2>1
  <2>5. /\ loaded' \in [PluginDomains -> Nat]
        /\ \A e \in Dirs : loaded'[PluginDomain[e]]
                             = IF pluginDisk'[e] > 0 /\ sound'[e] THEN pluginDisk'[e]
                               ELSE loaded[PluginDomain[e]]
    BY <1>0, <2>2, <2>3, WhatLoads DEF Scan, PluginsShape
  <2>6. /\ scanTimer' \in Dirs \cup {NoDir} /\ d \in missed' \cup {scanTimer'}
        /\ \A e \in Dirs \ {d} : e \notin missed' \cup {scanTimer'}
                                   => e \notin missed \cup {scanTimer}
    BY <1>0, <2>2, WhatIsNoticed DEF PluginsShape
  <2>7. ASSUME NEW e \in Recognised \ (missed' \cup {scanTimer'})
        PROVE  IF pluginDisk'[e] = 0 THEN loaded'[PluginDomain[e]] = 0 \/ e \in goings'
               ELSE sound'[e] => loaded'[PluginDomain[e]] = pluginDisk'[e]
    <3>1. e \in Dirs \ {d} /\ pluginDisk'[e] = pluginDisk[e] /\ pluginDisk[e] \in Nat
      BY <1>0, <2>3, <2>6, PluginsAssumption DEF PluginsShape
    <3>. QED
      BY <1>0, <2>2, <2>4, <2>5, <2>6, <3>1 DEF MemoryFollows
  <2>. QED
    BY <2>3, <2>5, <2>6, <2>7 DEF PluginsInv, PluginsShape, MemoryFollows
<1>4. CASE Rescan
  <2>1. /\ loaded' \in [PluginDomains -> Nat]
        /\ \A e \in Dirs : loaded'[PluginDomain[e]]
                             = IF pluginDisk[e] > 0 /\ sound[e] THEN pluginDisk[e]
                               ELSE loaded[PluginDomain[e]]
    BY <1>0, <1>4, WhatLoads DEF Rescan, Scan, PluginsShape
  <2>2. /\ missed' = {d \in missed : pluginDisk[d] = 0}
        /\ UNCHANGED <<pluginDisk, sound, scanTimer, goings>>
    BY <1>4 DEF Rescan
  <2>3. ASSUME NEW e \in Recognised \ (missed' \cup {scanTimer'})
        PROVE  IF pluginDisk'[e] = 0 THEN loaded'[PluginDomain[e]] = 0 \/ e \in goings'
               ELSE sound'[e] => loaded'[PluginDomain[e]] = pluginDisk'[e]
    <3>1. e \in Dirs /\ pluginDisk[e] \in Nat
      BY <1>0, PluginsAssumption DEF PluginsShape
    <3>2. CASE pluginDisk[e] = 0
      <4>1. e \notin missed \cup {scanTimer}
        BY <2>2, <2>3, <3>2
      <4>. QED
        BY <1>0, <2>1, <2>2, <2>3, <3>1, <3>2, <4>1 DEF MemoryFollows
    <3>3. CASE pluginDisk[e] # 0
      BY <2>1, <2>2, <3>1, <3>3
    <3>. QED
      BY <3>2, <3>3
  <2>. QED
    BY <1>0, <2>1, <2>2, <2>3 DEF PluginsInv, PluginsShape, MemoryFollows
<1>5. CASE TimerFires
  <2>. DEFINE d == scanTimer
              kept == [m \in PluginDomains |-> IF m = d THEN 0 ELSE loaded[m]]
  <2>1. d \in Dirs /\ scanTimer' = NoDir /\ UNCHANGED <<pluginDisk, sound, missed>>
    BY <1>0, <1>5 DEF TimerFires, PluginsShape
  <2>2. CASE pluginDisk[d] > 0 /\ loaded' = Load(kept, pluginDisk, sound, {d}) /\ UNCHANGED goings
    <3>1. kept \in [PluginDomains -> Nat]
          /\ \A e \in Dirs \ {d} : kept[PluginDomain[e]] = loaded[PluginDomain[e]]
      BY <1>0, <2>1, OneDirectory, PluginsAssumption DEF PluginsShape
    <3>. HIDE DEF kept, d
    <3>2. /\ loaded' \in [PluginDomains -> Nat]
          /\ \A e \in Dirs : loaded'[PluginDomain[e]]
                               = IF e \in {d} /\ pluginDisk[e] > 0 /\ sound[e] THEN pluginDisk[e]
                                 ELSE kept[PluginDomain[e]]
      BY <1>0, <2>1, <2>2, <3>1, WhatLoads DEF PluginsShape
    <3>3. ASSUME NEW e \in Recognised \ (missed' \cup {scanTimer'})
          PROVE  IF pluginDisk'[e] = 0 THEN loaded'[PluginDomain[e]] = 0 \/ e \in goings'
                 ELSE sound'[e] => loaded'[PluginDomain[e]] = pluginDisk'[e]
      <4>1. e \in Dirs
        BY PluginsAssumption
      <4>2. CASE e = d
        BY <2>1, <2>2, <3>2, <4>1, <4>2
      <4>3. CASE e # d
        <5>1. e \notin missed \cup {scanTimer}
          BY <2>1, <3>3, <4>3 DEF d
        <5>. QED
          BY <1>0, <2>1, <2>2, <3>1, <3>2, <4>1, <4>3, <5>1 DEF MemoryFollows
      <4>. QED
        BY <4>2, <4>3
    <3>. QED
      BY <1>0, <2>1, <3>2, <3>3 DEF PluginsInv, PluginsShape, MemoryFollows
  <2>3. CASE /\ pluginDisk[d] = 0 /\ UNCHANGED loaded
             /\ goings' = goings \cup {x \in {d} \cap Recognised : loaded[PluginDomain[x]] > 0}
    <3>1. ASSUME NEW e \in Recognised \ (missed' \cup {scanTimer'})
          PROVE  IF pluginDisk'[e] = 0 THEN loaded'[PluginDomain[e]] = 0 \/ e \in goings'
                 ELSE sound'[e] => loaded'[PluginDomain[e]] = pluginDisk'[e]
      <4>1. e \in Dirs /\ loaded[PluginDomain[e]] \in Nat
        BY <1>0, PluginsAssumption, OneDirectory DEF PluginsShape
      <4>2. CASE e = d
        BY <2>1, <2>3, <4>1, <4>2
      <4>3. CASE e # d
        <5>1. e \notin missed \cup {scanTimer}
          BY <2>1, <3>1, <4>3
        <5>. QED
          BY <1>0, <2>1, <2>3, <4>1, <5>1 DEF MemoryFollows
      <4>. QED
        BY <4>2, <4>3
    <3>. QED
      BY <1>0, <2>1, <2>3, <3>1 DEF PluginsInv, PluginsShape, MemoryFollows
  <2>. QED
    BY <1>5, <2>2, <2>3 DEF TimerFires
<1>6. ASSUME NEW d \in Dirs, Gone(d)
      PROVE  PluginsInv'
  <2>1. /\ goings' = goings \ {d} /\ UNCHANGED <<pluginDisk, sound, scanTimer, missed>>
        /\ loaded' = [loaded EXCEPT ![PluginDomain[d]] = IF pluginDisk[d] = 0 THEN 0 ELSE @]
    BY <1>6 DEF Gone
  <2>2. /\ loaded' \in [PluginDomains -> Nat]
        /\ \A e \in Dirs \ {d} : loaded'[PluginDomain[e]] = loaded[PluginDomain[e]]
        /\ loaded'[PluginDomain[d]] = IF pluginDisk[d] = 0 THEN 0 ELSE loaded[PluginDomain[d]]
    <3>1. \A e \in Dirs \ {d} : PluginDomain[e] # PluginDomain[d]
      BY PluginsAssumption
    <3>. QED
      BY <1>0, <2>1, <3>1, OneDirectory DEF PluginsShape
  <2>3. Recognised \subseteq Dirs
    BY PluginsAssumption
  <2>4. MemoryFollows'
    BY <1>0, <2>1, <2>2, <2>3 DEF MemoryFollows
  <2>. QED
    BY <1>0, <2>1, <2>2, <2>4 DEF PluginsInv, PluginsShape
<1>7. CASE PluginRestart
  <2>1. /\ loaded' = Load(Nothing, pluginDisk, sound, Dirs) /\ scanTimer' = NoDir
        /\ UNCHANGED <<pluginDisk, sound>>
    BY <1>7 DEF PluginRestart
  <2>2. Nothing \in [PluginDomains -> Nat] /\ \A e \in Dirs : Nothing[PluginDomain[e]] = 0
    BY OneDirectory DEF Nothing
  <2>3. /\ loaded' \in [PluginDomains -> Nat]
        /\ \A e \in Dirs : loaded'[PluginDomain[e]]
                             = IF pluginDisk[e] > 0 /\ sound[e] THEN pluginDisk[e] ELSE 0
    BY <1>0, <2>1, <2>2, WhatLoads DEF PluginsShape
  <2>4. \A e \in Recognised : e \in Dirs /\ pluginDisk[e] \in Nat
    BY <1>0, PluginsAssumption DEF PluginsShape
  <2>. QED
    BY <1>0, <2>1, <2>3, <2>4 DEF PluginsInv, PluginsShape, MemoryFollows
<1>. QED
  BY <1>1, <1>2, <1>3, <1>4, <1>5, <1>6, <1>7 DEF PluginsNext

LEMMA PluginsStand == PluginsSpec => []PluginsInv
BY PluginsBegin, PluginsStep, PTL DEF PluginsSpec

(* Once the watcher of the plugins has nothing left to do, memory is what  *)
(* the disk holds, for any directories, installs, removals and restarts.   *)
THEOREM PluginsAreThere == PluginsSpec => []MemoryIsDisk
<1>1. PluginsInv => MemoryIsDisk
  <2>. SUFFICES ASSUME PluginsInv, watching, scanTimer = NoDir, goings = {},
                       NEW d \in Recognised \ missed
                PROVE  IF pluginDisk[d] = 0 THEN loaded[PluginDomain[d]] = 0
                       ELSE sound[d] => loaded[PluginDomain[d]] = pluginDisk[d]
    BY DEF MemoryIsDisk
  <2>1. d \notin missed \cup {scanTimer}
    BY PluginsAssumption
  <2>. QED
    BY <2>1 DEF PluginsInv, MemoryFollows
<1>. QED
  BY <1>1, PluginsStand, PTL

-----------------------------------------------------------------------------
(* The house.  A behaviour is about one part and the others rest, so each  *)
(* part does what it does alone.                                           *)
LEMMA OneActsOthersRest ==
    ASSUME HouseNext
    PROVE  OthersRest /\ part' = part
BY DEF HouseNext, OthersRest

LEMMA MicActs == [HouseNext]_houseVars => [MicNext]_micVars
<1>1. CASE UNCHANGED houseVars
  BY <1>1 DEF houseVars
<1>2. CASE HouseNext /\ About("assistant")
  BY <1>2 DEF HouseNext, About
<1>3. CASE HouseNext /\ ~About("assistant")
  BY <1>3, OneActsOthersRest DEF OthersRest, Unless
<1>. QED
  BY <1>1, <1>2, <1>3

LEMMA LoginActs == [HouseNext]_houseVars => [LoginNext]_loginVars
<1>1. CASE UNCHANGED houseVars
  BY <1>1 DEF houseVars
<1>2. CASE HouseNext /\ About("login")
  BY <1>2 DEF HouseNext, About
<1>3. CASE HouseNext /\ ~About("login")
  BY <1>3, OneActsOthersRest DEF OthersRest, Unless
<1>. QED
  BY <1>1, <1>2, <1>3

LEMMA TokensActs == [HouseNext]_houseVars => [TokensNext]_tokVars
<1>1. CASE UNCHANGED houseVars
  BY <1>1 DEF houseVars
<1>2. CASE HouseNext /\ About("tokens")
  BY <1>2 DEF HouseNext, About
<1>3. CASE HouseNext /\ ~About("tokens")
  BY <1>3, OneActsOthersRest DEF OthersRest, Unless
<1>. QED
  BY <1>1, <1>2, <1>3

LEMMA BellActs == [HouseNext]_houseVars => [BellNext]_bellVars
<1>1. CASE UNCHANGED houseVars
  BY <1>1 DEF houseVars
<1>2. CASE HouseNext /\ About("doorbell")
  BY <1>2 DEF HouseNext, About
<1>3. CASE HouseNext /\ ~About("doorbell")
  BY <1>3, OneActsOthersRest DEF OthersRest, Unless
<1>. QED
  BY <1>1, <1>2, <1>3

LEMMA TileActs == [HouseNext]_houseVars => [TileNext]_tileVars
<1>1. CASE UNCHANGED houseVars
  BY <1>1 DEF houseVars
<1>2. CASE HouseNext /\ About("tile")
  BY <1>2 DEF HouseNext, About
<1>3. CASE HouseNext /\ ~About("tile")
  BY <1>3, OneActsOthersRest DEF OthersRest, Unless
<1>. QED
  BY <1>1, <1>2, <1>3

LEMMA BarActs == [HouseNext]_houseVars => [BarNext]_barVars
<1>1. CASE UNCHANGED houseVars
  BY <1>1 DEF houseVars
<1>2. CASE HouseNext /\ About("shortcuts")
  BY <1>2 DEF HouseNext, About
<1>3. CASE HouseNext /\ ~About("shortcuts")
  BY <1>3, OneActsOthersRest DEF OthersRest, Unless
<1>. QED
  BY <1>1, <1>2, <1>3

LEMMA CardsActs == [HouseNext]_houseVars => [CardsNext]_cardsVars
<1>1. CASE UNCHANGED houseVars
  BY <1>1 DEF houseVars
<1>2. CASE HouseNext /\ About("cards")
  BY <1>2 DEF HouseNext, About
<1>3. CASE HouseNext /\ ~About("cards")
  BY <1>3, OneActsOthersRest DEF OthersRest, Unless
<1>. QED
  BY <1>1, <1>2, <1>3

LEMMA TouchActs == [HouseNext]_houseVars => [TouchNext]_touchVars
<1>1. CASE UNCHANGED houseVars
  BY <1>1 DEF houseVars
<1>2. CASE HouseNext /\ About("touch")
  BY <1>2 DEF HouseNext, About
<1>3. CASE HouseNext /\ ~About("touch")
  BY <1>3, OneActsOthersRest DEF OthersRest, Unless
<1>. QED
  BY <1>1, <1>2, <1>3

LEMMA MapActs == [HouseNext]_houseVars => [MapNext]_mapVars
<1>1. CASE UNCHANGED houseVars
  BY <1>1 DEF houseVars
<1>2. CASE HouseNext /\ About("map")
  BY <1>2 DEF HouseNext, About
<1>3. CASE HouseNext /\ ~About("map")
  BY <1>3, OneActsOthersRest DEF OthersRest, Unless
<1>. QED
  BY <1>1, <1>2, <1>3

LEMMA CfgActs == [HouseNext]_houseVars => [CfgNext]_cfgVars
<1>1. CASE UNCHANGED houseVars
  BY <1>1 DEF houseVars
<1>2. CASE HouseNext /\ About("config")
  BY <1>2 DEF HouseNext, About
<1>3. CASE HouseNext /\ ~About("config")
  BY <1>3, OneActsOthersRest DEF OthersRest, Unless
<1>. QED
  BY <1>1, <1>2, <1>3

LEMMA AutoActs == [HouseNext]_houseVars => [AutoNext]_autoVars
<1>1. CASE UNCHANGED houseVars
  BY <1>1 DEF houseVars
<1>2. CASE HouseNext /\ About("automations")
  BY <1>2 DEF HouseNext, About
<1>3. CASE HouseNext /\ ~About("automations")
  BY <1>3, OneActsOthersRest DEF OthersRest, Unless
<1>. QED
  BY <1>1, <1>2, <1>3

LEMMA PluginsActs == [HouseNext]_houseVars => [PluginsNext]_pluginVars
<1>1. CASE UNCHANGED houseVars
  BY <1>1 DEF houseVars
<1>2. CASE HouseNext /\ About("plugins")
  BY <1>2 DEF HouseNext, About
<1>3. CASE HouseNext /\ ~About("plugins")
  BY <1>3, OneActsOthersRest DEF OthersRest, Unless
<1>. QED
  BY <1>1, <1>2, <1>3

LEMMA SceneActs == [HouseNext]_houseVars => [SceneNext]_sceneVars
<1>1. CASE UNCHANGED houseVars
  BY <1>1 DEF houseVars
<1>2. CASE HouseNext /\ About("scene")
  BY <1>2 DEF HouseNext, About
<1>3. CASE HouseNext /\ ~About("scene")
  BY <1>3, OneActsOthersRest DEF OthersRest, Unless
<1>. QED
  BY <1>1, <1>2, <1>3

LEMMA ChartsActs == [HouseNext]_houseVars => [ChartNext]_chartVars
<1>1. CASE UNCHANGED houseVars
  BY <1>1 DEF houseVars
<1>2. CASE HouseNext /\ About("charts")
  BY <1>2 DEF HouseNext, About
<1>3. CASE HouseNext /\ ~About("charts")
  BY <1>3, OneActsOthersRest DEF OthersRest, Unless
<1>. QED
  BY <1>1, <1>2, <1>3

LEMMA PanelActs == [HouseNext]_houseVars => [PanelNext]_panelVars
<1>1. CASE UNCHANGED houseVars
  BY <1>1 DEF houseVars
<1>2. CASE HouseNext /\ About("panel")
  BY <1>2 DEF HouseNext, About
<1>3. CASE HouseNext /\ ~About("panel")
  BY <1>3, OneActsOthersRest DEF OthersRest, Unless
<1>. QED
  BY <1>1, <1>2, <1>3

LEMMA SectionsActs == [HouseNext]_houseVars => [SectNext]_sectVars
<1>1. CASE UNCHANGED houseVars
  BY <1>1 DEF houseVars
<1>2. CASE HouseNext /\ About("sections")
  BY <1>2 DEF HouseNext, About
<1>3. CASE HouseNext /\ ~About("sections")
  BY <1>3, OneActsOthersRest DEF OthersRest, Unless
<1>. QED
  BY <1>1, <1>2, <1>3

LEMMA ListsActs == [HouseNext]_houseVars => [ListsNext]_listVars
<1>1. CASE UNCHANGED houseVars
  BY <1>1 DEF houseVars
<1>2. CASE HouseNext /\ About("lists")
  BY <1>2 DEF HouseNext, About
<1>3. CASE HouseNext /\ ~About("lists")
  BY <1>3, OneActsOthersRest DEF OthersRest, Unless
<1>. QED
  BY <1>1, <1>2, <1>3

(* Side by side with the others each part is itself.                       *)
THEOREM PartsOfTheHouse ==
    HouseSpec => /\ MicSpec /\ CardsSpec /\ TouchSpec /\ MapSpec
                 /\ LoginSpec /\ TokensSpec /\ BellSpec /\ TileSpec /\ BarSpec
                 /\ CfgSpec /\ AutoSpec /\ PluginsSpec
                 /\ SceneSpec /\ ChartSpec /\ PanelSpec /\ SectSpec /\ ListsSpec
<1>1. HouseInit => /\ MicInit /\ CardsInit /\ TouchInit /\ MapInit
                   /\ LoginInit /\ TokensInit /\ BellInit /\ TileInit /\ BarInit
                   /\ CfgInit /\ AutoInit /\ PluginsInit
                   /\ SceneInit /\ ChartInit /\ PanelInit /\ SectInit /\ ListsInit
  BY DEF HouseInit
<1>. QED
  BY <1>1, MicActs, CardsActs, TouchActs, MapActs, LoginActs, TokensActs, BellActs, TileActs,
     BarActs, CfgActs, AutoActs, PluginsActs, SceneActs, ChartsActs, PanelActs, SectionsActs,
     ListsActs, PTL
  DEF HouseSpec, MicSpec, CardsSpec, TouchSpec, MapSpec, LoginSpec, TokensSpec, BellSpec, TileSpec,
      BarSpec, CfgSpec, AutoSpec, PluginsSpec, SceneSpec, ChartSpec, PanelSpec, SectSpec, ListsSpec

(* In the house the doors hold: attempts are bounded, the printed password *)
(* is the one that opens, and a revoked token stays revoked.               *)
THEOREM HouseKeepsItsDoors == HouseSpec => []AccountsHold
<1>1. LimiterBounds /\ PrintedPasswordWorks /\ RevokedStaysRevoked => AccountsHold
  BY DEF AccountsHold
<1>. QED
  BY <1>1, PartsOfTheHouse, AttemptsAreLimited, PrintedPasswordOpens, RevokedNeverReturns, PTL

(* And what the user has ended is over: recorders, players, bells and      *)
(* timers do not outlive the press that closed them.                       *)
THEOREM HouseEndsWhatIsEnded == HouseSpec => []EndedIsOver
<1>1. MicIsReleased /\ CancelledIsNotSent /\ CancelEndsIt /\ QuietOnceClosed /\ OnePlayer
      /\ PeersAreHeld /\ TapsAreNotHolds => EndedIsOver
  BY DEF EndedIsOver
<1>. QED
  BY <1>1, PartsOfTheHouse, CancelsHold, ClosedIsQuiet, OnePlayerPlays, NoTapIsAHold, PTL

(* A control at rest tells the truth: the cards, the floor plan and its    *)
(* file, and every order given by voice has been tried.                    *)
THEOREM HouseControlsAreTrue == HouseSpec => []ControlsAreTrue
<1>1. (CardsAgree /\ FingerLeads /\ LastGestureCounts) /\ PlanIsTrue /\ PicksAreKept /\ AllWereTried
      => ControlsAreTrue
  BY DEF ControlsAreTrue
<1>. QED
  BY <1>1, PartsOfTheHouse, CardsAreTrue, PlansAreTrue, PicksReachTheFile, OrdersAreTried, PTL

(* And what runs is what the disk says: the configuration and the build,   *)
(* the automations and the plugins, whoever wrote the files and in         *)
(* whatever order; and a page that writes a file loses nothing of it.      *)
THEOREM HouseRunsWhatIsOnDisk == HouseSpec => RunsWhatIsOnDisk
BY PartsOfTheHouse, DiskIsRunning, AutomationsAreThere, PluginsAreThere, PTL DEF RunsWhatIsOnDisk

(* A page that waits for nothing shows what the server has: the scene, the *)
(* lists of tokens, rules and floors, the chart, the panel and the home    *)
(* page, whatever answers came late or out of order.                       *)
THEOREM HouseShowsWhatThereIs == HouseSpec => PagesShowWhatThereIs
BY PartsOfTheHouse, ScenesAreWhole, TokenListsAreTrue, ListsAreTheirFiles, ChartsShowTheChoice,
   PanelsOfferWhatTheyShow, HomeIsArranged, PTL
   DEF PagesShowWhatThereIs
=============================================================================
