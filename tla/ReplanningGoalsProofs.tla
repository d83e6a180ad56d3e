------------------------ MODULE ReplanningGoalsProofs ------------------------
(***************************************************************************)
(* Proofs about the goals of Replanning, for any regions, missions and     *)
(* number of faults: total-goals counts the open goals, a mission stopped  *)
(* on a flight can be planned again, and no region is sprayed twice.       *)
(*                                                                         *)
(* A plan is flattened from one sequence for each visit: what it sprays is *)
(* shown by induction over them, which the first lemmas provide.           *)
(***************************************************************************)
EXTENDS ReplanningProofs, WellFoundedInduction

-----------------------------------------------------------------------------
(* Induction, and flattened sequences.                                     *)

(* Induction over the numbers, for a set in the place of a predicate: the  *)
(* rest of Nat has no least element (WFMin).                               *)
LEMMA SetInduction ==
  ASSUME NEW T \in SUBSET Nat, 0 \in T, \A n \in T : n + 1 \in T
  PROVE  T = Nat
<1> DEFINE Less == {r \in Nat \X Nat : r[1] < r[2]}
<1>1. \A x, y \in Nat : <<y, x>> \in Less <=> y < x
  OBVIOUS
<1>2. IsWellFoundedOn(Less, Nat)
  <2>1. SUFFICES ASSUME NEW f \in [Nat -> Nat], \A n \in Nat : <<f[n + 1], f[n]>> \in Less PROVE FALSE
    BY DEF IsWellFoundedOn
  <2> QED
    BY <2>1, NatLessThanWellFounded DEF OpToRel, IsWellFoundedOn
<1> HIDE DEF Less
<1>3. ASSUME Nat \ T # {} PROVE FALSE
  <2>1. PICK x \in Nat \ T : \A y \in Nat \ T : <<y, x>> \notin Less
    <3> DEFINE S == Nat \ T
    <3>1. S \subseteq Nat /\ S # {}
      BY <1>3
    <3> HIDE DEF S
    <3>2. \E x \in S : \A y \in S : ~ (<<y, x>> \in Less)
      BY <1>2, <3>1, WFMin
    <3> QED
      BY <3>2 DEF S
  <2>2. x \in Nat /\ x # 0
    OBVIOUS
  <2>3. x - 1 \in Nat /\ (x - 1) + 1 = x /\ x - 1 < x
    BY <2>2
  <2>4. x - 1 \notin T
    BY <2>3
  <2>5. <<x - 1, x>> \in Less
    BY <1>1, <2>2, <2>3
  <2>6. x - 1 \in Nat \ T
    BY <2>3, <2>4
  <2> QED
    BY <2>1, <2>5, <2>6
<1> QED
  BY <1>3

(* The equation of the function that FlattenSeq looks for.                 *)
Flat(s, g, n) == g = [i \in 1 .. n |-> IF i = 1 THEN s[i] ELSE g[i - 1] \o s[i]]

(* It has a solution, one place longer at a time.                          *)
LEMMA FlatExists ==
  ASSUME NEW S, NEW s \in Seq(Seq(S))
  PROVE  \A n \in Nat : n <= Len(s) => \E g \in [1 .. n -> Seq(S)] : Flat(s, g, n)
<1> DEFINE T == {n \in Nat : n <= Len(s) => \E g \in [1 .. n -> Seq(S)] : Flat(s, g, n)}
<1>1. 0 \in T
  <2> DEFINE g == [i \in 1 .. 0 |-> <<>>]
  <2>1. g \in [1 .. 0 -> Seq(S)]
    OBVIOUS
  <2>2. g = [i \in 1 .. 0 |-> IF i = 1 THEN s[i] ELSE g[i - 1] \o s[i]]
    OBVIOUS
  <2> QED
    BY <2>1, <2>2 DEF Flat
<1>2. ASSUME NEW n \in T PROVE n + 1 \in T
  <2> SUFFICES ASSUME n + 1 <= Len(s)
               PROVE  \E g \in [1 .. n + 1 -> Seq(S)] : Flat(s, g, n + 1)
    OBVIOUS
  <2>1. PICK g \in [1 .. n -> Seq(S)] : Flat(s, g, n)
    OBVIOUS
  <2> DEFINE last == IF n = 0 THEN s[1] ELSE g[n] \o s[n + 1]
             h == [i \in 1 .. n + 1 |-> IF i = n + 1 THEN last ELSE g[i]]
  <2>2. last \in Seq(S)
    <3>1. s[n + 1] \in Seq(S) /\ n + 1 \in 1 .. Len(s)
      OBVIOUS
    <3>2. CASE n = 0
      BY <3>1, <3>2
    <3>3. CASE n # 0
      BY <3>1, <3>3
    <3> QED
      BY <3>2, <3>3
  <2>3. h \in [1 .. n + 1 -> Seq(S)]
    <3> HIDE DEF last
    <3> QED
      BY <2>2
  <2>4. ASSUME NEW i \in 1 .. n PROVE h[i] = g[i]
    <3>1. i \in 1 .. n + 1 /\ i # n + 1
      OBVIOUS
    <3> HIDE DEF last
    <3> QED
      BY <3>1
  <2>5. ASSUME NEW i \in 1 .. n + 1
        PROVE  h[i] = IF i = 1 THEN s[i] ELSE h[i - 1] \o s[i]
    <3>1. CASE i \in 1 .. n
      <4>1. g[i] = IF i = 1 THEN s[i] ELSE g[i - 1] \o s[i]
        BY <2>1, <3>1 DEF Flat
      <4>2. i # 1 => i - 1 \in 1 .. n
        BY <3>1
      <4> HIDE DEF h
      <4> QED
        BY <2>4, <3>1, <4>1, <4>2
    <3>2. CASE i = n + 1
      <4>1. h[i] = last
        BY <3>2
      <4>2. n # 0 => h[i - 1] = g[n] /\ i # 1
        BY <3>2
      <4>3. n = 0 => i = 1
        BY <3>2
      <4>4. n # 0 => last = g[n] \o s[i]
        BY <3>2
      <4>5. n = 0 => last = s[i]
        BY <3>2
      <4> HIDE DEF h, last
      <4> QED
        BY <4>1, <4>2, <4>3, <4>4, <4>5
    <3> QED
      BY <3>1, <3>2
  <2>6. Flat(s, h, n + 1)
    <3>1. h = [i \in 1 .. n + 1 |-> h[i]]
      OBVIOUS
    <3> HIDE DEF h
    <3> QED
      BY <2>5, <3>1 DEF Flat
  <2> QED
    BY <2>3, <2>6
<1>3. T = Nat
  <2> HIDE DEF T
  <2>1. T \subseteq Nat
    BY DEF T
  <2> QED
    BY <1>1, <1>2, <2>1, SetInduction
<1> QED
  BY <1>3

LEMMA FlattenIs ==
  ASSUME NEW S, NEW s \in Seq(Seq(S)), s # <<>>
  PROVE  \E g : Flat(s, g, Len(s)) /\ FlattenSeq(s) = g[Len(s)]
<1>1. Len(s) \in Nat /\ Len(s) # 0
  OBVIOUS
<1>2. \E g \in [1 .. Len(s) -> Seq(S)] : Flat(s, g, Len(s))
  <2>1. Len(s) <= Len(s)
    BY <1>1
  <2> QED
    BY <1>1, <2>1, FlatExists, Zenon
<1> QED
  BY <1>1, <1>2 DEF FlattenSeq, Flat

(* Induction over the parts of a flattened sequence: what the first part   *)
(* is, and each next part keeps, the whole is.                             *)
LEMMA FlattenInduction ==
  ASSUME NEW S, NEW s \in Seq(Seq(S)), s # <<>>,
         NEW R, s[1] \in R[1],
         \A i \in 1 .. Len(s) : i + 1 <= Len(s) =>
            \A q \in R[i] : q \o s[i + 1] \in R[i + 1]
  PROVE  FlattenSeq(s) \in R[Len(s)]
<1>1. Len(s) \in Nat /\ Len(s) # 0
  OBVIOUS
<1>2. PICK g : Flat(s, g, Len(s)) /\ FlattenSeq(s) = g[Len(s)]
  BY FlattenIs
<1> DEFINE T == {n \in Nat : n \in 1 .. Len(s) => g[n] \in R[n]}
<1>3. 0 \in T
  BY <1>1
<1>4. ASSUME NEW n \in T PROVE n + 1 \in T
  <2> SUFFICES ASSUME n + 1 \in 1 .. Len(s) PROVE g[n + 1] \in R[n + 1]
    OBVIOUS
  <2>1. g[n + 1] = IF n + 1 = 1 THEN s[n + 1] ELSE g[n + 1 - 1] \o s[n + 1]
    <3> DEFINE F == [i \in 1 .. Len(s) |-> IF i = 1 THEN s[i] ELSE g[i - 1] \o s[i]]
    <3>1. g = F
      BY <1>2 DEF Flat
    <3>2. F[n + 1] = IF n + 1 = 1 THEN s[n + 1] ELSE g[n + 1 - 1] \o s[n + 1]
      OBVIOUS
    <3> HIDE DEF F
    <3> QED
      BY <3>1, <3>2
  <2>2. CASE n = 0
    BY <2>1, <2>2
  <2>3. CASE n # 0
    <3>1. n \in 1 .. Len(s) /\ n + 1 <= Len(s) /\ n + 1 - 1 = n /\ n + 1 # 1
      BY <1>1, <2>3
    <3>2. g[n] \in R[n]
      BY <3>1
    <3> QED
      BY <2>1, <3>1, <3>2
  <2> QED
    BY <2>2, <2>3
<1>5. T = Nat
  <2> HIDE DEF T
  <2>1. T \subseteq Nat
    BY DEF T
  <2> QED
    BY <1>3, <1>4, <2>1, SetInduction
<1> QED
  BY <1>1, <1>2, <1>5

-----------------------------------------------------------------------------
(* What a sequence of actions sprays.                                      *)

IsSpray(a) == a.name = "pulverize_region"

Sprayed(actions) == {i \in 1 .. Len(actions) : IsSpray(actions[i])}

Sprays(actions) == {actions[i].to : i \in Sprayed(actions)}

SpraysOnce(actions) ==
  \A i, j \in Sprayed(actions) : actions[i].to = actions[j].to => i = j

LEMMA ConcatSprayed ==
  ASSUME NEW q \in Seq(Actions), NEW r \in Seq(Actions)
  PROVE  /\ q \o r \in Seq(Actions)
         /\ \A i \in Sprayed(q \o r) :
              \/ i \in Sprayed(q) /\ (q \o r)[i] = q[i]
              \/ i - Len(q) \in Sprayed(r) /\ (q \o r)[i] = r[i - Len(q)]
<1>1. Len(q) \in Nat /\ Len(r) \in Nat
  OBVIOUS
<1>2. /\ q \o r \in Seq(Actions)
      /\ Len(q \o r) = Len(q) + Len(r)
      /\ \A i \in 1 .. Len(q) + Len(r) :
           (q \o r)[i] = IF i <= Len(q) THEN q[i] ELSE r[i - Len(q)]
  BY ConcatProperties
<1>3. ASSUME NEW i \in Sprayed(q \o r)
      PROVE  \/ i \in Sprayed(q) /\ (q \o r)[i] = q[i]
             \/ i - Len(q) \in Sprayed(r) /\ (q \o r)[i] = r[i - Len(q)]
  <2>1. i \in 1 .. Len(q) + Len(r) /\ IsSpray((q \o r)[i])
    BY <1>2 DEF Sprayed
  <2>2. CASE i <= Len(q)
    <3>1. i \in 1 .. Len(q) /\ (q \o r)[i] = q[i]
      BY <1>1, <1>2, <2>1, <2>2
    <3> QED
      BY <2>1, <3>1 DEF Sprayed
  <2>3. CASE ~(i <= Len(q))
    <3>1. i - Len(q) \in 1 .. Len(r) /\ (q \o r)[i] = r[i - Len(q)]
      BY <1>1, <1>2, <2>1, <2>3
    <3> QED
      BY <2>1, <3>1 DEF Sprayed
  <2> QED
    BY <2>2, <2>3
<1> QED
  BY <1>2, <1>3

(* One sequence after another sprays what the two spray, and once if they  *)
(* do so and share nothing.                                                *)
LEMMA ConcatSprays ==
  ASSUME NEW q \in Seq(Actions), NEW r \in Seq(Actions)
  PROVE  /\ q \o r \in Seq(Actions)
         /\ Sprays(q \o r) \subseteq Sprays(q) \cup Sprays(r)
         /\ SpraysOnce(q) /\ SpraysOnce(r) /\ Sprays(q) \cap Sprays(r) = {}
              => SpraysOnce(q \o r)
<1>1. Sprays(q \o r) \subseteq Sprays(q) \cup Sprays(r)
  <2> SUFFICES ASSUME NEW i \in Sprayed(q \o r)
               PROVE  (q \o r)[i].to \in Sprays(q) \cup Sprays(r)
    BY DEF Sprays
  <2>1. CASE i \in Sprayed(q) /\ (q \o r)[i] = q[i]
    BY <2>1 DEF Sprays
  <2>2. CASE i - Len(q) \in Sprayed(r) /\ (q \o r)[i] = r[i - Len(q)]
    BY <2>2 DEF Sprays
  <2> QED
    BY <2>1, <2>2, ConcatSprayed, Zenon
<1>2. ASSUME SpraysOnce(q), SpraysOnce(r), Sprays(q) \cap Sprays(r) = {},
             NEW i \in Sprayed(q \o r), NEW j \in Sprayed(q \o r),
             (q \o r)[i].to = (q \o r)[j].to
      PROVE  i = j
  <2>1. Len(q) \in Nat /\ i \in Int /\ j \in Int
    BY DEF Sprayed
  <2>2. CASE i \in Sprayed(q) /\ (q \o r)[i] = q[i]
    <3>1. q[i].to \in Sprays(q)
      BY <2>2 DEF Sprays
    <3>2. ASSUME j - Len(q) \in Sprayed(r), (q \o r)[j] = r[j - Len(q)] PROVE FALSE
      <4>1. r[j - Len(q)].to \in Sprays(r)
        BY <3>2 DEF Sprays
      <4>2. r[j - Len(q)].to = q[i].to
        BY <1>2, <2>2, <3>2
      <4> QED
        BY <1>2, <3>1, <4>1, <4>2
    <3>3. j \in Sprayed(q) /\ (q \o r)[j] = q[j]
      BY <3>2, ConcatSprayed
    <3> QED
      BY <1>2, <2>2, <3>3 DEF SpraysOnce
  <2>3. CASE i - Len(q) \in Sprayed(r) /\ (q \o r)[i] = r[i - Len(q)]
    <3>1. r[i - Len(q)].to \in Sprays(r)
      BY <2>3 DEF Sprays
    <3>2. ASSUME j \in Sprayed(q), (q \o r)[j] = q[j] PROVE FALSE
      <4>1. q[j].to \in Sprays(q)
        BY <3>2 DEF Sprays
      <4>2. q[j].to = r[i - Len(q)].to
        BY <1>2, <2>3, <3>2
      <4> QED
        BY <1>2, <3>1, <4>1, <4>2
    <3>3. j - Len(q) \in Sprayed(r) /\ (q \o r)[j] = r[j - Len(q)]
      BY <3>2, ConcatSprayed
    <3>4. i - Len(q) = j - Len(q)
      BY <1>2, <2>3, <3>3 DEF SpraysOnce
    <3> QED
      BY <2>1, <3>4
  <2> QED
    BY <2>2, <2>3, ConcatSprayed
<1> QED
  BY <1>1, <1>2, ConcatSprayed DEF SpraysOnce

LEMMA NothingSprayed ==
  <<>> \in Seq(Actions) /\ Sprayed(<<>>) = {} /\ Sprays(<<>>) = {} /\ SpraysOnce(<<>>)
<1>1. Sprayed(<<>>) = {}
  BY DEF Sprayed
<1> QED
  BY <1>1 DEF Sprays, SpraysOnce

LEMMA TripSprays ==
  ASSUME NEW from \in Locations, NEW to \in Locations
  PROVE  Trip(from, to) \in Seq(Actions) /\ Sprayed(Trip(from, to)) = {}
<1>1. CASE from = to
  <2>1. Trip(from, to) = <<>>
    BY <1>1 DEF Trip
  <2> QED
    BY <2>1 DEF Sprayed
<1>2. CASE from # to
  <2>1. PICK a : a = Act(IF to = Base THEN "go_to_base" ELSE "go_to", from, to)
    OBVIOUS
  <2>2. a \in Actions /\ ~IsSpray(a)
    BY <2>1 DEF Act, Actions, Names, IsSpray
  <2>3. Trip(from, to) = <<a>>
    BY <1>2, <2>1 DEF Trip
  <2> QED
    BY <2>2, <2>3 DEF Sprayed
<1> QED
  BY <1>1, <1>2

(* A leg sprays the region it goes to, once, or nothing.                   *)
LEMMA LegSprays ==
  ASSUME NEW from \in Locations, NEW to \in Regions, NEW stop \in BOOLEAN, NEW spray \in BOOLEAN
  PROVE  /\ Leg(from, to, stop, spray) \in Seq(Actions)
         /\ Sprays(Leg(from, to, stop, spray)) \subseteq IF spray THEN {to} ELSE {}
         /\ SpraysOnce(Leg(from, to, stop, spray))
<1>0. to \in Locations /\ Base \in Locations /\ to # Base
  <2>1. Base \notin Regions
    BY ReplanAssumption, Zenon
  <2> QED
    BY <2>1 DEF Locations
<1> DEFINE way == IF stop THEN Trip(from, Base) \o Trip(Base, to) ELSE Trip(from, to)
           there == IF spray THEN <<Act("pulverize_region", to, to)>> ELSE <<>>
<1>1. way \in Seq(Actions) /\ Sprayed(way) = {}
  <2>1. CASE stop
    <3>1. /\ Trip(from, Base) \in Seq(Actions) /\ Sprayed(Trip(from, Base)) = {}
          /\ Trip(Base, to) \in Seq(Actions) /\ Sprayed(Trip(Base, to)) = {}
      BY <1>0, TripSprays
    <3>2. /\ Trip(from, Base) \o Trip(Base, to) \in Seq(Actions)
          /\ Sprayed(Trip(from, Base) \o Trip(Base, to)) = {}
      BY <3>1, ConcatSprayed
    <3> QED
      BY <2>1, <3>2
  <2>2. CASE ~stop
    BY <1>0, <2>2, TripSprays
  <2> QED
    BY <2>1, <2>2
<1>2. /\ there \in Seq(Actions)
      /\ Sprays(there) \subseteq IF spray THEN {to} ELSE {}
      /\ SpraysOnce(there)
  <2>1. CASE spray
    <3>1. PICK a : a = Act("pulverize_region", to, to)
      OBVIOUS
    <3>2. a \in Actions /\ a.to = to
      BY <1>0, <3>1 DEF Act, Actions, Names
    <3>3. there = <<a>>
      BY <2>1, <3>1
    <3> HIDE DEF there
    <3>4. Sprayed(there) \subseteq {1} /\ there[1].to = to /\ there \in Seq(Actions)
      BY <3>2, <3>3 DEF Sprayed
    <3> QED
      BY <2>1, <3>4 DEF Sprays, SpraysOnce
  <2>2. CASE ~spray
    <3>1. there = <<>>
      BY <2>2
    <3> HIDE DEF there
    <3> QED
      BY <2>2, <3>1, NothingSprayed
  <2> QED
    BY <2>1, <2>2
<1>3. Leg(from, to, stop, spray) = way \o there
  BY DEF Leg
<1> HIDE DEF way, there
<1>4. Sprays(way) = {} /\ SpraysOnce(way)
  BY <1>1 DEF Sprays, SpraysOnce
<1> QED
  BY <1>1, <1>2, <1>3, <1>4, ConcatSprays

(* What the parts spray, the flattened sequence sprays, and once if each   *)
(* part does so and no two parts spray the same: each part adds to what    *)
(* those before it spray.                                                  *)
LEMMA FlattenSprays ==
  ASSUME NEW s \in Seq(Seq(Actions)), NEW G,
         \A i \in 1 .. Len(s) : Sprays(s[i]) \subseteq G
  PROVE  /\ FlattenSeq(s) \in Seq(Actions)
         /\ Sprays(FlattenSeq(s)) \subseteq G
         /\ /\ \A i \in 1 .. Len(s) : SpraysOnce(s[i])
            /\ \A i, j \in 1 .. Len(s) : i # j => Sprays(s[i]) \cap Sprays(s[j]) = {}
            => SpraysOnce(FlattenSeq(s))
<1> DEFINE Apart == /\ \A i \in 1 .. Len(s) : SpraysOnce(s[i])
                    /\ \A i, j \in 1 .. Len(s) : i # j => Sprays(s[i]) \cap Sprays(s[j]) = {}
           Upto(i) == UNION {Sprays(s[m]) : m \in 1 .. i}
           R == [i \in 1 .. Len(s) |->
                   {q \in Seq(Actions) : /\ Sprays(q) \subseteq Upto(i)
                                         /\ Apart => SpraysOnce(q)}]
<1>1. Len(s) \in Nat /\ \A i \in 1 .. Len(s) : s[i] \in Seq(Actions)
  OBVIOUS
<1>2. CASE s = <<>>
  <2>1. Len(s) = 0
    BY <1>2
  <2>2. FlattenSeq(s) = <<>>
    BY <1>2, <2>1 DEF FlattenSeq
  <2> QED
    BY <2>2, NothingSprayed
<1>3. CASE s # <<>>
  <2>1. 1 \in 1 .. Len(s) /\ Len(s) \in 1 .. Len(s)
    BY <1>1, <1>3
  <2>2. s[1] \in R[1]
    <3>1. Upto(1) = Sprays(s[1])
      OBVIOUS
    <3>2. Apart => SpraysOnce(s[1])
      BY <2>1
    <3> HIDE DEF Upto, Apart
    <3> QED
      BY <1>1, <2>1, <3>1, <3>2
  <2>3. ASSUME NEW i \in 1 .. Len(s), i + 1 <= Len(s), NEW q \in R[i]
        PROVE  q \o s[i + 1] \in R[i + 1]
    <3>1. i + 1 \in 1 .. Len(s) /\ i \in Nat
      BY <1>1, <2>3
    <3>2. Upto(i) \cup Sprays(s[i + 1]) \subseteq Upto(i + 1)
      <4>1. \A m \in 1 .. i : m \in 1 .. i + 1
        BY <3>1
      <4>2. i + 1 \in 1 .. i + 1
        BY <3>1
      <4> QED
        BY <4>1, <4>2
    <3>3. Apart => Upto(i) \cap Sprays(s[i + 1]) = {} /\ SpraysOnce(s[i + 1])
      <4> SUFFICES ASSUME Apart
                   PROVE  Upto(i) \cap Sprays(s[i + 1]) = {} /\ SpraysOnce(s[i + 1])
        OBVIOUS
      <4>1. ASSUME NEW m \in 1 .. i PROVE Sprays(s[m]) \cap Sprays(s[i + 1]) = {}
        <5>1. m \in 1 .. Len(s) /\ m # i + 1
          BY <3>1
        <5> QED
          BY <3>1, <5>1
      <4>2. SpraysOnce(s[i + 1])
        BY <3>1
      <4> QED
        BY <4>1, <4>2
    <3> HIDE DEF Upto, Apart
    <3>4. q \in Seq(Actions) /\ Sprays(q) \subseteq Upto(i) /\ (Apart => SpraysOnce(q))
      OBVIOUS
    <3>5. s[i + 1] \in Seq(Actions)
      BY <1>1, <3>1
    <3>6. /\ q \o s[i + 1] \in Seq(Actions)
          /\ Sprays(q \o s[i + 1]) \subseteq Upto(i + 1)
      BY <3>2, <3>4, <3>5, ConcatSprays
    <3>7. Apart => SpraysOnce(q \o s[i + 1])
      <4> SUFFICES ASSUME Apart PROVE SpraysOnce(q \o s[i + 1])
        OBVIOUS
      <4>1. SpraysOnce(q) /\ SpraysOnce(s[i + 1]) /\ Sprays(q) \cap Sprays(s[i + 1]) = {}
        BY <3>3, <3>4
      <4> QED
        BY <3>4, <3>5, <4>1, ConcatSprays
    <3> QED
      BY <3>1, <3>6, <3>7
  <2>4. FlattenSeq(s) \in R[Len(s)]
    <3> HIDE DEF R
    <3> QED
      BY <1>3, <2>2, <2>3, FlattenInduction
  <2>5. Upto(Len(s)) \subseteq G
    OBVIOUS
  <2>6. /\ FlattenSeq(s) \in Seq(Actions)
        /\ Sprays(FlattenSeq(s)) \subseteq Upto(Len(s))
        /\ Apart => SpraysOnce(FlattenSeq(s))
    <3> HIDE DEF Upto, Apart
    <3> QED
      BY <2>1, <2>4
  <2> QED
    BY <2>5, <2>6
<1> QED
  BY <1>2, <1>3

Different(visits) ==
  \A i, j \in 1 .. Len(visits) : visits[i] = visits[j] => i = j

(* Choosing regions sprays nothing.                                        *)
LEMMA ChoicesSpray ==
  ASSUME NEW p, NEW stations \in Seq(Regions), NEW stops
  PROVE  /\ ChoicesOf(p, stations, stops) \in Seq(Actions)
         /\ Sprays(ChoicesOf(p, stations, stops)) = {}
         /\ SpraysOnce(ChoicesOf(p, stations, stops))
<1> DEFINE part(i) == IF i \in ChosenAnew(p, stations, stops)
                      THEN <<Act("set_next_region", stations[i], stations[i])>> ELSE <<>>
           s == [i \in 1 .. Len(stations) |-> part(i)]
<1>1. ASSUME NEW i \in 1 .. Len(stations)
      PROVE  part(i) \in Seq(Actions) /\ Sprayed(part(i)) = {}
  <2>1. CASE i \in ChosenAnew(p, stations, stops)
    <3>1. PICK a : a = Act("set_next_region", stations[i], stations[i])
      OBVIOUS
    <3>2. stations[i] \in Locations /\ stations[i] # Base
      <4>1. Base \notin Regions
        BY ReplanAssumption, Zenon
      <4>2. stations[i] \in Regions
        OBVIOUS
      <4> QED
        BY <4>1, <4>2 DEF Locations
    <3>3. a \in Actions /\ ~IsSpray(a)
      BY <3>1, <3>2 DEF Act, Actions, Names, IsSpray
    <3>4. part(i) = <<a>>
      BY <2>1, <3>1
    <3> HIDE DEF part
    <3> QED
      BY <3>3, <3>4 DEF Sprayed
  <2>2. CASE i \notin ChosenAnew(p, stations, stops)
    <3>1. part(i) = <<>>
      BY <2>2
    <3> HIDE DEF part
    <3> QED
      BY <3>1, NothingSprayed
  <2> QED
    BY <2>1, <2>2
<1>2. ChoicesOf(p, stations, stops) = FlattenSeq(s)
  BY DEF ChoicesOf
<1> HIDE DEF part
<1>3. s \in Seq(Seq(Actions)) /\ Len(s) = Len(stations)
  BY <1>1
<1>4. \A i \in 1 .. Len(s) : Sprays(s[i]) = {} /\ SpraysOnce(s[i])
  <2> SUFFICES ASSUME NEW i \in 1 .. Len(s) PROVE Sprays(s[i]) = {} /\ SpraysOnce(s[i])
    OBVIOUS
  <2>1. i \in 1 .. Len(stations) /\ s[i] = part(i)
    BY <1>3
  <2> HIDE DEF s
  <2> QED
    BY <1>1, <2>1 DEF Sprays, SpraysOnce
<1> HIDE DEF s
<1>5. /\ FlattenSeq(s) \in Seq(Actions)
      /\ Sprays(FlattenSeq(s)) \subseteq {}
      /\ SpraysOnce(FlattenSeq(s))
  BY <1>3, <1>4, FlattenSprays
<1> QED
  BY <1>2, <1>5

(* The legs spray what is visited behind the detour, and once what is      *)
(* visited once.                                                           *)
LEMMA LegsSpray ==
  ASSUME NEW start \in Locations, NEW G \in SUBSET Regions,
         NEW detour \in Seq(Regions), NEW visits \in Seq(G), NEW stops
  PROVE  /\ LegsOf(start, detour \o visits, stops, Len(detour)) \in Seq(Actions)
         /\ Sprays(LegsOf(start, detour \o visits, stops, Len(detour))) \subseteq G
         /\ Different(visits) => SpraysOnce(LegsOf(start, detour \o visits, stops, Len(detour)))
         /\ Before(start, detour \o visits, Len(detour \o visits) + 1) \in Locations
<1>1. PICK m : m = Len(detour) /\ m \in Nat
  OBVIOUS
<1>2. PICK w : w = detour \o visits
  OBVIOUS
<1>3. /\ w \in Seq(Regions) /\ Len(w) = m + Len(visits) /\ Len(visits) \in Nat
      /\ \A i \in 1 .. Len(w) : i > m => w[i] = visits[i - m] /\ i - m \in 1 .. Len(visits)
  <2>1. visits \in Seq(Regions)
    BY SeqMonotonic
  <2>2. \A i \in 1 .. m + Len(visits) : w[i] = IF i <= m THEN detour[i] ELSE visits[i - m]
    BY <1>1, <1>2, <2>1, ConcatProperties
  <2>3. w \in Seq(Regions) /\ Len(w) = m + Len(visits) /\ Len(visits) \in Nat
    BY <1>1, <1>2, <2>1, ConcatProperties
  <2> QED
    BY <1>1, <2>2, <2>3
<1> DEFINE part(i) == Leg(Before(start, w, i), w[i], i \in stops, i > m)
           s == [i \in 1 .. Len(w) |-> part(i)]
<1>4. \A i \in 1 .. Len(w) : w[i] \in Regions
  BY <1>3
<1>5. ASSUME NEW i \in 1 .. Len(w) + 1
      PROVE  Before(start, w, i) \in Locations
  <2>1. CASE i = 1
    BY <2>1 DEF Before
  <2>2. CASE i # 1
    <3>1. i - 1 \in 1 .. Len(w)
      BY <1>3, <2>2
    <3> QED
      BY <1>4, <2>2, <3>1 DEF Before, Locations
  <2> QED
    BY <2>1, <2>2
<1>6. ASSUME NEW i \in 1 .. Len(w)
      PROVE  /\ part(i) \in Seq(Actions)
             /\ Sprays(part(i)) \subseteq IF i > m THEN {w[i]} ELSE {}
             /\ SpraysOnce(part(i))
  <2>1. i \in 1 .. Len(w) + 1
    BY <1>3
  <2>2. /\ Before(start, w, i) \in Locations /\ w[i] \in Regions
        /\ (i \in stops) \in BOOLEAN /\ (i > m) \in BOOLEAN
    BY <1>4, <1>5, <2>1
  <2> QED
    BY <2>2, LegSprays
<1>7. LegsOf(start, w, stops, m) = FlattenSeq(s)
  BY DEF LegsOf
<1> HIDE DEF part
<1>8. s \in Seq(Seq(Actions)) /\ Len(s) = Len(w)
  <2>1. Len(w) \in Nat
    BY <1>1, <1>3
  <2>2. s \in [1 .. Len(w) -> Seq(Actions)]
    BY <1>6
  <2> HIDE DEF s
  <2> QED
    BY <2>1, <2>2
<1>9. ASSUME NEW i \in 1 .. Len(s)
      PROVE  i \in 1 .. Len(w) /\ s[i] = part(i)
  BY <1>8
<1> HIDE DEF s
<1>10. \A i \in 1 .. Len(s) : Sprays(s[i]) \subseteq G /\ SpraysOnce(s[i])
  <2> SUFFICES ASSUME NEW i \in 1 .. Len(s) PROVE Sprays(s[i]) \subseteq G /\ SpraysOnce(s[i])
    OBVIOUS
  <2>1. i > m => w[i] \in G
    BY <1>3, <1>9
  <2> QED
    BY <1>6, <1>9, <2>1
<1>11. ASSUME Different(visits)
       PROVE  \A i, j \in 1 .. Len(s) : i # j => Sprays(s[i]) \cap Sprays(s[j]) = {}
  <2> SUFFICES ASSUME NEW i \in 1 .. Len(s), NEW j \in 1 .. Len(s), i # j,
                      NEW r \in Sprays(s[i]) \cap Sprays(s[j])
               PROVE  FALSE
    OBVIOUS
  <2>1. i > m /\ r = w[i] /\ j > m /\ r = w[j]
    BY <1>6, <1>9
  <2>2. visits[i - m] = visits[j - m] /\ i - m \in 1 .. Len(visits) /\ j - m \in 1 .. Len(visits)
    BY <1>3, <1>9, <2>1
  <2>3. i - m = j - m
    BY <1>11, <2>2 DEF Different
  <2> QED
    BY <1>1, <2>3
<1>12. /\ FlattenSeq(s) \in Seq(Actions)
       /\ Sprays(FlattenSeq(s)) \subseteq G
       /\ Different(visits) => SpraysOnce(FlattenSeq(s))
  BY <1>8, <1>10, <1>11, FlattenSprays
<1>13. Len(w) + 1 \in 1 .. Len(w) + 1
  BY <1>1, <1>3
<1> QED
  BY <1>1, <1>2, <1>5, <1>7, <1>12, <1>13

(* A plan sprays what it visits, and once what it visits once.             *)
LEMMA PlanSprays ==
  ASSUME NEW p, NEW start \in Locations, NEW G \in SUBSET Regions,
         NEW detour \in Seq(Regions), NEW visits \in Seq(G), NEW stops
  PROVE  /\ PlanOf(p, start, detour, visits, stops) \in Seq(Actions)
         /\ Sprays(PlanOf(p, start, detour, visits, stops)) \subseteq G
         /\ Different(visits) => SpraysOnce(PlanOf(p, start, detour, visits, stops))
<1> DEFINE w == detour \o visits
           choices == ChoicesOf(p, w, stops)
           legs == LegsOf(start, w, stops, Len(detour))
           home == Trip(Before(start, w, Len(w) + 1), Base)
<1>1. PlanOf(p, start, detour, visits, stops) = (choices \o legs) \o home
  BY DEF PlanOf
<1>2. w \in Seq(Regions)
  <2>1. visits \in Seq(Regions)
    BY SeqMonotonic
  <2> QED
    BY <2>1, ConcatProperties
<1>3. choices \in Seq(Actions) /\ Sprays(choices) = {} /\ SpraysOnce(choices)
  <2> HIDE DEF w
  <2> QED
    BY <1>2, ChoicesSpray
<1>4. /\ legs \in Seq(Actions) /\ Sprays(legs) \subseteq G
      /\ Different(visits) => SpraysOnce(legs)
      /\ Before(start, w, Len(w) + 1) \in Locations
  BY LegsSpray
<1>5. home \in Seq(Actions) /\ Sprays(home) = {} /\ SpraysOnce(home)
  <2>1. Base \in Locations
    BY DEF Locations
  <2>2. home \in Seq(Actions) /\ Sprayed(home) = {}
    <3> HIDE DEF w
    <3> QED
      BY <1>4, <2>1, TripSprays
  <2> HIDE DEF home
  <2> QED
    BY <2>2 DEF Sprays, SpraysOnce
<1> HIDE DEF choices, legs, home
<1>6. PICK flown : flown = choices \o legs
  OBVIOUS
<1>7. /\ flown \in Seq(Actions) /\ Sprays(flown) \subseteq G
      /\ Different(visits) => SpraysOnce(flown)
  BY <1>3, <1>4, <1>6, ConcatSprays
<1>8. /\ flown \o home \in Seq(Actions)
      /\ Sprays(flown \o home) \subseteq G
      /\ Different(visits) => SpraysOnce(flown \o home)
  BY <1>5, <1>7, ConcatSprays
<1> QED
  BY <1>1, <1>6, <1>8

(* The regions that a problem is about.                                    *)
Known(k) == k.goals \cup Achieved(k)

LEMMA OpenTypes ==
  ASSUME NEW k \in KnowledgeBases
  PROVE  /\ OpenGoals(k) \subseteq k.goals /\ k.goals \subseteq Regions
         /\ Known(k) \subseteq Regions /\ OpenGoals(k) \subseteq Known(k)
         /\ IsFiniteSet(k.goals) /\ IsFiniteSet(OpenGoals(k))
         /\ Cardinality(k.goals) \in Nat /\ Cardinality(OpenGoals(k)) \in Nat
         /\ k.total_goals \in Int
<1>1. /\ OpenGoals(k) \subseteq k.goals /\ k.goals \subseteq Regions
      /\ Known(k) \subseteq Regions /\ OpenGoals(k) \subseteq Known(k)
      /\ k.total_goals \in Int
  BY DEF KnowledgeBases, OpenGoals, Known, Achieved
<1>2. IsFiniteSet(k.goals) /\ IsFiniteSet(OpenGoals(k))
  BY <1>1, FS_Subset, ReplanAssumption
<1> QED
  BY <1>1, <1>2, FS_CardinalityType

LEMMA OrderTypes ==
  ASSUME NEW D, IsFiniteSet(D), NEW v \in SetToSeqs(D)
  PROVE  v \in Seq(D) /\ Different(v)
<1> DEFINE n == Cardinality(D)
<1>1. n \in Nat
  BY FS_CardinalityType
<1>2. /\ v \in [1 .. n -> D]
      /\ \A i, j \in 1 .. n : i # j => v[i] # v[j]
  BY DEF SetToSeqs
<1> HIDE DEF n
<1>3. v \in Seq(D) /\ Len(v) = n
  BY <1>1, <1>2
<1> QED
  BY <1>2, <1>3 DEF Different

(* Every finite set has an order that names all of it.                     *)
LEMMA OrderExists ==
  ASSUME NEW D, IsFiniteSet(D)
  PROVE  \E v \in SetToSeqs(D) :
           v \in Seq(D) /\ Different(v) /\ \A r \in D : \E i \in 1 .. Len(v) : v[i] = r
<1> DEFINE n == Cardinality(D)
<1>1. PICK v : v \in Bijection(1 .. n, D)
  BY FS_CardinalityType DEF ExistsBijection
<1>2. v \in SetToSeqs(D)
  BY <1>1 DEF SetToSeqs, Bijection, Injection, IsInjective
<1>3. v \in Seq(D) /\ Different(v)
  BY <1>2, OrderTypes
<1>4. n \in Nat
  BY FS_CardinalityType
<1>5. v \in [1 .. n -> D] /\ \A r \in D : \E i \in 1 .. n : v[i] = r
  BY <1>1 DEF Bijection, Surjection
<1> HIDE DEF n
<1>6. Len(v) = n
  BY <1>4, <1>5
<1> QED
  BY <1>2, <1>3, <1>5, <1>6

(* Only when total-goals is higher than the number of open goals, a plan   *)
(* visits something else than these, or visits one of them again.          *)
LEMMA VisitsTypes ==
  ASSUME NEW p \in Problems, NEW v \in Visits(p)
  PROVE  /\ v \in Seq(Known(p.kb))
         /\ p.kb.total_goals = Cardinality(OpenGoals(p.kb))
              => v \in Seq(OpenGoals(p.kb)) /\ Different(v)
<1> DEFINE once == SetToSeqs(OpenGoals(p.kb))
           more == p.kb.total_goals - Cardinality(OpenGoals(p.kb))
<1>0. p.kb \in KnowledgeBases
  BY DEF Problems
<1>1. more \in Int /\ (more > 0 => p.kb.total_goals # Cardinality(OpenGoals(p.kb)))
  BY <1>0, OpenTypes
<1>2. OpenGoals(p.kb) \subseteq Known(p.kb)
  BY <1>0, OpenTypes
<1>3. CASE v \in once
  <2>1. v \in Seq(OpenGoals(p.kb)) /\ Different(v)
    BY <1>0, <1>3, OpenTypes, OrderTypes
  <2> QED
    BY <1>2, <2>1, SeqMonotonic
<1>4. CASE v \notin once
  <2> DEFINE join(s, r) == s \o [i \in 1 .. more |-> r]
             extra == {join(s, r) : s \in once, r \in p.kb.goals \cup Achieved(p.kb)}
  <2>0. Visits(p) = once \cup (IF more > 0 THEN extra ELSE {})
    BY DEF Visits
  <2>1. more > 0 /\ v \in extra
    <3> HIDE DEF more, once, extra
    <3> QED
      BY <1>4, <2>0
  <2> HIDE DEF more, once, join
  <2>2. PICK s \in once, r \in Known(p.kb) : v = join(s, r)
    BY <2>1 DEF Known
  <2>3. s \in Seq(OpenGoals(p.kb))
    BY <1>0, OpenTypes, OrderTypes DEF once
  <2>4. s \in Seq(Known(p.kb))
    BY <1>2, <2>3, SeqMonotonic
  <2>5. [i \in 1 .. more |-> r] \in Seq(Known(p.kb))
    BY <1>1, <2>1
  <2>6. v \in Seq(Known(p.kb))
    BY <2>2, <2>4, <2>5, ConcatProperties DEF join
  <2> QED
    BY <1>1, <2>1, <2>6
<1> QED
  BY <1>3, <1>4

(* A detour is one over regions that are still chosen.                     *)
LEMMA ChosenTypes ==
  ASSUME NEW k
  PROVE  ToBeFlown(k) \subseteq Regions /\ IsFiniteSet(ToBeFlown(k))
<1>1. ToBeFlown(k) \subseteq Regions
  BY DEF ToBeFlown
<1> QED
  BY <1>1, FS_Subset, ReplanAssumption

LEMMA DetourTypes ==
  ASSUME NEW p, NEW d \in Detours(p)
  PROVE  d \in Seq(Regions)
<1>1. CASE d = <<>>
  BY <1>1
<1>2. CASE d # <<>>
  <2>1. PICK D \in SUBSET ToBeFlown(p.kb) : d \in SetToSeqs(D)
    BY <1>2 DEF Detours
  <2>2. IsFiniteSet(D) /\ D \subseteq Regions
    BY <2>1, ChosenTypes, FS_Subset
  <2>3. d \in Seq(D)
    BY <2>1, <2>2, OrderTypes
  <2> QED
    BY <2>2, <2>3, SeqMonotonic
<1> QED
  BY <1>1, <1>2

(* So a plan sprays only goals and what was sprayed before, and when       *)
(* total-goals is right, each open goal at most once and nothing else.     *)
LEMMA SolutionSprays ==
  ASSUME NEW p \in Problems, NEW a \in Solutions(p)
  PROVE  /\ Sprays(a) \subseteq Known(p.kb)
         /\ p.kb.total_goals = Cardinality(OpenGoals(p.kb))
              => Sprays(a) \subseteq OpenGoals(p.kb) /\ SpraysOnce(a)
<1>0. p.kb \in KnowledgeBases
  BY DEF Problems
<1>1. PICK l \in Ats(p.kb), d \in Detours(p), v \in Visits(p) :
             \E s \in Stops(d \o v) : a = PlanOf(p, l, d, v, s)
  BY DEF Solutions
<1>2. PICK s \in Stops(d \o v) : a = PlanOf(p, l, d, v, s)
  BY <1>1
<1>3. l \in Locations /\ d \in Seq(Regions)
  BY DetourTypes DEF Ats
<1>4. Known(p.kb) \in SUBSET Regions /\ OpenGoals(p.kb) \in SUBSET Regions
  BY <1>0, OpenTypes
<1>5. Sprays(a) \subseteq Known(p.kb)
  BY <1>2, <1>3, <1>4, VisitsTypes, PlanSprays
<1>6. ASSUME p.kb.total_goals = Cardinality(OpenGoals(p.kb))
      PROVE  Sprays(a) \subseteq OpenGoals(p.kb) /\ SpraysOnce(a)
  <2>1. v \in Seq(OpenGoals(p.kb)) /\ Different(v)
    BY <1>6, VisitsTypes
  <2> QED
    BY <1>2, <1>3, <1>4, <2>1, PlanSprays
<1> QED
  BY <1>5, <1>6

(* With a detour to every region that is still chosen, in any order, the   *)
(* visits may be chosen.                                                   *)
LEMMA DetourAllows ==
  ASSUME NEW p, NEW d \in Seq(ToBeFlown(p.kb)), Different(d),
         \A r \in ToBeFlown(p.kb) : \E i \in 1 .. Len(d) : d[i] = r,
         NEW v \in Seq(Regions), NEW stops
  PROVE  Allowed(p, d \o v, stops)
<1> DEFINE w == d \o v
<1>1. /\ Len(w) = Len(d) + Len(v) /\ Len(d) \in Nat /\ Len(v) \in Nat
      /\ \A i \in 1 .. Len(d) : w[i] = d[i]
  <2>1. d \in Seq(Regions)
    BY ChosenTypes, SeqMonotonic
  <2> QED
    BY <2>1, ConcatProperties
<1> HIDE DEF w
<1>2. SUFFICES ASSUME NEW i \in ChosenAnew(p, w, stops), NEW r \in ToBeFlown(p.kb)
               PROVE  r \in Reached(w, i)
  BY DEF Allowed, w
<1>3. i \in 1 .. Len(w) /\ w[i] \notin ToBeFlown(p.kb) \ Reached(w, i)
  BY DEF ChosenAnew, Flights
<1>4. i > Len(d)
  <2> SUFFICES ASSUME ~(i > Len(d)) PROVE FALSE
    OBVIOUS
  <2>0. i \in 1 .. Len(d)
    BY <1>1, <1>3
  <2>1. i \in 1 .. Len(d) /\ w[i] = d[i] /\ d[i] \in ToBeFlown(p.kb)
    BY <1>1, <2>0, ElementOfSeq
  <2>2. PICK j \in 1 .. i - 1 : w[i] = w[j]
    BY <1>3, <2>1 DEF Reached
  <2>3. j \in 1 .. Len(d) /\ j # i
    BY <1>1, <2>1, <2>2
  <2>4. w[j] = d[j]
    BY <1>1, <2>3
  <2> QED
    BY <2>1, <2>2, <2>3, <2>4 DEF Different
<1>5. PICK j \in 1 .. Len(d) : d[j] = r
  OBVIOUS
<1>6. j \in 1 .. i - 1 /\ w[j] = r
  BY <1>1, <1>3, <1>4, <1>5
<1> QED
  BY <1>6 DEF Reached

(* Where the vehicle is at some place and may go, there is a plan: if the  *)
(* visits alone are not allowed, behind such a detour they are.            *)
LEMMA SolutionExists ==
  ASSUME NEW p \in Problems, Ats(p.kb) # {}, CanGo \in p.kb.facts
  PROVE  Solutions(p) # {}
<1>0. p.kb \in KnowledgeBases /\ Known(p.kb) \in SUBSET Regions
  BY OpenTypes DEF Problems
<1>1. PICK l \in Ats(p.kb) : l \in Locations
  BY DEF Ats
<1>2. ASSUME NEW d \in Detours(p), NEW v \in Visits(p), NEW s \in Stops(d \o v),
             Allowed(p, d \o v, s)
      PROVE  Solutions(p) # {}
  <2>1. PlanOf(p, l, d, v, s) \in Seq(Actions)
    BY <1>0, <1>1, <1>2, VisitsTypes, DetourTypes, PlanSprays
  <2> DEFINE plans(m, e, u) ==
               {PlanOf(p, m, e, u, t) : t \in {t \in Stops(e \o u) : Allowed(p, e \o u, t)}}
  <2>2. PlanOf(p, l, d, v, s) \in plans(l, d, v)
    BY <1>2
  <2> HIDE DEF plans
  <2>3. PlanOf(p, l, d, v, s) \in
          UNION {plans(m, e, u) : m \in Ats(p.kb), e \in Detours(p), u \in Visits(p)}
    BY <1>1, <1>2, <2>2
  <2>4. PlanOf(p, l, d, v, s) \in Solutions(p)
    BY <2>1, <2>3 DEF Solutions, plans
  <2> QED
    BY <2>4
<1>3. CASE Direct(p)
  <2>1. PICK v \in Visits(p) : \E s \in Stops(v) : Allowed(p, v, s)
    BY <1>3 DEF Direct
  <2>2. PICK s \in Stops(v) : Allowed(p, v, s)
    BY <2>1
  <2>3. <<>> \in Detours(p)
    BY <1>3 DEF Detours
  <2>4. <<>> \o v = v
    <3>1. v \in Seq(Known(p.kb))
      BY VisitsTypes
    <3> QED
      BY <3>1
  <2> QED
    BY <1>2, <2>2, <2>3, <2>4
<1>4. CASE ~Direct(p)
  <2>1. PICK d \in SetToSeqs(ToBeFlown(p.kb)) :
               /\ d \in Seq(ToBeFlown(p.kb)) /\ Different(d)
               /\ \A r \in ToBeFlown(p.kb) : \E i \in 1 .. Len(d) : d[i] = r
    BY ChosenTypes, OrderExists
  <2>2. d \in Detours(p)
    BY <1>4, <2>1 DEF Detours
  <2>3. PICK v : v \in SetToSeqs(OpenGoals(p.kb))
    BY <1>0, OpenTypes, OrderExists
  <2>4. v \in Visits(p)
    BY <2>3 DEF Visits
  <2>5. v \in Seq(Regions)
    BY <1>0, <2>4, VisitsTypes, SeqMonotonic
  <2>6. {1} \in Stops(d \o v)
    <3>1. {} \in SUBSET (2 .. Len(d \o v)) /\ {1} = {1} \cup {}
      OBVIOUS
    <3> QED
      BY <3>1 DEF Stops
  <2>7. Allowed(p, d \o v, {1})
    BY <2>1, <2>5, DetourAllows
  <2> QED
    BY <1>2, <2>2, <2>4, <2>6, <2>7
<1> QED
  BY <1>3, <1>4

-----------------------------------------------------------------------------
(* What the steps do to the knowledge base and to the calls under way.     *)

LEMMA FactsDiffer ==
  /\ \A r, s : Pulverized(r) = Pulverized(s) => r = s
  /\ \A r, l : Pulverized(r) # At(l) /\ Pulverized(r) # AtMove /\ Pulverized(r) # CanGo
  /\ \A l : CanGo # At(l) /\ CanGo # AtMove
  /\ \A r, l : To(r) # At(l) /\ To(r) # Pulverized(l) /\ To(r) # AtMove /\ To(r) # CanGo
  BY DEF Pulverized, To, At, AtMove, CanGo

LEMMA AchievedAfter ==
  ASSUME NEW k \in KnowledgeBases
  PROVE  /\ \A l : Achieved(AddKnowledge(k, At(l))) = Achieved(k)
         /\ Achieved(RemoveKnowledge(k, AtMove)) = Achieved(k)
         /\ \A g : Achieved(RemoveMissionGoal(k, g)) = Achieved(k)
         /\ \A g : Achieved(AddMissionGoals(k, g)) = Achieved(k)
         /\ \A n : Achieved(SetFunction(k, n)) = Achieved(k)
         /\ \A a \in Actions :
              /\ Achieved(UpdateKnowledgeArray(k, StartDel(a), StartAdd(a))) = Achieved(k)
              /\ Achieved(UpdateKnowledgeArray(k, EndDel(a), EndAdd(a)))
                   = Achieved(k) \cup (IF IsSpray(a) THEN {a.to} ELSE {})
<1>1. ASSUME NEW a \in Actions
      PROVE  Achieved(UpdateKnowledgeArray(k, StartDel(a), StartAdd(a))) = Achieved(k)
  <2>1. UpdateKnowledgeArray(k, StartDel(a), StartAdd(a)).facts
          = (k.facts \ StartDel(a)) \cup StartAdd(a)
    BY DEF UpdateKnowledgeArray, KnowledgeBases
  <2>2. \A r : Pulverized(r) \notin StartDel(a) \cup StartAdd(a)
    BY Effects, FactsDiffer
  <2> QED
    BY <2>1, <2>2 DEF Achieved
<1>2. ASSUME NEW a \in Actions
      PROVE  Achieved(UpdateKnowledgeArray(k, EndDel(a), EndAdd(a)))
               = Achieved(k) \cup (IF IsSpray(a) THEN {a.to} ELSE {})
  <2>1. UpdateKnowledgeArray(k, EndDel(a), EndAdd(a)).facts
          = (k.facts \ EndDel(a)) \cup EndAdd(a)
    BY DEF UpdateKnowledgeArray, KnowledgeBases
  <2>2. \A r : /\ Pulverized(r) \notin EndDel(a)
               /\ Pulverized(r) \in EndAdd(a) <=> IsSpray(a) /\ r = a.to
    BY Effects, FactsDiffer DEF IsSpray
  <2>3. IsSpray(a) => a.to \in Regions
    BY DEF Actions, IsSpray, Locations
  <2> QED
    BY <2>1, <2>2, <2>3 DEF Achieved
<1>3. /\ \A l : AddKnowledge(k, At(l)).facts = k.facts \cup {At(l)}
      /\ RemoveKnowledge(k, AtMove).facts = k.facts \ {AtMove}
      /\ \A g : RemoveMissionGoal(k, g).facts = k.facts /\ AddMissionGoals(k, g).facts = k.facts
      /\ \A n : SetFunction(k, n).facts = k.facts
  BY DEF AddKnowledge, RemoveKnowledge, RemoveMissionGoal, AddMissionGoals, SetFunction,
         KnowledgeBases
<1> QED
  BY <1>1, <1>2, <1>3, FactsDiffer DEF Achieved

CallsIn(S, box) == S \cup ((UNION {Range(box[a]) : a \in Names}) \ {CancelAction})

LEMMA Gathered ==
  ASSUME NEW S, NEW box \in [Names -> Seq(Calls \cup {CancelAction})], NEW c
  PROVE  c \in CallsIn(S, box) <=>
           \/ c \in S
           \/ c # CancelAction /\ \E a \in Names : \E i \in 1 .. Len(box[a]) : box[a][i] = c
<1>1. ASSUME NEW a \in Names
      PROVE  c \in Range(box[a]) <=> \E i \in 1 .. Len(box[a]) : box[a][i] = c
  <2>1. DOMAIN box[a] = 1 .. Len(box[a])
    OBVIOUS
  <2> QED
    BY <2>1 DEF Range
<1>2. c \in UNION {Range(box[a]) : a \in Names} <=> \E a \in Names : c \in Range(box[a])
  OBVIOUS
<1> QED
  BY <1>1, <1>2 DEF CallsIn

LEMMA UnderWayIs ==
  ASSUME TypeInv, TypeInv'
  PROVE  /\ UnderWay \subseteq Calls /\ calls \subseteq UnderWay
         /\ \A c \in UnderWay : c.action \in Actions /\ c.round \in Nat
         /\ \A c : c \in UnderWay <=>
              \/ c \in calls
              \/ c # CancelAction /\ \E a \in Names : \E i \in 1 .. Len(inbox[a]) : inbox[a][i] = c
         /\ \A c : c \in UnderWay' <=>
              \/ c \in calls'
              \/ c # CancelAction /\ \E a \in Names : \E i \in 1 .. Len(inbox'[a]) : inbox'[a][i] = c
<1>1. /\ calls \subseteq Calls /\ inbox \in [Names -> Seq(Calls \cup {CancelAction})]
      /\ inbox' \in [Names -> Seq(Calls \cup {CancelAction})]
      /\ CancelAction \notin Calls
  BY LocatedTypes DEF TypeInv, ReplanTypeOK
<1>6. UnderWay = CallsIn(calls, inbox) /\ UnderWay' = CallsIn(calls', inbox')
  BY DEF UnderWay, CallsIn
<1>2. \A c : c \in UnderWay <=>
        \/ c \in calls
        \/ c # CancelAction /\ \E a \in Names : \E i \in 1 .. Len(inbox[a]) : inbox[a][i] = c
  <2> TAKE c
  <2>1. inbox \in [Names -> Seq(Calls \cup {CancelAction})]
    BY <1>1
  <2>2. c \in CallsIn(calls, inbox) <=>
          \/ c \in calls
          \/ c # CancelAction /\ \E a \in Names : \E i \in 1 .. Len(inbox[a]) : inbox[a][i] = c
    BY <2>1, Gathered
  <2> QED
    BY <1>6, <2>2
<1>3. \A c : c \in UnderWay' <=>
        \/ c \in calls'
        \/ c # CancelAction /\ \E a \in Names : \E i \in 1 .. Len(inbox'[a]) : inbox'[a][i] = c
  <2> TAKE c
  <2>1. inbox' \in [Names -> Seq(Calls \cup {CancelAction})]
    BY <1>1
  <2>2. c \in CallsIn(calls', inbox') <=>
          \/ c \in calls'
          \/ c # CancelAction /\ \E a \in Names : \E i \in 1 .. Len(inbox'[a]) : inbox'[a][i] = c
    BY <2>1, Gathered
  <2> QED
    BY <1>6, <2>2
<1>4. \A a \in Names : \A i \in 1 .. Len(inbox[a]) : inbox[a][i] \in Calls \cup {CancelAction}
  BY <1>1, ElementOfSeq
<1>5. UnderWay \subseteq Calls
  BY <1>1, <1>2, <1>4
<1> QED
  BY <1>2, <1>3, <1>5 DEF Calls

(* Only SendAction adds a call, and only the current one.                  *)
LEMMA UnderWayStays ==
  ASSUME TypeInv, TypeInv', [ReplanNext]_replanVars
  PROVE  /\ UnderWay' \subseteq UnderWay \cup {Current}
         /\ ~SendAction => UnderWay' \subseteq UnderWay
         /\ \A a \in Names : Hear(a) => UnderWay' \subseteq UnderWay
         /\ \A c \in calls : Return(c) \/ Fails(c) => UnderWay' \subseteq UnderWay
         /\ UNCHANGED <<calls, inbox>> => UnderWay' = UnderWay
<1>0. /\ calls \subseteq Calls /\ inbox \in [Names -> Seq(Calls \cup {CancelAction})]
      /\ CancelAction \notin Calls
  BY LocatedTypes
<1>1. UNCHANGED <<calls, inbox>> => UnderWay' = UnderWay
  BY DEF UnderWay
<1>2. ASSUME SendAction PROVE UnderWay' \subseteq UnderWay \cup {Current}
  <2>1. NextAction \in Actions /\ NextAction.name \in Names
    <3>1. NextAction \in Actions
      BY <1>2, LocatedTypes, ElementOfSeq
      DEF SendAction, Running, NextAction, Dispatchers, Messages
    <3> QED
      BY <3>1 DEF Actions
  <2>2. UNCHANGED calls
    BY <1>2 DEF SendAction
  <2>3. inbox' = [inbox EXCEPT ![NextAction.name] = Append(@, Current)]
    BY <1>2 DEF SendAction, Current
  <2>4. ASSUME NEW a \in Names, NEW i \in 1 .. Len(inbox'[a])
        PROVE  \/ i \in 1 .. Len(inbox[a]) /\ inbox'[a][i] = inbox[a][i]
               \/ inbox'[a][i] = Current
    <3>1. inbox[a] \in Seq(Calls \cup {CancelAction})
      BY <1>0
    <3>2. inbox'[a] = inbox[a] \/ inbox'[a] = Append(inbox[a], Current)
      BY <1>0, <2>1, <2>3
    <3> QED
      BY <2>4, <3>1, <3>2
  <2> QED
    BY <2>2, <2>4, UnderWayIs
<1>3. ASSUME NEW a \in Names, Hear(a) PROVE UnderWay' \subseteq UnderWay
  <2>1. \A b \in Names : \A j \in 1 .. Len(inbox'[b]) :
          \E i \in 1 .. Len(inbox[b]) : inbox'[b][j] = inbox[b][i]
    BY <1>3, Heard
  <2>2. 1 \in 1 .. Len(inbox[a]) /\ Head(inbox[a]) = inbox[a][1]
    BY <1>3, Heard
  <2>3. \A c \in calls' : c \in calls \/ (c = inbox[a][1] /\ c # CancelAction)
    BY <1>3, <2>2 DEF Hear
  <2> QED
    BY <1>3, <2>1, <2>2, <2>3, UnderWayIs
<1>4. CASE Leave
  <2>1. UNCHANGED calls
    BY <1>4 DEF Leave
  <2>2. ASSUME NEW a \in Names, NEW i \in 1 .. Len(inbox'[a]), inbox'[a][i] # CancelAction
        PROVE  i \in 1 .. Len(inbox[a]) /\ inbox'[a][i] = inbox[a][i]
    <3>1. inbox'[a] = inbox[a] \/ inbox'[a] = Append(inbox[a], CancelAction)
      BY <1>4 DEF Leave
    <3>2. inbox[a] \in Seq(Calls \cup {CancelAction})
      BY <1>0
    <3> QED
      BY <2>2, <3>1, <3>2
  <2>3. UnderWay' \subseteq UnderWay
    BY <2>1, <2>2, UnderWayIs
  <2> QED
    BY <1>1, <2>3
<1>5. ASSUME NEW c \in calls, Return(c) \/ Fails(c) PROVE UnderWay' \subseteq UnderWay
  <2>1. calls' \subseteq calls /\ UNCHANGED inbox
    BY <1>5 DEF Return, Fails
  <2> QED
    BY <2>1 DEF UnderWay
<1>6. CASE ScriptStep \/ ProblemCallback \/ PlannerCallback \/ PlanCallback \/ UNCHANGED replanVars
  <2>1. UNCHANGED <<calls, inbox>>
    BY <1>6 DEF ScriptStep, CreatePddlGlobal, WaitToStop, CancelDispatch, LookForMove, StopMove,
       ReadPlace, ReadGoals, Prune, WriteUpdate, ProblemServer, PlanningServer, ParsePlan,
       DispatchPlan, NextRound, ProblemCallback, PlannerCallback, PlanCallback, interfaces,
       replanVars
  <2> QED
    BY <1>1, <2>1
<1> QED
  BY <1>1, <1>2, <1>3, <1>4, <1>5, <1>6 DEF ReplanNext

(* Where the problems and the plans at hand come from.                     *)
ProblemsAt == {problem_instance, problem} \ {None}
PlansAt    == {planner_output, output, complete_plan, dispatcher.plan} \ {None}

LEMMA AtHandTypes ==
  ASSUME TypeInv
  PROVE  /\ ProblemsAt \subseteq Problems /\ PlansAt \subseteq Messages
         /\ \A p \in ProblemsAt : p.kb \in KnowledgeBases /\ p.round \in Nat
         /\ dispatcher.plan \in PlansAt
<1>1. ProblemsAt \subseteq Problems
  BY DEF TypeInv, ReplanTypeOK, ProblemsAt
<1>2. dispatcher.plan \in Messages
  BY DEF TypeInv, ReplanTypeOK, Dispatchers
<1>3. PlansAt \subseteq Messages
  BY <1>2 DEF TypeInv, ReplanTypeOK, PlansAt
<1> QED
  BY <1>1, <1>2, <1>3, NotNone DEF Problems, PlansAt

LEMMA ProblemsFrom ==
  ASSUME [ReplanNext]_replanVars
  PROVE  \A p \in ProblemsAt' :
           \/ p \in ProblemsAt
           \/ ProblemServer /\ p = [round |-> script.round, kb |-> kb]
<1>1. CASE ProblemServer
  BY <1>1 DEF ProblemServer, ProblemsAt
<1>2. CASE ProblemCallback
  BY <1>2 DEF ProblemCallback, ProblemsAt
<1>3. CASE ~ProblemServer /\ ~ProblemCallback
  <2>1. UNCHANGED <<problem_instance, problem>>
    BY <1>3 DEF ReplanNext, ScriptStep, CreatePddlGlobal, WaitToStop, CancelDispatch, LookForMove,
       StopMove, ReadPlace, ReadGoals, Prune, WriteUpdate, PlanningServer, ParsePlan,
       DispatchPlan, NextRound, PlannerCallback, PlanCallback, SendAction, Leave, Hear,
       Return, Fails, topics, replanVars
  <2> QED
    BY <2>1 DEF ProblemsAt
<1> QED
  BY <1>1, <1>2, <1>3

LEMMA PlansFrom ==
  ASSUME TypeInv, [ReplanNext]_replanVars
  PROVE  \A m \in PlansAt' :
           \/ m \in PlansAt
           \/ /\ PlanningServer /\ problem \in ProblemsAt
              /\ \E a \in Solutions(problem) : m = [round |-> problem.round, actions |-> a]
<1>1. CASE PlanningServer
  <2>1. UNCHANGED <<output, complete_plan, dispatcher>>
    BY <1>1 DEF PlanningServer
  <2>2. CASE PlanFound
    BY <1>1, <2>1, <2>2 DEF PlanFound, PlansAt, ProblemsAt
  <2>3. CASE NoPlanFound
    BY <2>1, <2>3 DEF NoPlanFound, PlansAt
  <2> QED
    BY <1>1, <2>2, <2>3 DEF PlanningServer
<1>2. CASE PlannerCallback
  BY <1>2 DEF PlannerCallback, LastOutput, PlansAt
<1>3. CASE ParsePlan
  BY <1>3 DEF ParsePlan, PlansAt
<1>4. CASE PlanCallback
  <2>1. dispatcher'.plan \in {dispatcher.plan, complete_plan}
    BY <1>4, LocatedTypes DEF PlanCallback, Dispatchers
  <2> QED
    BY <1>4, <2>1 DEF PlanCallback, PlansAt
<1>5. CASE ~PlanningServer /\ ~PlannerCallback /\ ~ParsePlan /\ ~PlanCallback
  <2>1. UNCHANGED <<planner_output, output, complete_plan>>
    BY <1>5 DEF ReplanNext, ScriptStep, CreatePddlGlobal, WaitToStop, CancelDispatch, LookForMove,
       StopMove, ReadPlace, ReadGoals, Prune, WriteUpdate, ProblemServer, ProblemCallback,
       DispatchPlan, NextRound, SendAction, Leave, Hear, Return, Fails, topics, replanVars
  <2>2. dispatcher'.plan = dispatcher.plan
    <3>1. dispatcher \in Dispatchers
      BY LocatedTypes
    <3>2. CASE CancelDispatch \/ DispatchPlan \/ SendAction \/ Leave
      BY <3>1, <3>2 DEF CancelDispatch, DispatchPlan, SendAction, Leave, Idle, Dispatchers
    <3>3. ASSUME NEW c \in calls, Return(c) \/ Fails(c) PROVE dispatcher'.plan = dispatcher.plan
      BY <3>1, <3>3 DEF Return, Fails, Dispatchers
    <3>4. CASE UNCHANGED dispatcher
      BY <3>4
    <3> QED
      BY <1>5, <3>2, <3>3, <3>4 DEF ReplanNext, ScriptStep, CreatePddlGlobal, WaitToStop,
         LookForMove, StopMove, ReadPlace, ReadGoals, Prune, WriteUpdate, ProblemServer,
         ProblemCallback, NextRound, Hear, replanVars
  <2> QED
    BY <2>1, <2>2 DEF PlansAt
<1> QED
  BY <1>1, <1>2, <1>3, <1>4, <1>5

Updating == {"update", "cancel", "look", "stop", "place", "goals", "prune"}

(* A problem of the round is there.                                        *)
Generated == {"planning", "parse", "dispatch", "waiting", "end"}

(* The script goes through a round, or on to the next.                     *)
LEMMA ScriptMoves ==
  ASSUME TypeInv, [ReplanNext]_replanVars
  PROVE  /\ rounds' = rounds
         /\ \/ /\ script.round < Len(rounds) /\ InRound("waiting")
               /\ script' = Started(script.round + 1)
            \/ /\ script'.round = script.round
               /\ script.step \notin Updating => script'.step \notin Updating
               /\ script.step \in Generated => script'.step \in Generated
<1>0. script \in [round : 1 .. Len(rounds), step : Steps, at : Locations, total : Int,
                  todo : SUBSET Regions]
  BY LocatedTypes
<1>1. rounds' = rounds
  BY DEF ReplanNext, ScriptStep, CreatePddlGlobal, WaitToStop, CancelDispatch, LookForMove,
     StopMove, ReadPlace, ReadGoals, Prune, WriteUpdate, ProblemServer, PlanningServer, ParsePlan,
     DispatchPlan, NextRound, ProblemCallback, PlannerCallback, PlanCallback, SendAction, Leave,
     Hear, Return, Fails, replanVars
<1>00. ASSUME NEW step, Goto(step)
       PROVE  script'.round = script.round /\ script'.step = step
  BY <1>0, <1>00 DEF Goto
<1>2. CASE NextRound
  BY <1>00, <1>1, <1>2 DEF NextRound, InRound, Updating, Generated
<1>3. CASE CreatePddlGlobal \/ WaitToStop \/ CancelDispatch \/ LookForMove \/ StopMove
             \/ ReadPlace \/ ReadGoals \/ Prune \/ WriteUpdate
  <2>1. script.step \in Updating /\ script.step \notin Generated
    BY <1>3 DEF Updating, Generated, InRound, CreatePddlGlobal, WaitToStop, CancelDispatch, LookForMove,
       StopMove, ReadPlace, ReadGoals, Prune, WriteUpdate
  <2>2. script'.round = script.round
    BY <1>0, <1>3, <1>00 DEF CreatePddlGlobal, WaitToStop, CancelDispatch, LookForMove,
       StopMove, ReadPlace, ReadGoals, Prune, WriteUpdate
  <2> QED
    BY <1>1, <2>1, <2>2
<1>4. CASE ProblemServer \/ PlanningServer \/ ParsePlan \/ DispatchPlan
  BY <1>00, <1>1, <1>4 DEF ProblemServer, PlanningServer, ParsePlan, DispatchPlan,
     Updating, Generated
<1>5. CASE UNCHANGED script
  BY <1>1, <1>5
<1> QED
  BY <1>2, <1>3, <1>4, <1>5 DEF ReplanNext, ScriptStep, ProblemCallback, PlannerCallback,
     PlanCallback, SendAction, Leave, Hear, Return, Fails, replanVars

-----------------------------------------------------------------------------
(* The regions of the missions so far: whatever is a goal, is sprayed or   *)
(* is going to be sprayed is one of them.                                  *)

Past == {r \in Regions :
           \E j \in 1 .. Len(rounds) :
             /\ r \in rounds[j].regions
             /\ j < script.round \/ (j = script.round /\ script.step \notin Updating)}

PastInv ==
  /\ Known(kb) \subseteq Past
  /\ \A p \in ProblemsAt : Known(p.kb) \subseteq Past
  /\ \A m \in PlansAt : Sprays(m.actions) \subseteq Past
  /\ \A c \in UnderWay : IsSpray(c.action) => c.action.to \in Past

LEMMA PastInit == ReplanInit => PastInv
<1> SUFFICES ASSUME ReplanInit PROVE PastInv
  OBVIOUS
<1>1. Known(kb) = {} /\ ProblemsAt = {}
  BY DEF ReplanInit, Empty, Known, Achieved, ProblemsAt
<1>2. \A m \in PlansAt : Sprays(m.actions) = {}
  <2>1. \A m \in PlansAt : m.actions = <<>>
    BY DEF ReplanInit, PlansAt, Idle, NoPlan
  <2> QED
    BY <2>1 DEF Sprays, Sprayed
<1>3. UnderWay = {}
  <2>1. calls = {} /\ inbox \in [Names -> Seq(Calls \cup {CancelAction})]
        /\ \A a \in Names : Len(inbox[a]) = 0
    BY DEF ReplanInit
  <2>2. UnderWay = CallsIn(calls, inbox)
    BY DEF UnderWay, CallsIn
  <2> QED
    BY <2>1, <2>2, Gathered
<1> QED
  BY <1>1, <1>2, <1>3 DEF PastInv

LEMMA PastGrows ==
  ASSUME TypeInv, [ReplanNext]_replanVars
  PROVE  /\ Past \subseteq Past'
         /\ script'.step \notin Updating => CurrentMission \subseteq Past'
<1>1. script.round \in 1 .. Len(rounds) /\ CurrentMission \subseteq Regions
  BY MissionTypes DEF TypeInv, ReplanTypeOK
<1>2. CASE /\ script.round < Len(rounds) /\ InRound("waiting")
           /\ script' = Started(script.round + 1)
  <2>1. script'.round = script.round + 1 /\ script'.step = "update"
    BY <1>2 DEF Started
  <2> QED
    BY <1>1, <2>1, ScriptMoves DEF Past, Updating
<1>3. CASE script'.round = script.round /\ (script.step \notin Updating => script'.step \notin Updating)
  <2>1. Past \subseteq Past'
    BY <1>3, ScriptMoves DEF Past
  <2>2. script'.step \notin Updating => CurrentMission \subseteq Past'
    BY <1>1, <1>3, ScriptMoves DEF Past, CurrentMission
  <2> QED
    BY <2>1, <2>2
<1> QED
  BY <1>2, <1>3, ScriptMoves

(* Only a mission brings new goals, and only a call that returns brings a  *)
(* region that is sprayed.                                                 *)
LEMMA KnownFrom ==
  ASSUME TypeInv, TypeInv', [ReplanNext]_replanVars
  PROVE  \A r \in Known(kb') :
           \/ r \in Known(kb)
           \/ r \in CurrentMission /\ script'.step \notin Updating
           \/ \E c \in calls : IsSpray(c.action) /\ r = c.action.to
<1>0. kb \in KnowledgeBases /\ CurrentMission \subseteq Regions
  BY MissionTypes DEF TypeInv, ReplanTypeOK
<1>00. ASSUME Goto("problem") PROVE script'.step \notin Updating
  BY <1>00, LocatedTypes DEF Goto, Updating
<1>1. CASE CreatePddlGlobal
  <2>1. kb'.goals = CurrentMission /\ kb'.facts = {At(Base), CanGo} /\ Goto("problem")
    BY <1>1 DEF CreatePddlGlobal
  <2>2. Achieved(kb') = {}
    BY <2>1, FactsDiffer DEF Achieved
  <2> QED
    BY <1>00, <2>1, <2>2 DEF Known
<1>2. CASE StopMove
  <2>1. kb' = RemoveKnowledge(kb, AtMove)
    BY <1>2 DEF StopMove, MoveOver
  <2>2. kb'.goals = kb.goals
    BY <1>0, <2>1 DEF RemoveKnowledge, KnowledgeBases
  <2> QED
    BY <1>0, <2>1, <2>2, AchievedAfter DEF Known
<1>3. CASE Prune
  <2>1. PICK g \in script.todo : kb' = kb \/ kb' = RemoveMissionGoal(kb, g)
    BY <1>3 DEF Prune
  <2>2. kb'.goals \subseteq kb.goals
    BY <1>0, <2>1 DEF RemoveMissionGoal, KnowledgeBases
  <2> QED
    BY <1>0, <2>1, <2>2, AchievedAfter DEF Known
<1>4. CASE WriteUpdate
  <2> DEFINE k1 == PlaceWritten(kb)
             k2 == AddMissionGoals(k1, CurrentMission)
  <2>1. kb' = SetFunction(k2, CountMore(script.total)) /\ Goto("problem")
    BY <1>4 DEF WriteUpdate
  <2>2. k1 = AddKnowledge(kb, At(script.at)) /\ k1 \in KnowledgeBases /\ k1.goals = kb.goals
    <3>1. At(script.at) \in Facts
      BY LocatedTypes DEF Facts
    <3> QED
      BY <1>0, <3>1 DEF PlaceWritten, AddKnowledge, KnowledgeBases
  <2>3. k2 \in KnowledgeBases /\ k2.goals = kb.goals \cup CurrentMission
    <3> HIDE DEF k1
    <3> QED
      BY <1>0, <2>2 DEF AddMissionGoals, KnowledgeBases
  <2>4. Achieved(k2) = Achieved(kb)
    <3>1. Achieved(k1) = Achieved(kb)
      BY <1>0, <2>2, AchievedAfter
    <3> HIDE DEF k1
    <3> QED
      BY <2>2, <3>1, AchievedAfter
  <2> HIDE DEF k2
  <2>5. kb'.goals = k2.goals
    BY <2>1, <2>3 DEF SetFunction, KnowledgeBases
  <2> QED
    BY <1>00, <2>1, <2>3, <2>4, <2>5, AchievedAfter DEF Known
<1>5. ASSUME NEW a \in Names, Hear(a) PROVE Known(kb') = Known(kb)
  <2>1. CASE Head(inbox[a]) = CancelAction
    BY <1>5, <2>1 DEF Hear
  <2>2. CASE Head(inbox[a]) # CancelAction
    <3>1. PICK c : /\ kb' = UpdateKnowledgeArray(kb, StartDel(c.action), StartAdd(c.action))
                   /\ c \in calls'
      BY <1>5, <2>2 DEF Hear
    <3>2. c.action \in Actions
      BY <3>1 DEF TypeInv, ReplanTypeOK, Calls
    <3>3. kb'.goals = kb.goals
      BY <1>0, <3>1 DEF UpdateKnowledgeArray, KnowledgeBases
    <3> QED
      BY <1>0, <3>1, <3>2, <3>3, AchievedAfter DEF Known
  <2> QED
    BY <2>1, <2>2
<1>6. ASSUME NEW c \in calls, Return(c)
      PROVE  Known(kb') \subseteq Known(kb) \cup (IF IsSpray(c.action) THEN {c.action.to} ELSE {})
  <2>1. CASE action_cancelled[c.action.name]
    BY <1>6, <2>1 DEF Return
  <2>2. CASE ~action_cancelled[c.action.name]
    <3>1. kb' = UpdateKnowledgeArray(kb, EndDel(c.action), EndAdd(c.action))
      BY <1>6, <2>2 DEF Return
    <3>2. c.action \in Actions
      BY LocatedTypes DEF Calls
    <3>3. kb'.goals = kb.goals
      BY <1>0, <3>1 DEF UpdateKnowledgeArray, KnowledgeBases
    <3> QED
      BY <1>0, <3>1, <3>2, <3>3, AchievedAfter DEF Known
  <2> QED
    BY <2>1, <2>2
<1>7. CASE UNCHANGED kb
  BY <1>7
<1>8. CASE \E c \in calls : Fails(c)
  BY <1>7, <1>8 DEF Fails
<1>9. CASE \E c \in calls : Return(c)
  BY <1>6, <1>9
<1>10. CASE \E a \in Names : Hear(a)
  BY <1>5, <1>10
<1> QED
  BY <1>1, <1>2, <1>3, <1>4, <1>7, <1>8, <1>9, <1>10 DEF ReplanNext, ScriptStep, WaitToStop,
     CancelDispatch, LookForMove, ReadPlace, ReadGoals, ProblemServer, PlanningServer, ParsePlan,
     DispatchPlan, NextRound, ProblemCallback, PlannerCallback, PlanCallback, SendAction, Leave,
     replanVars

LEMMA PastStays == TypeInv /\ TypeInv' /\ PastInv /\ [ReplanNext]_replanVars => PastInv'
<1> SUFFICES ASSUME TypeInv, TypeInv', PastInv, [ReplanNext]_replanVars PROVE PastInv'
  OBVIOUS
<1>0. Past \subseteq Past'
  BY PastGrows
<1>1. Known(kb') \subseteq Past'
  <2>1. \A c \in calls : IsSpray(c.action) => c.action.to \in Past
    BY UnderWayIs DEF PastInv
  <2> QED
    BY <1>0, <2>1, PastGrows, KnownFrom DEF PastInv
<1>2. \A p \in ProblemsAt' : Known(p.kb) \subseteq Past'
  BY <1>0, ProblemsFrom DEF PastInv
<1>3. \A m \in PlansAt' : Sprays(m.actions) \subseteq Past'
  <2> SUFFICES ASSUME NEW m \in PlansAt', m \notin PlansAt
               PROVE  Sprays(m.actions) \subseteq Past'
    BY <1>0 DEF PastInv
  <2>1. /\ problem \in ProblemsAt
        /\ \E a \in Solutions(problem) : m = [round |-> problem.round, actions |-> a]
    BY PlansFrom
  <2>2. m.actions \in Solutions(problem)
    BY <2>1
  <2>3. problem \in Problems /\ Known(problem.kb) \subseteq Past
    BY <2>1, AtHandTypes DEF PastInv
  <2> QED
    BY <1>0, <2>2, <2>3, SolutionSprays
<1>4. \A c \in UnderWay' : IsSpray(c.action) => c.action.to \in Past'
  <2> SUFFICES ASSUME NEW c \in UnderWay', c \notin UnderWay, IsSpray(c.action)
               PROVE  c.action.to \in Past
    BY <1>0 DEF PastInv
  <2>1. SendAction /\ c = Current
    BY UnderWayStays
  <2>2. /\ dispatcher.next \in 1 .. Len(dispatcher.plan.actions)
        /\ c.action = dispatcher.plan.actions[dispatcher.next]
    BY <2>1, LocatedTypes DEF SendAction, Running, Current, NextAction, Dispatchers, Messages
  <2>3. c.action.to \in Sprays(dispatcher.plan.actions)
    BY <2>2 DEF Sprays, Sprayed
  <2> QED
    BY <2>3, AtHandTypes DEF PastInv
<1> QED
  BY <1>1, <1>2, <1>3, <1>4 DEF PastInv

(* For any regions, missions and faults: the goals, what is sprayed, what  *)
(* the problems and plans at hand name and what is under way are regions of*)
(* the missions that the scripts have put into the knowledge base so far.  *)
(* So a region that is new in a round is not known before it.              *)
THEOREM PastInvariance == ReplanSpec => []PastInv
  BY PastInit, PastStays, TypeInvariance, PTL DEF ReplanSpec

-----------------------------------------------------------------------------
(* Counting.  Between the scripts, total-goals is the number of goals; as  *)
(* update.py removes those that are reached, its own count is.  What is a  *)
(* goal then is open: nothing is sprayed while the scripts work.           *)

CountInv ==
  Disjoint /\ history \cap {"late", "died"} = {} =>
    /\ ~InRound("prune") => kb.total_goals = Cardinality(kb.goals)
    /\ InRound("prune") =>
         /\ script.total = Cardinality(kb.goals)
         /\ script.todo \subseteq kb.goals
         /\ (kb.goals \ script.todo) \cap Achieved(kb) = {}
    /\ InRound("problem") => kb.goals \cap Achieved(kb) = {}

LEMMA HistoryStays ==
  ASSUME [ReplanNext]_replanVars
  PROVE  \A h \in history : h # "fault" => h \in history'
  BY DEF ReplanNext, ScriptStep, CreatePddlGlobal, WaitToStop, CancelDispatch, LookForMove,
     StopMove, ReadPlace, ReadGoals, Prune, WriteUpdate, ProblemServer, PlanningServer, PlanFound,
     NoPlanFound, ParsePlan, DispatchPlan, NextRound, ProblemCallback, PlannerCallback,
     PlanCallback, SendAction, Leave, Hear, Return, Fails, Smooth, Remember, replanVars

(* The interfaces write facts only, and while the scripts work and the     *)
(* services plan, late ones only.                                          *)
LEMMA InterfaceWrites ==
  ASSUME TypeInv, TypeInv', LocatedInv,
         \/ \E a \in Names : Hear(a)
         \/ \E c \in calls : Return(c) \/ Fails(c)
  PROVE  /\ UNCHANGED <<rounds, script, topics>>
         /\ kb'.goals = kb.goals /\ kb'.total_goals = kb.total_goals
         /\ "late" \notin history' /\ script.step \notin {"update", "cancel", "waiting", "end"}
              => UNCHANGED kb
<1>0. kb \in KnowledgeBases
  BY LocatedTypes
<1>1. \A c : Expected(c) => script.step \in {"update", "cancel", "waiting", "end"}
  BY DEF LocatedInv, NoneAhead, Expected
<1>2. \A d, a : /\ UpdateKnowledgeArray(kb, d, a).goals = kb.goals
                /\ UpdateKnowledgeArray(kb, d, a).total_goals = kb.total_goals
  BY <1>0 DEF UpdateKnowledgeArray, KnowledgeBases
<1>3. ASSUME NEW a \in Names, Hear(a)
      PROVE  UNCHANGED kb \/ \E c, d, e : /\ kb' = UpdateKnowledgeArray(kb, d, e)
                                          /\ Late(c) \subseteq history'
  <2>1. CASE Head(inbox[a]) = CancelAction
    BY <1>3, <2>1 DEF Hear
  <2>2. CASE Head(inbox[a]) # CancelAction
    BY <1>3, <2>2 DEF Hear, Remember
  <2> QED
    BY <2>1, <2>2
<1>4. ASSUME NEW b \in calls, Return(b) \/ Fails(b)
      PROVE  UNCHANGED kb \/ \E c, d, e : /\ kb' = UpdateKnowledgeArray(kb, d, e)
                                          /\ Late(c) \subseteq history'
  <2>1. CASE Fails(b)
    BY <2>1 DEF Fails
  <2>2. CASE Return(b) /\ action_cancelled[b.action.name]
    BY <2>2 DEF Return
  <2>3. CASE Return(b) /\ ~action_cancelled[b.action.name]
    <3>1. /\ kb' = UpdateKnowledgeArray(kb, EndDel(b.action), EndAdd(b.action))
          /\ Late(b) \subseteq history'
      BY <2>3 DEF Return, Remember
    <3> QED
      BY <3>1
  <2> QED
    BY <1>4, <2>1, <2>2, <2>3
<1>5. UNCHANGED kb \/ \E c, d, e : /\ kb' = UpdateKnowledgeArray(kb, d, e)
                                   /\ Late(c) \subseteq history'
  BY <1>3, <1>4
<1>6. UNCHANGED <<rounds, script, topics>>
  BY DEF Hear, Return, Fails
<1> QED
  BY <1>1, <1>2, <1>5, <1>6 DEF Late

LEMMA CountInit == ReplanInit => CountInv
<1> SUFFICES ASSUME ReplanInit PROVE CountInv
  OBVIOUS
<1>1. kb.goals = {} /\ kb.total_goals = 0 /\ script.step = "update"
  BY DEF ReplanInit, Empty, Started
<1> QED
  BY <1>1, FS_EmptySet DEF CountInv, InRound

(* Steps that leave the goals and their number, and the facts too where    *)
(* these matter.                                                           *)
LEMMA CountApart ==
  ASSUME CountInv, UNCHANGED rounds, \A h \in history : h # "fault" => h \in history',
         kb'.goals = kb.goals, kb'.total_goals = kb.total_goals,
         \/ /\ UNCHANGED script
            /\ script.step \in {"prune", "problem"} /\ "late" \notin history' => UNCHANGED kb
         \/ {script.step, script'.step} \cap {"prune", "problem"} = {}
         \/ script.step = "problem" /\ script'.step \notin {"prune", "problem"}
  PROVE  CountInv'
<1> SUFFICES ASSUME Disjoint', history' \cap {"late", "died"} = {}
             PROVE  CountInv'
  BY DEF CountInv
<1>1. Disjoint /\ history \cap {"late", "died"} = {}
  BY DEF Disjoint
<1>2. CASE script' = script /\ (script.step \in {"prune", "problem"} => UNCHANGED kb)
  BY <1>1, <1>2 DEF CountInv, InRound
<1>3. CASE \/ {script.step, script'.step} \cap {"prune", "problem"} = {}
           \/ script.step = "problem" /\ script'.step \notin {"prune", "problem"}
  BY <1>1, <1>3 DEF CountInv, InRound
<1> QED
  BY <1>2, <1>3

LEMMA CountWrites ==
  ASSUME TypeInv, PastInv, CountInv,
         CreatePddlGlobal \/ ReadGoals \/ Prune \/ WriteUpdate,
         Disjoint, history \cap {"late", "died"} = {}
  PROVE  CountInv'
<1>0. /\ kb \in KnowledgeBases /\ IsFiniteSet(kb.goals) /\ Cardinality(kb.goals) \in Nat
      /\ CurrentMission \subseteq Regions /\ IsFiniteSet(CurrentMission)
      /\ Cardinality(CurrentMission) \in Nat
  <2>1. CurrentMission \subseteq Regions /\ kb \in KnowledgeBases
    BY MissionTypes, LocatedTypes DEF TypeInv
  <2> QED
    BY <2>1, OpenTypes, FS_Subset, FS_CardinalityType, ReplanAssumption
<1>1. script \in [round : 1 .. Len(rounds), step : Steps, at : Locations, total : Int,
                  todo : SUBSET Regions]
  BY LocatedTypes
<1>2. CASE CreatePddlGlobal
  <2>1. /\ kb'.goals = CurrentMission /\ kb'.facts = {At(Base), CanGo}
        /\ kb'.total_goals = Cardinality(CurrentMission)
        /\ script'.step = "problem"
    BY <1>1, <1>2 DEF CreatePddlGlobal, Goto
  <2>2. Achieved(kb') = {}
    BY <2>1, FactsDiffer DEF Achieved
  <2> QED
    BY <2>1, <2>2 DEF CountInv, InRound
<1>3. CASE ReadGoals
  <2>1. /\ UNCHANGED kb /\ InRound("goals")
        /\ script'.step = "prune" /\ script'.total = kb.total_goals /\ script'.todo = kb.goals
    BY <1>1, <1>3 DEF ReadGoals
  <2> QED
    BY <2>1 DEF CountInv, InRound
<1>4. CASE Prune
  <2>1. PICK g \in script.todo :
          /\ kb' = IF g \in Achieved(kb) THEN RemoveMissionGoal(kb, g) ELSE kb
          /\ script' = [script EXCEPT !.todo = script.todo \ {g},
                          !.total = IF g \in Achieved(kb) THEN script.total - 1 ELSE script.total]
    BY <1>4 DEF Prune, CountLess
  <2>2. /\ InRound("prune") /\ script'.step = "prune" /\ script'.todo = script.todo \ {g}
        /\ script'.total = IF g \in Achieved(kb) THEN script.total - 1 ELSE script.total
    BY <1>1, <1>4, <2>1 DEF Prune, InRound
  <2>3. /\ script.total = Cardinality(kb.goals) /\ script.todo \subseteq kb.goals
        /\ (kb.goals \ script.todo) \cap Achieved(kb) = {}
    BY <2>2 DEF CountInv
  <2>4. CASE g \in Achieved(kb)
    <3>1. kb' = RemoveMissionGoal(kb, g) /\ kb'.goals = kb.goals \ {g}
      BY <1>0, <2>1, <2>4 DEF RemoveMissionGoal, KnowledgeBases
    <3>2. Achieved(kb') = Achieved(kb)
      BY <1>0, <3>1, AchievedAfter
    <3>3. Cardinality(kb'.goals) = Cardinality(kb.goals) - 1
      <4>1. g \in kb.goals
        BY <2>3
      <4>2. Cardinality(kb.goals \ {g}) = Cardinality(kb.goals) - 1
        BY <1>0, <4>1, FS_RemoveElement, Zenon
      <4> QED
        BY <3>1, <4>2
    <3> QED
      BY <2>2, <2>3, <2>4, <3>1, <3>2, <3>3 DEF CountInv, InRound
  <2>5. CASE g \notin Achieved(kb)
    BY <2>1, <2>2, <2>3, <2>5 DEF CountInv, InRound
  <2> QED
    BY <2>4, <2>5
<1>5. CASE WriteUpdate
  <2> DEFINE k1 == PlaceWritten(kb)
             k2 == AddMissionGoals(k1, CurrentMission)
  <2>1. /\ kb' = SetFunction(k2, script.total + Cardinality(CurrentMission))
        /\ script'.step = "problem" /\ script'.round = script.round
        /\ InRound("prune") /\ script.todo = {}
    BY <1>1, <1>5 DEF WriteUpdate, Goto, CountMore
  <2>2. k1 = AddKnowledge(kb, At(script.at)) /\ k1 \in KnowledgeBases /\ k1.goals = kb.goals
    <3>1. At(script.at) \in Facts
      BY <1>1 DEF Facts
    <3> QED
      BY <1>0, <3>1 DEF PlaceWritten, AddKnowledge, KnowledgeBases
  <2>3. k2 \in KnowledgeBases /\ k2.goals = kb.goals \cup CurrentMission
    <3> HIDE DEF k1
    <3> QED
      BY <1>0, <2>2 DEF AddMissionGoals, KnowledgeBases
  <2>4. Achieved(k2) = Achieved(kb)
    <3>1. Achieved(k1) = Achieved(kb)
      BY <1>0, <2>2, AchievedAfter
    <3> HIDE DEF k1
    <3> QED
      BY <2>2, <3>1, AchievedAfter
  <2> HIDE DEF k2
  <2>5. /\ kb'.goals = kb.goals \cup CurrentMission
        /\ kb'.total_goals = script.total + Cardinality(CurrentMission)
        /\ Achieved(kb') = Achieved(kb)
    BY <2>1, <2>3, <2>4, AchievedAfter DEF SetFunction, KnowledgeBases
  <2>6. CurrentMission \cap Known(kb) = {}
    <3>1. ASSUME NEW r \in CurrentMission, r \in Past PROVE FALSE
      <4>1. PICK j \in 1 .. Len(rounds) : r \in rounds[j].regions /\ j < script.round
        BY <2>1, <3>1 DEF Past, Updating, InRound
      <4> QED
        BY <1>1, <3>1, <4>1 DEF Disjoint, CurrentMission
    <3> QED
      BY <3>1 DEF PastInv
  <2>7. script.total = Cardinality(kb.goals) /\ kb.goals \cap Achieved(kb) = {}
    BY <2>1 DEF CountInv
  <2>8. Cardinality(kb.goals \cup CurrentMission) = Cardinality(kb.goals) + Cardinality(CurrentMission)
    <3>1. kb.goals \cap CurrentMission = {}
      BY <2>6 DEF Known
    <3>2. Cardinality(kb.goals \cap CurrentMission) = 0
      BY <3>1, FS_EmptySet
    <3>3. Cardinality(kb.goals \cup CurrentMission)
            = Cardinality(kb.goals) + Cardinality(CurrentMission) - Cardinality(kb.goals \cap CurrentMission)
      BY <1>0, FS_Union
    <3> QED
      BY <1>0, <3>2, <3>3
  <2> QED
    BY <2>1, <2>5, <2>6, <2>7, <2>8 DEF CountInv, InRound, Known
<1> QED
  BY <1>2, <1>3, <1>4, <1>5

LEMMA CountStays ==
  TypeInv /\ TypeInv' /\ LocatedInv /\ PastInv /\ CountInv /\ [ReplanNext]_replanVars => CountInv'
<1> SUFFICES ASSUME TypeInv, TypeInv', LocatedInv, PastInv, CountInv, [ReplanNext]_replanVars
             PROVE  CountInv'
  OBVIOUS
<1>0. /\ \A h \in history : h # "fault" => h \in history'
      /\ UNCHANGED rounds
      /\ kb \in KnowledgeBases
  BY HistoryStays, ScriptMoves, LocatedTypes
<1>00. ASSUME NEW step, Goto(step) PROVE script'.step = step
  BY <1>00, LocatedTypes DEF Goto
<1>1. CASE CreatePddlGlobal \/ ReadGoals \/ Prune \/ WriteUpdate
  <2>1. CASE Disjoint /\ history \cap {"late", "died"} = {}
    BY <1>1, <2>1, CountWrites
  <2>2. CASE ~(Disjoint /\ history \cap {"late", "died"} = {})
    BY <1>0, <2>2 DEF CountInv, Disjoint
  <2> QED
    BY <2>1, <2>2
<1>2. CASE ReadPlace
  <2>1. CASE Ats(kb) = {}
    BY <1>2, <2>1 DEF ReadPlace, Remember, CountInv
  <2>2. CASE Ats(kb) # {}
    <3>1. UNCHANGED kb /\ script.step = "place" /\ script'.step = "goals"
      BY <1>2, <2>2, LocatedTypes DEF ReadPlace, InRound
    <3> QED
      BY <1>0, <3>1, CountApart
  <2> QED
    BY <2>1, <2>2
<1>3. CASE StopMove
  <2>1. kb'.goals = kb.goals /\ kb'.total_goals = kb.total_goals
    BY <1>0, <1>3 DEF StopMove, MoveOver, RemoveKnowledge, KnowledgeBases
  <2>2. script.step = "stop" /\ script'.step = "goals"
    BY <1>3, LocatedTypes DEF StopMove, InRound
  <2> QED
    BY <1>0, <2>1, <2>2, CountApart
<1>4. CASE WaitToStop \/ CancelDispatch \/ LookForMove \/ ProblemServer \/ PlanningServer
             \/ ParsePlan \/ DispatchPlan \/ NextRound
  <2>1. UNCHANGED kb
    BY <1>4 DEF WaitToStop, CancelDispatch, LookForMove, ProblemServer, PlanningServer,
       ParsePlan, DispatchPlan, NextRound
  <2>2. \/ {script.step, script'.step} \cap {"prune", "problem"} = {}
        \/ script.step = "problem" /\ script'.step \notin {"prune", "problem"}
    BY <1>4, <1>00 DEF WaitToStop, CancelDispatch, LookForMove, ProblemServer, PlanningServer,
       ParsePlan, DispatchPlan, NextRound, InRound, Started
  <2> QED
    BY <1>0, <2>1, <2>2, CountApart
<1>5. CASE ProblemCallback \/ PlannerCallback \/ PlanCallback \/ SendAction \/ Leave
             \/ UNCHANGED replanVars
  <2>1. UNCHANGED <<script, kb>>
    BY <1>5 DEF ProblemCallback, PlannerCallback, PlanCallback, SendAction, Leave, replanVars
  <2> QED
    BY <1>0, <2>1, CountApart
<1>6. CASE (\E a \in Names : Hear(a)) \/ (\E c \in calls : Return(c) \/ Fails(c))
  <2>1. /\ UNCHANGED script /\ kb'.goals = kb.goals /\ kb'.total_goals = kb.total_goals
        /\ script.step \in {"prune", "problem"} /\ "late" \notin history' => UNCHANGED kb
    BY <1>6, InterfaceWrites
  <2> QED
    BY <1>0, <2>1, CountApart
<1> QED
  BY <1>1, <1>2, <1>3, <1>4, <1>5, <1>6 DEF ReplanNext, ScriptStep

(* What ReplanningProofs shows of the rounds of messages and of where the  *)
(* vehicle is, as one invariant.                                           *)
THEOREM LocatedInvariance == ReplanSpec => [](FreshInv /\ LocatedInv)
  BY LocatedInit, LocatedStays, FreshInit, FreshStays, TypeInvariance, PTL DEF ReplanSpec

(* The count of update.py is right after each of its calls, for any        *)
(* regions, missions and faults.                                           *)
THEOREM CountInvariance == ReplanSpec => []CountInv
  BY CountInit, CountStays, LocatedInvariance, PastInvariance, TypeInvariance, PTL DEF ReplanSpec

(* CountsOpenGoals for any regions, missions and faults: when a problem is *)
(* generated, total-goals is the number of goals not yet sprayed           *)
(* (update.py counts down what was reached and up what is new).            *)
THEOREM CountsOpenGoalsCorrect == ReplanSpec => []CountsOpenGoals
<1>1. CountInv => CountsOpenGoals
  <2> SUFFICES ASSUME CountInv, InRound("problem"), Disjoint, history \cap {"late", "died"} = {}
               PROVE  kb.total_goals = Cardinality(OpenGoals(kb))
    BY DEF CountsOpenGoals
  <2>1. kb.total_goals = Cardinality(kb.goals) /\ kb.goals \cap Achieved(kb) = {}
    BY DEF CountInv, InRound
  <2>2. OpenGoals(kb) = kb.goals
    BY <2>1 DEF OpenGoals
  <2> QED
    BY <2>1, <2>2
<1> QED
  BY <1>1, CountInvariance, PTL

-----------------------------------------------------------------------------
(* Planning again.  Unless an action was cut short, a call of a spraying   *)
(* or of the flight home that is under way is the one that the dispatcher  *)
(* waits for.  It is not cancelled, and gives can-go back when it returns. *)

Begun == ~(script.round = 1 /\ InRound("update"))

NotCut ==
  /\ \A c \in UnderWay : c.action.name \notin Resumable => Expected(c)
  /\ \A a \in Names \ Resumable :
       ~action_cancelled[a] /\ \A i \in 1 .. Len(inbox[a]) : inbox[a][i] # CancelAction

FlightInv ==
  history \cap {"late", "cut", "died"} = {} =>
    /\ NotCut
    /\ Begun => CanGo \in kb.facts \/ \E c \in calls : IsSpray(c.action)
    /\ InRound("problem") => Ats(kb) # {}

LEMMA FlightInit == ReplanInit => FlightInv
<1> SUFFICES ASSUME ReplanInit PROVE FlightInv
  OBVIOUS
<1>1. ~Begun /\ ~InRound("problem")
  BY DEF ReplanInit, Started, Begun, InRound
<1>2. UnderWay = {}
  <2>1. calls = {} /\ inbox \in [Names -> Seq(Calls \cup {CancelAction})]
        /\ \A a \in Names : Len(inbox[a]) = 0
    BY DEF ReplanInit
  <2>2. UnderWay = CallsIn(calls, inbox)
    BY DEF UnderWay, CallsIn
  <2> QED
    BY <2>1, <2>2, Gathered
<1>3. \A a \in Names : ~action_cancelled[a] /\ Len(inbox[a]) = 0
  BY DEF ReplanInit
<1> QED
  BY <1>1, <1>2, <1>3 DEF FlightInv, NotCut

(* Steps that neither the interfaces nor the dispatcher take.              *)
LEMMA FlightApart ==
  ASSUME FlightInv, UNCHANGED <<calls, inbox, action_cancelled>>,
         \A h \in history : h # "fault" => h \in history',
         \/ \A c \in UnderWay : Expected(c)' <=> Expected(c)
         \/ "cut" \notin history' => \A c \in UnderWay : c.action.name \in Resumable,
         CanGo \in kb.facts => CanGo \in kb'.facts,
         Begun' => Begun \/ CanGo \in kb'.facts,
         "died" \notin history' /\ InRound("problem")'
           => Ats(kb') # {} \/ (InRound("problem") /\ UNCHANGED kb)
  PROVE  FlightInv'
<1> SUFFICES ASSUME history' \cap {"late", "cut", "died"} = {} PROVE FlightInv'
  BY DEF FlightInv
<1>1. history \cap {"late", "cut", "died"} = {}
  OBVIOUS
<1>2. UnderWay' = UnderWay
  BY DEF UnderWay
<1>3. NotCut'
  BY <1>1, <1>2 DEF FlightInv, NotCut
<1>4. Begun' => CanGo \in kb'.facts \/ \E c \in calls' : IsSpray(c.action)
  BY <1>1 DEF FlightInv
<1>5. InRound("problem")' => Ats(kb') # {}
  BY <1>1 DEF FlightInv
<1> QED
  BY <1>3, <1>4, <1>5 DEF FlightInv

LEMMA FlightUpdates ==
  ASSUME TypeInv, FlightInv,
         \A h \in history : h # "fault" => h \in history',
         \/ CreatePddlGlobal \/ WaitToStop \/ LookForMove \/ StopMove \/ ReadPlace
         \/ ReadGoals \/ Prune \/ WriteUpdate
  PROVE  FlightInv'
<1>0. /\ UNCHANGED <<calls, inbox, action_cancelled, dispatcher>>
      /\ kb \in KnowledgeBases
  BY LocatedTypes DEF CreatePddlGlobal, WaitToStop, LookForMove, StopMove, ReadPlace, ReadGoals, Prune,
     WriteUpdate, interfaces
<1>1. \A c : Expected(c)' <=> Expected(c)
  BY <1>0 DEF Expected
<1>00. ASSUME NEW step, Goto(step) PROVE script'.step = step
  BY <1>00, LocatedTypes DEF Goto
<1>2. CASE CreatePddlGlobal
  <2>1. kb'.facts = {At(Base), CanGo}
    BY <1>2 DEF CreatePddlGlobal
  <2>2. Base \in Ats(kb') /\ CanGo \in kb'.facts
    BY <2>1 DEF Ats, Locations
  <2> QED
    BY <1>0, <1>1, <2>2, FlightApart
<1>3. CASE WaitToStop \/ LookForMove \/ ReadGoals
  <2>1. UNCHANGED kb /\ Begun
    BY <1>3 DEF WaitToStop, LookForMove, ReadGoals, Begun, InRound
  <2>2. script'.step \in {"cancel", "stop", "place", "prune"}
    <3>1. CASE WaitToStop
      BY <1>00, <3>1 DEF WaitToStop
    <3>2. CASE LookForMove
      BY <1>00, <3>2 DEF LookForMove
    <3>3. CASE ReadGoals
      BY <3>3, LocatedTypes DEF ReadGoals
    <3> QED
      BY <1>3, <3>1, <3>2, <3>3
  <2> QED
    BY <1>0, <1>1, <2>1, <2>2, FlightApart DEF InRound
<1>4. CASE StopMove
  <2>1. Begun /\ ~InRound("problem")'
    BY <1>4, LocatedTypes DEF StopMove, Begun, InRound
  <2>2. CanGo \in kb.facts => CanGo \in kb'.facts
    BY <1>0, <1>4, FactsDiffer DEF StopMove, MoveOver, RemoveKnowledge, KnowledgeBases
  <2> QED
    BY <1>0, <1>1, <2>1, <2>2, FlightApart
<1>5. CASE ReadPlace
  <2>1. UNCHANGED kb /\ Begun
    BY <1>5 DEF ReadPlace, Begun, InRound
  <2>2. "died" \notin history' => ~InRound("problem")'
    BY <1>5, LocatedTypes DEF ReadPlace, InRound, Remember
  <2> QED
    BY <1>0, <1>1, <2>1, <2>2, FlightApart
<1>6. CASE Prune
  <2>1. Begun /\ ~InRound("problem")'
    BY <1>6, LocatedTypes DEF Prune, Begun, InRound
  <2>2. kb'.facts = kb.facts
    BY <1>0, <1>6 DEF Prune, RemoveMissionGoal, KnowledgeBases
  <2> QED
    BY <1>0, <1>1, <2>1, <2>2, FlightApart
<1>7. CASE WriteUpdate
  <2>1. Begun
    BY <1>7 DEF WriteUpdate, Begun, InRound
  <2>2. kb'.facts = kb.facts \cup {At(script.at)}
    BY <1>0, <1>7 DEF WriteUpdate, PlaceWritten, AddKnowledge, AddMissionGoals, SetFunction,
       KnowledgeBases
  <2>3. script.at \in Ats(kb')
    BY <2>2, LocatedTypes DEF Ats
  <2> QED
    BY <1>0, <1>1, <2>1, <2>2, <2>3, FlightApart
<1> QED
  BY <1>2, <1>3, <1>4, <1>5, <1>6, <1>7

LEMMA FlightServices ==
  ASSUME TypeInv, FlightInv,
         \A h \in history : h # "fault" => h \in history',
         \/ ProblemServer \/ PlanningServer \/ ParsePlan \/ NextRound
         \/ ProblemCallback \/ PlannerCallback \/ PlanCallback \/ CancelDispatch \/ DispatchPlan
  PROVE  FlightInv'
<1>0. UNCHANGED <<kb, calls, inbox, action_cancelled>>
  BY DEF ProblemServer, PlanningServer, ParsePlan, NextRound, ProblemCallback, PlannerCallback,
     PlanCallback, CancelDispatch, DispatchPlan, interfaces
<1>1. \/ InRound("problem")' => InRound("problem")
  BY LocatedTypes DEF ProblemServer, PlanningServer, ParsePlan, NextRound, ProblemCallback,
     PlannerCallback, PlanCallback, CancelDispatch, DispatchPlan, InRound, Goto, Started
<1>2. Begun' => Begun
  BY LocatedTypes DEF ProblemServer, PlanningServer, ParsePlan, NextRound, ProblemCallback,
     PlannerCallback, PlanCallback, CancelDispatch, DispatchPlan, InRound, Goto, Begun
<1>3. CASE ProblemServer \/ PlanningServer \/ ParsePlan \/ NextRound \/ ProblemCallback \/ PlannerCallback
  <2>1. \A c : Expected(c)' <=> Expected(c)
    BY <1>3 DEF ProblemServer, PlanningServer, ParsePlan, NextRound, ProblemCallback,
       PlannerCallback, Expected
  <2> QED
    BY <1>0, <1>1, <1>2, <2>1, FlightApart
<1>4. CASE PlanCallback
  <2>1. \A c : Expected(c)' <=> Expected(c)
    BY <1>4, LocatedTypes DEF PlanCallback, Expected, Dispatchers
  <2> QED
    BY <1>0, <1>1, <1>2, <2>1, FlightApart
<1>5. CASE CancelDispatch
  <2>1. "cut" \notin history' => \A c \in UnderWay : c.action.name \in Resumable
    BY <1>5 DEF CancelDispatch, Remember, Cut
  <2> QED
    BY <1>0, <1>1, <1>2, <2>1, FlightApart
<1>6. CASE DispatchPlan
  <2>1. CASE dispatcher.busy
    <3>1. \A c : Expected(c)' <=> Expected(c)
      BY <1>6, <2>1 DEF DispatchPlan, Expected
    <3> QED
      BY <1>0, <1>1, <1>2, <3>1, FlightApart
  <2>2. CASE ~dispatcher.busy
    <3>1. \A c : ~Expected(c)
      BY <2>2 DEF Expected
    <3>2. CASE history' \cap {"late", "cut", "died"} = {}
      <4>1. \A c \in UnderWay : c.action.name \in Resumable
        BY <3>1, <3>2 DEF FlightInv, NotCut
      <4> QED
        BY <1>0, <1>1, <1>2, <4>1, FlightApart
    <3>3. CASE history' \cap {"late", "cut", "died"} # {}
      BY <3>3 DEF FlightInv
    <3> QED
      BY <3>2, <3>3
  <2> QED
    BY <2>1, <2>2
<1> QED
  BY <1>3, <1>4, <1>5, <1>6

LEMMA FlightSends ==
  ASSUME TypeInv, TypeInv', FlightInv, SendAction
  PROVE  FlightInv'
<1> SUFFICES ASSUME history' \cap {"late", "cut", "died"} = {} PROVE FlightInv'
  BY DEF FlightInv
<1>0. UNCHANGED <<script, kb, calls, action_cancelled, history>>
  BY DEF SendAction
<1>1. NotCut
  BY <1>0 DEF FlightInv
<1>2. \A c : Expected(c)' <=> Expected(c)
  BY LocatedTypes DEF SendAction, Expected, Dispatchers
<1>3. UnderWay' \subseteq UnderWay \cup {Current} /\ Expected(Current)
  <2>1. [ReplanNext]_replanVars
    BY DEF ReplanNext
  <2>2. Expected(Current)
    BY DEF SendAction, Running, Expected, Current
  <2> QED
    BY <2>1, <2>2, UnderWayStays
<1>4. /\ NextAction \in Actions /\ Current \in Calls
  <2>1. NextAction \in Actions
    BY LocatedTypes, ElementOfSeq DEF SendAction, Running, NextAction, Dispatchers, Messages
  <2> QED
    BY <2>1, LocatedTypes DEF Current, Calls, Dispatchers
<1>5. ASSUME NEW a \in Names \ Resumable, NEW i \in 1 .. Len(inbox'[a])
      PROVE  inbox'[a][i] # CancelAction
  <2>1. inbox' = [inbox EXCEPT ![NextAction.name] = Append(@, Current)]
    BY DEF SendAction, Current
  <2>2. inbox'[a] = inbox[a] \/ inbox'[a] = Append(inbox[a], Current)
    BY <1>4, <2>1, LocatedTypes DEF Actions
  <2>3. inbox[a] \in Seq(Calls \cup {CancelAction}) /\ Current # CancelAction
    BY <1>4, LocatedTypes
  <2>4. \A j \in 1 .. Len(inbox[a]) : inbox[a][j] # CancelAction
    BY <1>1 DEF NotCut
  <2> QED
    BY <1>5, <2>2, <2>3, <2>4
<1>6. NotCut'
  BY <1>0, <1>1, <1>2, <1>3, <1>5 DEF NotCut
<1> QED
  BY <1>0, <1>6 DEF FlightInv, Begun, InRound

LEMMA FlightLeaves ==
  ASSUME TypeInv, TypeInv', LocatedInv, FlightInv, Leave
  PROVE  FlightInv'
<1> SUFFICES ASSUME history' \cap {"late", "cut", "died"} = {} PROVE FlightInv'
  BY DEF FlightInv
<1>0. UNCHANGED <<script, kb, calls, action_cancelled, history>>
  BY DEF Leave
<1>1. NotCut /\ OneUnheard /\ OneHeard
  BY <1>0 DEF FlightInv, LocatedInv
<1>2. ASSUME NEW c \in UnderWay, Expected(c) PROVE FALSE
  <2>1. ~Running
    BY <1>2 DEF Leave, Expected
  <2>2. c \in Calls
    BY UnderWayIs
  <2>3. c \in calls \/ \E a \in Names : \E i \in 1 .. Len(inbox[a]) : inbox[a][i] = c /\ Queued(a, i)
    BY <1>2, <2>2, UnderWayIs DEF Queued
  <2> QED
    BY <1>1, <1>2, <2>1, <2>3 DEF OneUnheard, OneHeard, Pending
<1>3. \A c \in UnderWay : c.action.name \in Resumable
  BY <1>1, <1>2 DEF NotCut
<1>4. \A a \in Names \ Resumable : inbox'[a] = inbox[a]
  BY <1>3 DEF Leave
<1>5. UnderWay' \subseteq UnderWay
  <2>1. [ReplanNext]_replanVars /\ ~SendAction
    BY DEF ReplanNext, Leave, SendAction, Running
  <2> QED
    BY <2>1, UnderWayStays
<1>6. NotCut'
  BY <1>0, <1>1, <1>3, <1>4, <1>5 DEF NotCut
<1> QED
  BY <1>0, <1>6 DEF FlightInv, Begun, InRound

LEMMA FlightHears ==
  ASSUME TypeInv, TypeInv', LocatedInv, FlightInv, NEW a \in Names, Hear(a)
  PROVE  FlightInv'
<1> SUFFICES ASSUME history' \cap {"late", "cut", "died"} = {} PROVE FlightInv'
  BY DEF FlightInv
<1> DEFINE c == inbox[a][1]
<1>0. /\ UNCHANGED <<script, dispatcher>> /\ kb \in KnowledgeBases
      /\ action_cancelled \in [Names -> BOOLEAN]
      /\ c \in Calls \cup {CancelAction} /\ Head(inbox[a]) = c /\ 1 \in 1 .. Len(inbox[a])
  <2>1. inbox[a] \in Seq(Calls \cup {CancelAction}) /\ 1 \in 1 .. Len(inbox[a])
    BY LocatedTypes, Heard
  <2>2. c \in Calls \cup {CancelAction}
    BY <2>1, ElementOfSeq
  <2> QED
    BY <2>1, <2>2, LocatedTypes, Heard DEF Hear, TypeInv, ReplanTypeOK
<1>1. /\ NotCut
      /\ Begun => CanGo \in kb.facts \/ \E d \in calls : IsSpray(d.action)
      /\ InRound("problem") => Ats(kb) # {}
  <2>1. history \cap {"late", "cut", "died"} = {}
    BY HistoryStays DEF ReplanNext
  <2> QED
    BY <2>1 DEF FlightInv
<1>2. UnderWay' \subseteq UnderWay
  BY UnderWayStays DEF ReplanNext
<1>3. ASSUME NEW b \in Names \ Resumable
      PROVE  \A i \in 1 .. Len(inbox'[b]) : inbox'[b][i] # CancelAction
  BY <1>1, Heard DEF NotCut
<1>4. \A d : Expected(d)' <=> Expected(d)
  BY <1>0 DEF Expected
<1>5. InRound("problem")' => Ats(kb') # {}
  BY <1>0, <1>1, InterfaceWrites DEF InRound
<1>6. CASE c = CancelAction
  <2>1. /\ action_cancelled' = [action_cancelled EXCEPT ![a] = TRUE]
        /\ UNCHANGED <<kb, calls>>
    BY <1>0, <1>6 DEF Hear
  <2>2. a \in Resumable
    BY <1>0, <1>1, <1>6 DEF NotCut
  <2>3. NotCut'
    BY <1>0, <1>1, <1>2, <1>3, <1>4, <2>1, <2>2 DEF NotCut
  <2> QED
    BY <1>0, <1>1, <1>5, <2>1, <2>3 DEF FlightInv, Begun, InRound
<1>7. CASE c # CancelAction
  <2>1. /\ action_cancelled' = [action_cancelled EXCEPT ![a] = FALSE]
        /\ kb' = UpdateKnowledgeArray(kb, StartDel(c.action), StartAdd(c.action))
        /\ calls' = calls \cup {c} /\ c.action \in Actions
    BY <1>0, <1>7 DEF Hear, Calls
  <2>2. NotCut'
    BY <1>0, <1>1, <1>2, <1>3, <1>4, <2>1 DEF NotCut
  <2>3. kb'.facts = (kb.facts \ StartDel(c.action)) \cup StartAdd(c.action)
    BY <1>0, <2>1 DEF UpdateKnowledgeArray, KnowledgeBases
  <2>4. ~IsSpray(c.action) => CanGo \notin StartDel(c.action)
    BY <2>1, Effects, FactsDiffer DEF IsSpray
  <2>5. Begun' => CanGo \in kb'.facts \/ \E d \in calls' : IsSpray(d.action)
    <3> HIDE DEF c
    <3>1. c \in calls' /\ calls \subseteq calls'
      BY <2>1
    <3>2. Begun' <=> Begun
      BY <1>0 DEF Begun, InRound
    <3> QED
      BY <1>1, <2>3, <2>4, <3>1, <3>2
  <2> QED
    BY <1>5, <2>2, <2>5 DEF FlightInv
<1> QED
  BY <1>6, <1>7

LEMMA FlightReturns ==
  ASSUME TypeInv, TypeInv', LocatedInv, FlightInv, NEW c \in calls, Return(c) \/ Fails(c)
  PROVE  FlightInv'
<1> SUFFICES ASSUME history' \cap {"late", "cut", "died"} = {} PROVE FlightInv'
  BY DEF FlightInv
<1>0. /\ UNCHANGED <<script, inbox, action_cancelled>> /\ calls' = calls \ {c}
      /\ kb \in KnowledgeBases /\ c.action \in Actions /\ c \in UnderWay
  BY LocatedTypes, UnderWayIs DEF Return, Fails
<1>1. /\ NotCut
      /\ Begun => CanGo \in kb.facts \/ \E d \in calls : IsSpray(d.action)
      /\ InRound("problem") => Ats(kb) # {}
  <2>1. history \cap {"late", "cut", "died"} = {}
    BY HistoryStays DEF ReplanNext
  <2> QED
    BY <2>1 DEF FlightInv
<1>2. UnderWay' \subseteq UnderWay
  BY UnderWayStays DEF ReplanNext
<1>3. InRound("problem")' => Ats(kb') # {}
  BY <1>0, <1>1, InterfaceWrites DEF InRound
<1>4. CASE Return(c)
  <2>1. \A d : Expected(d)' <=> Expected(d)
    BY <1>4, LocatedTypes DEF Return, Expected, Dispatchers
  <2>2. NotCut'
    BY <1>0, <1>1, <1>2, <2>1 DEF NotCut
  <2>3. Begun' => CanGo \in kb'.facts \/ \E d \in calls' : IsSpray(d.action)
    <3>1. Begun' <=> Begun
      BY <1>0 DEF Begun, InRound
    <3>2. CASE action_cancelled[c.action.name]
      <4>1. UNCHANGED kb
        BY <1>4, <3>2 DEF Return
      <4>2. ~IsSpray(c.action)
        BY <1>0, <1>1, <3>2 DEF NotCut, IsSpray, Resumable, Actions
      <4> QED
        BY <1>0, <1>1, <3>1, <4>1, <4>2
    <3>3. CASE ~action_cancelled[c.action.name]
      <4>1. kb' = UpdateKnowledgeArray(kb, EndDel(c.action), EndAdd(c.action))
        BY <1>4, <3>3 DEF Return
      <4>2. kb'.facts = (kb.facts \ EndDel(c.action)) \cup EndAdd(c.action)
        BY <1>0, <4>1 DEF UpdateKnowledgeArray, KnowledgeBases
      <4>3. CanGo \notin EndDel(c.action) /\ (IsSpray(c.action) => CanGo \in EndAdd(c.action))
        BY <1>0, Effects, FactsDiffer DEF IsSpray
      <4> QED
        BY <1>0, <1>1, <3>1, <4>2, <4>3
    <3> QED
      BY <3>2, <3>3
  <2> QED
    BY <1>3, <2>2, <2>3 DEF FlightInv
<1>5. CASE Fails(c)
  <2>1. UNCHANGED kb
    BY <1>5 DEF Fails
  <2>2. ~IsSpray(c.action)
    BY <1>0, <1>5 DEF Fails, Remember, Cut, IsSpray, Resumable
  <2>3. Begun' => CanGo \in kb'.facts \/ \E d \in calls' : IsSpray(d.action)
    BY <1>0, <1>1, <2>1, <2>2 DEF Begun, InRound
  <2>4. NotCut'
    <3>1. CASE c.action.name \in Resumable /\ ~Completes(c)
      <4>1. \A d : Expected(d)' <=> Expected(d)
        BY <1>5, <3>1 DEF Fails, Expected
      <4> QED
        BY <1>0, <1>1, <1>2, <4>1 DEF NotCut
    <3>2. CASE ~(c.action.name \in Resumable /\ ~Completes(c))
      <4>1. \A d \in UnderWay : d.action.name \in Resumable
        BY <1>5, <3>2 DEF Fails, Remember, Cut
      <4> QED
        BY <1>0, <1>1, <1>2, <4>1 DEF NotCut
    <3> QED
      BY <3>1, <3>2
  <2> QED
    BY <1>3, <2>3, <2>4 DEF FlightInv
<1> QED
  BY <1>4, <1>5

LEMMA FlightStays ==
  TypeInv /\ TypeInv' /\ LocatedInv /\ FlightInv /\ [ReplanNext]_replanVars => FlightInv'
<1> SUFFICES ASSUME TypeInv, TypeInv', LocatedInv, FlightInv, [ReplanNext]_replanVars
             PROVE  FlightInv'
  OBVIOUS
<1>0. \A h \in history : h # "fault" => h \in history'
  BY HistoryStays
<1>1. CASE UNCHANGED replanVars
  <2>1. /\ UNCHANGED <<script, kb, calls, inbox, action_cancelled, history>>
        /\ \A c : Expected(c)' <=> Expected(c)
    BY <1>1 DEF replanVars, interfaces, Expected
  <2> QED
    BY <1>0, <2>1, FlightApart DEF Begun, InRound
<1>2. CASE ReplanNext
  BY <1>0, <1>2, FlightUpdates, FlightServices, FlightSends, FlightLeaves, FlightHears,
     FlightReturns DEF ReplanNext, ScriptStep
<1> QED
  BY <1>1, <1>2

(* Unless an action was cut short, can-go is lost only while a call that   *)
(* brings it back is under way, and there is a place to plan from.         *)
THEOREM FlightInvariance == ReplanSpec => []FlightInv
  BY FlightInit, FlightStays, LocatedInvariance, TypeInvariance, PTL DEF ReplanSpec

(* Replannable for any regions, missions and faults: a mission that was    *)
(* stopped on a flight can be planned again.                               *)
THEOREM ReplannableCorrect == ReplanSpec => []Replannable
<1>1. TypeInv /\ LocatedInv /\ FlightInv => Replannable
  <2> SUFFICES ASSUME TypeInv, LocatedInv, FlightInv, InRound("problem"),
                      history \cap {"late", "died", "cut"} = {}
               PROVE  Solutions([round |-> script.round, kb |-> kb]) # {}
    BY DEF Replannable
  <2>1. NotCut /\ Ats(kb) # {} /\ (CanGo \in kb.facts \/ \E c \in calls : IsSpray(c.action))
    <3>1. Begun
      BY DEF Begun, InRound
    <3> QED
      BY <3>1 DEF FlightInv
  <2>2. \A c : ~Expected(c)
    BY DEF LocatedInv, NoneAhead, Expected, InRound
  <2>3. \A c \in calls : ~IsSpray(c.action)
    BY <2>1, <2>2 DEF NotCut, UnderWay, IsSpray, Resumable
  <2> DEFINE p == [round |-> script.round, kb |-> kb]
  <2>4. p \in Problems /\ p.kb = kb
    BY LocatedTypes DEF Problems
  <2> HIDE DEF p
  <2>5. Solutions(p) # {}
    BY <2>1, <2>3, <2>4, SolutionExists
  <2> QED
    BY <2>5 DEF p
<1> QED
  BY <1>1, FlightInvariance, LocatedInvariance, TypeInvariance, PTL

-----------------------------------------------------------------------------
(* Spraying once.  A problem or a plan of the round is there only once it  *)
(* is generated, so what the services hold of the round then was made of   *)
(* the knowledge base as it still is.                                      *)

RoundsInv ==
  \A m \in ProblemsAt \cup PlansAt :
    m.round <= script.round /\ (m.round = script.round => script.step \in Generated)

LEMMA RoundsInit == ReplanInit => RoundsInv
<1> SUFFICES ASSUME ReplanInit PROVE RoundsInv
  OBVIOUS
<1>1. ProblemsAt = {} /\ script.round = 1
  BY DEF ReplanInit, ProblemsAt, Started
<1>2. \A m \in PlansAt : m.round = 0
  BY DEF ReplanInit, PlansAt, Idle, NoPlan
<1> QED
  BY <1>1, <1>2 DEF RoundsInv

LEMMA RoundsStay == TypeInv /\ TypeInv' /\ RoundsInv /\ [ReplanNext]_replanVars => RoundsInv'
<1> SUFFICES ASSUME TypeInv, TypeInv', RoundsInv, [ReplanNext]_replanVars,
                    NEW m \in ProblemsAt' \cup PlansAt'
             PROVE  m.round <= script'.round /\ (m.round = script'.round => script'.step \in Generated)
  BY DEF RoundsInv
<1>0. script \in [round : 1 .. Len(rounds), step : Steps, at : Locations, total : Int,
                  todo : SUBSET Regions] /\ script.round \in Nat
  BY LocatedTypes
<1>00. ASSUME NEW step, Goto(step)
       PROVE  script'.round = script.round /\ script'.step = step
  BY <1>0, <1>00 DEF Goto
<1>1. CASE m \in ProblemsAt \cup PlansAt
  <2>1. m.round \in Nat
    BY <1>1, AtHandTypes DEF Problems, Messages
  <2>2. m.round <= script.round /\ (m.round = script.round => script.step \in Generated)
    BY <1>1 DEF RoundsInv
  <2>3. CASE script' = Started(script.round + 1)
    BY <1>0, <2>1, <2>2, <2>3 DEF Started
  <2> QED
    BY <2>2, <2>3, ScriptMoves
<1>2. CASE ProblemServer /\ m = [round |-> script.round, kb |-> kb]
  BY <1>0, <1>00, <1>2 DEF ProblemServer, Generated
<1>3. CASE /\ PlanningServer /\ problem \in ProblemsAt
           /\ \E a \in Solutions(problem) : m = [round |-> problem.round, actions |-> a]
  <2>1. m.round = problem.round /\ problem.round <= script.round
    BY <1>3 DEF RoundsInv
  <2> QED
    BY <1>00, <1>3, <2>1 DEF PlanningServer, Generated
<1> QED
  BY <1>1, <1>2, <1>3, ProblemsFrom, PlansFrom

(* No problem or plan is of a later round, and one of the round itself is  *)
(* there only after its problem was generated.                             *)
THEOREM RoundsInvariance == ReplanSpec => []RoundsInv
  BY RoundsInit, RoundsStay, TypeInvariance, PTL DEF ReplanSpec

(* A problem or a plan that still fits the knowledge base, and a dispatch  *)
(* that still does.                                                        *)
Ready(p) ==
  /\ p.kb.total_goals = Cardinality(OpenGoals(p.kb))
  /\ OpenGoals(p.kb) \cap Achieved(kb) = {}

Fitting(m) == SpraysOnce(m.actions) /\ Sprays(m.actions) \cap Achieved(kb) = {}

FittingAhead ==
  /\ SpraysOnce(dispatcher.plan.actions)
  /\ \A i \in Sprayed(dispatcher.plan.actions) :
       i >= dispatcher.next => dispatcher.plan.actions[i].to \notin Achieved(kb)

Serving == {"planning", "parse", "dispatch"}

SprayInv ==
  Disjoint /\ history \cap {"late", "cut", "died", "stale"} = {} =>
    /\ script.step \in Serving =>
         /\ \A p \in ProblemsAt : p.round = script.round => Ready(p)
         /\ \A m \in PlansAt : m.round = script.round => Fitting(m)
    /\ dispatcher.busy /\ ~dispatcher.cancelled => FittingAhead
    /\ "twice" \notin history

LEMMA SprayInit == ReplanInit => SprayInv
  BY DEF ReplanInit, Started, Idle, SprayInv, Serving

(* Only a call that returns makes a region sprayed.                        *)
LEMMA AchievedFrom ==
  ASSUME TypeInv, TypeInv', [ReplanNext]_replanVars
  PROVE  \/ Achieved(kb') \subseteq Achieved(kb)
         \/ \E c \in calls : Return(c) /\ ~action_cancelled[c.action.name]
<1>0. kb \in KnowledgeBases
  BY LocatedTypes
<1>1. CASE CreatePddlGlobal
  <2>1. kb'.facts = {At(Base), CanGo}
    BY <1>1 DEF CreatePddlGlobal
  <2> QED
    BY <2>1, FactsDiffer DEF Achieved
<1>2. CASE StopMove
  BY <1>0, <1>2, AchievedAfter DEF StopMove, MoveOver
<1>3. CASE Prune
  <2>1. PICK g \in script.todo : kb' = kb \/ kb' = RemoveMissionGoal(kb, g)
    BY <1>3 DEF Prune
  <2> QED
    BY <1>0, <2>1, AchievedAfter
<1>4. CASE WriteUpdate
  <2>1. kb'.facts = kb.facts \cup {At(script.at)}
    BY <1>0, <1>4 DEF WriteUpdate, PlaceWritten, AddKnowledge, AddMissionGoals, SetFunction,
       KnowledgeBases
  <2> QED
    BY <2>1, FactsDiffer DEF Achieved
<1>5. ASSUME NEW a \in Names, Hear(a) PROVE Achieved(kb') \subseteq Achieved(kb)
  <2>1. CASE Head(inbox[a]) = CancelAction
    BY <1>5, <2>1 DEF Hear
  <2>2. CASE Head(inbox[a]) # CancelAction
    <3>1. PICK c : /\ kb' = UpdateKnowledgeArray(kb, StartDel(c.action), StartAdd(c.action))
                   /\ c \in calls'
      BY <1>5, <2>2 DEF Hear
    <3>2. c.action \in Actions
      BY <3>1 DEF TypeInv, ReplanTypeOK, Calls
    <3> QED
      BY <1>0, <3>1, <3>2, AchievedAfter
  <2> QED
    BY <2>1, <2>2
<1>6. ASSUME NEW c \in calls, Return(c) \/ Fails(c), ~(Return(c) /\ ~action_cancelled[c.action.name])
      PROVE  UNCHANGED kb
  BY <1>6 DEF Return, Fails
<1>7. CASE UNCHANGED kb
  BY <1>7
<1> QED
  BY <1>1, <1>2, <1>3, <1>4, <1>5, <1>6, <1>7 DEF ReplanNext, ScriptStep, WaitToStop,
     CancelDispatch, LookForMove, ReadPlace, ReadGoals, ProblemServer, PlanningServer, ParsePlan,
     DispatchPlan, NextRound, ProblemCallback, PlannerCallback, PlanCallback, SendAction, Leave,
     replanVars

(* While the services work, nothing is written.                            *)
LEMMA ServingFrom ==
  ASSUME TypeInv, TypeInv', LocatedInv, [ReplanNext]_replanVars, script'.step \in Serving
  PROVE  /\ script'.round = script.round
         /\ ProblemServer \/ script.step \in Serving
         /\ "late" \notin history' => UNCHANGED kb
<1>0. script \in [round : 1 .. Len(rounds), step : Steps, at : Locations, total : Int,
                  todo : SUBSET Regions]
  BY LocatedTypes
<1>00. ASSUME NEW step, Goto(step)
       PROVE  script'.round = script.round /\ script'.step = step
  BY <1>0, <1>00 DEF Goto
<1>1. ~(CreatePddlGlobal \/ WaitToStop \/ CancelDispatch \/ LookForMove \/ StopMove
          \/ ReadPlace \/ ReadGoals \/ Prune \/ WriteUpdate \/ DispatchPlan)
  <2>1. CreatePddlGlobal \/ WaitToStop \/ CancelDispatch \/ LookForMove \/ WriteUpdate
          \/ DispatchPlan => \E step \in Steps \ Serving : Goto(step)
    BY DEF CreatePddlGlobal, WaitToStop, CancelDispatch, LookForMove, WriteUpdate, DispatchPlan,
       Serving, Steps
  <2>2. StopMove \/ ReadGoals \/ Prune => script'.step \in Steps \ Serving
    BY <1>0 DEF StopMove, ReadGoals, Prune, Serving, Steps, InRound
  <2>3. ASSUME ReadPlace PROVE script'.step \in Steps \ Serving
    <3>1. CASE Ats(kb) = {}
      BY <1>00, <2>3, <3>1 DEF ReadPlace, Serving, Steps
    <3>2. CASE Ats(kb) # {}
      <4>1. PICK l \in Ats(kb) : script' = [script EXCEPT !.step = "goals", !.at = l]
        BY <2>3, <3>2 DEF ReadPlace
      <4> QED
        BY <1>0, <4>1 DEF Serving, Steps
    <3> QED
      BY <3>1, <3>2
  <2> QED
    BY <1>00, <2>1, <2>2, <2>3
<1>2. ~NextRound
  BY <1>00 DEF NextRound, Started, Serving
<1>3. CASE ProblemServer \/ PlanningServer \/ ParsePlan
  BY <1>00, <1>3 DEF ProblemServer, PlanningServer, ParsePlan, Serving, InRound
<1>4. CASE ProblemCallback \/ PlannerCallback \/ PlanCallback \/ SendAction \/ Leave
             \/ UNCHANGED replanVars
  BY <1>4 DEF ProblemCallback, PlannerCallback, PlanCallback, SendAction, Leave, replanVars
<1>5. CASE (\E a \in Names : Hear(a)) \/ (\E c \in calls : Return(c) \/ Fails(c))
  <2>1. UNCHANGED script
    BY <1>5, InterfaceWrites
  <2> QED
    BY <1>5, <2>1, InterfaceWrites DEF Serving
<1> QED
  BY <1>1, <1>2, <1>3, <1>4, <1>5 DEF ReplanNext, ScriptStep

(* A dispatch that goes on keeps its plan, and its place until a call      *)
(* returns.                                                                *)
LEMMA ExecutingFrom ==
  ASSUME TypeInv, [ReplanNext]_replanVars, dispatcher'.busy, ~dispatcher'.cancelled
  PROVE  \/ DispatchPlan /\ ~dispatcher.busy
         \/ /\ dispatcher.busy /\ ~dispatcher.cancelled
            /\ dispatcher'.plan = dispatcher.plan
            /\ \/ dispatcher'.next = dispatcher.next
               \/ \E c \in calls : Return(c) /\ ~action_cancelled[c.action.name]
<1>0. dispatcher \in Dispatchers
  BY LocatedTypes
<1>1. CASE DispatchPlan
  BY <1>0, <1>1 DEF DispatchPlan
<1>2. CASE CancelDispatch \/ SendAction \/ Leave \/ PlanCallback
  BY <1>0, <1>2 DEF CancelDispatch, SendAction, Leave, PlanCallback, Accepts, Idle, Dispatchers
<1>3. ASSUME NEW c \in calls, Return(c) \/ Fails(c)
      PROVE  /\ dispatcher.busy /\ ~dispatcher.cancelled
             /\ dispatcher'.plan = dispatcher.plan
             /\ \/ dispatcher'.next = dispatcher.next
                \/ Return(c) /\ ~action_cancelled[c.action.name]
  BY <1>0, <1>3 DEF Return, Fails, Dispatchers
<1>4. CASE UNCHANGED dispatcher
  BY <1>4
<1> QED
  BY <1>1, <1>2, <1>3, <1>4 DEF ReplanNext, ScriptStep, CreatePddlGlobal, WaitToStop,
     LookForMove, StopMove, ReadPlace, ReadGoals, Prune, WriteUpdate, ProblemServer,
     PlanningServer, ParsePlan, NextRound, ProblemCallback, PlannerCallback, Hear, replanVars

(* A plan that is found while the services work is made of the problem of  *)
(* its round.                                                              *)
LEMMA SprayServes ==
  ASSUME TypeInv, TypeInv', LocatedInv, CountInv, RoundsInv, SprayInv, [ReplanNext]_replanVars,
         Disjoint, history \cap {"late", "cut", "died", "stale"} = {}, "late" \notin history',
         script'.step \in Serving
  PROVE  /\ \A p \in ProblemsAt' : p.round = script'.round => Ready(p)'
         /\ \A m \in PlansAt' : m.round = script'.round => Fitting(m)'
<1>0. /\ script'.round = script.round /\ UNCHANGED kb
      /\ ProblemServer \/ script.step \in Serving
      /\ \A p : Ready(p)' <=> Ready(p)
      /\ \A m : Fitting(m)' <=> Fitting(m)
  <2>1. /\ script'.round = script.round /\ UNCHANGED kb
        /\ ProblemServer \/ script.step \in Serving
    BY ServingFrom
  <2> QED
    BY <2>1 DEF Ready, Fitting
<1>1. CASE ProblemServer
  <2>1. InRound("problem") /\ script.step \notin Generated /\ ~PlanningServer
    BY <1>1 DEF ProblemServer, PlanningServer, InRound, Generated
  <2>2. \A m \in ProblemsAt \cup PlansAt : m.round # script.round
    BY <2>1 DEF RoundsInv
  <2>3. Ready([round |-> script.round, kb |-> kb])
    <3>1. kb.total_goals = Cardinality(kb.goals) /\ kb.goals \cap Achieved(kb) = {}
      BY <2>1 DEF CountInv, InRound
    <3>2. OpenGoals(kb) = kb.goals
      BY <3>1 DEF OpenGoals
    <3> QED
      BY <3>1, <3>2 DEF Ready
  <2> QED
    BY <1>0, <2>1, <2>2, <2>3, ProblemsFrom, PlansFrom
<1>2. CASE script.step \in Serving
  <2>1. /\ \A p \in ProblemsAt : p.round = script.round => Ready(p)
        /\ \A m \in PlansAt : m.round = script.round => Fitting(m)
    BY <1>2 DEF SprayInv
  <2>2. ~ProblemServer
    BY <1>2 DEF ProblemServer, InRound, Serving
  <2>3. ASSUME NEW a \in Solutions(problem), problem \in ProblemsAt,
               problem.round = script.round
        PROVE  Fitting([round |-> problem.round, actions |-> a])
    <3>1. problem \in Problems /\ Ready(problem)
      BY <2>1, <2>3, AtHandTypes
    <3>2. Sprays(a) \subseteq OpenGoals(problem.kb) /\ SpraysOnce(a)
      BY <3>1, SolutionSprays DEF Ready
    <3> QED
      BY <3>1, <3>2 DEF Ready, Fitting
  <2> QED
    BY <1>0, <2>1, <2>2, <2>3, ProblemsFrom, PlansFrom
<1> QED
  BY <1>0, <1>1, <1>2

(* A spraying that is over was of the region the dispatch came to, once.   *)
LEMMA SprayReturns ==
  ASSUME TypeInv, TypeInv', LocatedInv, SprayInv,
         Disjoint, history \cap {"late", "cut", "died", "stale"} = {}, "late" \notin history',
         NEW c \in calls, Return(c), ~action_cancelled[c.action.name]
  PROVE  FittingAhead' /\ "twice" \notin history'
<1>0. /\ kb \in KnowledgeBases /\ c.action \in Actions
      /\ dispatcher \in Dispatchers /\ dispatcher.next \in Nat
      /\ dispatcher.plan.actions \in Seq(Actions)
  BY LocatedTypes DEF Calls, Dispatchers, Messages
<1>1. Expected(c)
  BY DEF Return, Remember, Late
<1>2. /\ dispatcher.next \in 1 .. Len(dispatcher.plan.actions)
      /\ c.id = dispatcher.next /\ c.action = dispatcher.plan.actions[dispatcher.next]
      /\ Completes(c)
  <2>1. Pending(c)
    BY <1>1 DEF LocatedInv, OneHeard
  <2> QED
    BY <1>0, <2>1 DEF Pending, Running, Current, NextAction, Completes, Dispatchers
<1>3. FittingAhead /\ "twice" \notin history
  BY <1>1 DEF SprayInv, Expected
<1>4. /\ dispatcher'.plan = dispatcher.plan /\ dispatcher'.next = dispatcher.next + 1
      /\ kb' = UpdateKnowledgeArray(kb, EndDel(c.action), EndAdd(c.action))
  BY <1>0, <1>2 DEF Return, Dispatchers
<1>5. Achieved(kb') = Achieved(kb) \cup (IF IsSpray(c.action) THEN {c.action.to} ELSE {})
  BY <1>0, <1>4, AchievedAfter
<1>6. FittingAhead'
  <2> SUFFICES ASSUME NEW i \in Sprayed(dispatcher.plan.actions), i >= dispatcher.next + 1
               PROVE  dispatcher.plan.actions[i].to \notin Achieved(kb')
    BY <1>3, <1>4 DEF FittingAhead
  <2>1. i \in Nat /\ dispatcher.plan.actions[i].to \notin Achieved(kb)
    BY <1>0, <1>3 DEF FittingAhead, Sprayed
  <2>2. IsSpray(c.action) => dispatcher.plan.actions[i].to # c.action.to
    <3> SUFFICES ASSUME IsSpray(c.action), dispatcher.plan.actions[i].to = c.action.to PROVE FALSE
      OBVIOUS
    <3>1. dispatcher.next \in Sprayed(dispatcher.plan.actions)
      BY <1>2 DEF Sprayed
    <3>2. i = dispatcher.next
      BY <1>2, <1>3, <3>1 DEF FittingAhead, SpraysOnce
    <3> QED
      BY <1>0, <3>2
  <2> QED
    BY <1>5, <2>1, <2>2
<1>7. IsSpray(c.action) => Pulverized(c.action.to) \notin kb.facts
  <2> SUFFICES ASSUME IsSpray(c.action) PROVE c.action.to \notin Achieved(kb) /\ c.action.to \in Regions
    BY DEF Achieved
  <2>1. dispatcher.next \in Sprayed(dispatcher.plan.actions)
    BY <1>2 DEF Sprayed
  <2>2. c.action.to \notin Achieved(kb)
    BY <1>0, <1>2, <1>3, <2>1 DEF FittingAhead
  <2> QED
    BY <1>0, <2>2 DEF Actions, IsSpray, Locations
<1> QED
  BY <1>3, <1>6, <1>7 DEF Return, Remember, Late, IsSpray

LEMMA SprayStays ==
  TypeInv /\ TypeInv' /\ LocatedInv /\ CountInv /\ RoundsInv /\ SprayInv /\ [ReplanNext]_replanVars
    => SprayInv'
<1> SUFFICES ASSUME TypeInv, TypeInv', LocatedInv, CountInv, RoundsInv, SprayInv,
                    [ReplanNext]_replanVars,
                    Disjoint', history' \cap {"late", "cut", "died", "stale"} = {}
             PROVE  /\ script'.step \in Serving =>
                         /\ \A p \in ProblemsAt' : p.round = script'.round => Ready(p)'
                         /\ \A m \in PlansAt' : m.round = script'.round => Fitting(m)'
                    /\ dispatcher'.busy /\ ~dispatcher'.cancelled => FittingAhead'
                    /\ "twice" \notin history'
  BY DEF SprayInv
<1>0. Disjoint /\ history \cap {"late", "cut", "died", "stale"} = {} /\ "late" \notin history'
  <2>1. rounds' = rounds
    BY ScriptMoves
  <2> QED
    BY <2>1, HistoryStays DEF Disjoint
<1>1. CASE \E c \in calls : Return(c) /\ ~action_cancelled[c.action.name]
  BY <1>0, <1>1, SprayReturns, SprayServes
<1>2. CASE ~\E c \in calls : Return(c) /\ ~action_cancelled[c.action.name]
  <2>1. "twice" \notin history'
    <3>1. "twice" \notin history
      BY <1>0 DEF SprayInv
    <3>2. history' \subseteq history \cup {"fault", "died", "cut", "late", "stale"}
      BY <1>2 DEF ReplanNext, ScriptStep, CreatePddlGlobal, WaitToStop, CancelDispatch, LookForMove,
         StopMove, ReadPlace, ReadGoals, Prune, WriteUpdate, ProblemServer, PlanningServer,
         PlanFound, NoPlanFound, ParsePlan, DispatchPlan, NextRound, ProblemCallback,
         PlannerCallback, PlanCallback, SendAction, Leave, Hear, Return, Fails, Smooth, Remember,
         Cut, Late, replanVars
    <3> QED
      BY <3>1, <3>2
  <2>2. ASSUME dispatcher'.busy, ~dispatcher'.cancelled PROVE FittingAhead'
    <3>1. CASE DispatchPlan /\ ~dispatcher.busy
      <4>1. /\ UNCHANGED kb /\ script.step = "dispatch"
            /\ dispatcher'.plan = dispatcher.plan
            /\ dispatcher.plan.round = script.round
        BY <1>0, <3>1, LocatedTypes DEF DispatchPlan, InRound, Remember, Idle
      <4>2. Fitting(dispatcher.plan)
        BY <1>0, <4>1, AtHandTypes DEF SprayInv, Serving
      <4> QED
        BY <4>1, <4>2 DEF Fitting, FittingAhead, Sprays
    <3>2. CASE /\ dispatcher.busy /\ ~dispatcher.cancelled
               /\ dispatcher'.plan = dispatcher.plan
               /\ dispatcher'.next = dispatcher.next
      <4>1. FittingAhead /\ Achieved(kb') \subseteq Achieved(kb)
        BY <1>0, <1>2, <3>2, AchievedFrom DEF SprayInv
      <4> QED
        BY <3>2, <4>1 DEF FittingAhead
    <3> QED
      BY <1>2, <2>2, <3>1, <3>2, ExecutingFrom
  <2> QED
    BY <1>0, <2>1, <2>2, SprayServes
<1> QED
  BY <1>1, <1>2

(* In a round, the problem and the plan made of it fit what is sprayed when*)
(* they are handed on, and so does what is left of a dispatch.             *)
THEOREM SprayInvariance == ReplanSpec => []SprayInv
  BY SprayInit, SprayStays, RoundsInvariance, CountInvariance, LocatedInvariance, TypeInvariance,
     PTL DEF ReplanSpec

(* SprayedOnce for any regions, missions and faults: no region is sprayed  *)
(* twice.                                                                  *)
THEOREM SprayedOnceCorrect == ReplanSpec => []SprayedOnce
<1>1. SprayInv => SprayedOnce
  BY DEF SprayInv, SprayedOnce
<1> QED
  BY <1>1, SprayInvariance, PTL
=============================================================================
