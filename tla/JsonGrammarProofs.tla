------------------------- MODULE JsonGrammarProofs -------------------------
(* Theorems about texts: what a stretch of one is printed as, and that the *)
(* reader tells the texts of the grammar from all others.                  *)
EXTENDS JsonGrammar, WellFoundedInduction, FiniteSetTheorems, TLAPS

ST == INSTANCE SequenceTheorems

-----------------------------------------------------------------------------
(* The least number of a set.                                              *)
LEMMA MinIs ==
  ASSUME NEW S, S \subseteq Nat, S # {}
  PROVE  Min(S) \in S /\ \A k \in S : Min(S) <= k
<1>1. IsWellFoundedOn(OpToRel(<, Nat), Nat)
  BY NatLessThanWellFounded
<1>2. PICK m \in S : \A k \in S : ~(<<k, m>> \in OpToRel(<, Nat))
  BY <1>1, WFMin
<1>3. \A k \in S : ~(k < m)
  BY <1>2 DEF OpToRel
<1>4. \A k \in S : m =< k
  BY <1>3
<1> QED
  BY <1>4 DEF Min

-----------------------------------------------------------------------------
(* What a stretch of the text is printed as.  Induction over the natural   *)
(* numbers, for a set: below the least number that is not in it there is   *)
(* one that is.                                                            *)

LEMMA NatSetInduction ==
  ASSUME NEW T, 0 \in T, \A n \in Nat : n \in T => n + 1 \in T
  PROVE  Nat \subseteq T
<1> DEFINE U == Nat \ T
<1> SUFFICES ASSUME U # {} PROVE FALSE
  OBVIOUS
<1>1. Min(U) \in U /\ \A k \in U : Min(U) <= k
  BY MinIs
<1>2. Min(U) - 1 \in Nat /\ Min(U) - 1 \notin U
  BY <1>1
<1> QED
  BY <1>1, <1>2

LEMMA TokenShown == \A x \in Token : Shown(x) \in Token
BY DEF Token, Scalar, Word, Number, Shown

LEMMA ConcatAppend ==
  ASSUME NEW u \in Seq(Token), NEW v \in Seq(Token), NEW x \in Token
  PROVE  Append(u \o v, x) = u \o Append(v, x)
<1>1. <<x>> \in Seq(Token) /\ u \o v \in Seq(Token)
  OBVIOUS
<1>2. Append(u \o v, x) = (u \o v) \o <<x>>
  BY <1>1, ST!AppendIsConcat
<1>3. Append(v, x) = v \o <<x>>
  BY ST!AppendIsConcat
<1> QED
  BY <1>1, <1>2, <1>3, ST!ConcatAssociative

(* f spells out s behind a, up to every place as far as b.                 *)
Spells(f, s, a, b) ==
  /\ f \in [a .. b -> Seq(Token)] /\ f[a] = << >>
  /\ \A i \in a + 1 .. b : f[i] = IF s[i] = "ws" THEN f[i - 1] ELSE Append(f[i - 1], Shown(s[i]))

LEMMA SpellsExists ==
  ASSUME NEW s \in Seq(Token), NEW a \in Nat, NEW b \in Nat, a <= b, b <= Len(s)
  PROVE  \E f : Spells(f, s, a, b)
<1> DEFINE T == {n \in Nat : a + n <= Len(s) => \E f : Spells(f, s, a, a + n)}
<1>1. 0 \in T
  <2> DEFINE z == [i \in a .. a |-> << >>]
  <2>1. z \in [a .. a -> Seq(Token)] /\ z[a] = << >>
    OBVIOUS
  <2>2. a + 0 = a /\ a + 1 .. a = {}
    OBVIOUS
  <2> HIDE DEF z
  <2>3. Spells(z, s, a, a)
    BY <2>1, <2>2 DEF Spells
  <2> QED
    BY <2>2, <2>3
<1>2. ASSUME NEW n \in Nat, n \in T PROVE n + 1 \in T
  <2> SUFFICES ASSUME a + (n + 1) <= Len(s) PROVE \E f : Spells(f, s, a, a + (n + 1))
    OBVIOUS
  <2> DEFINE m == a + n
  <2>1. m \in Nat /\ a <= m /\ a + (n + 1) = m + 1 /\ m + 1 \in 1 .. Len(s)
    OBVIOUS
  <2>2. PICK f : Spells(f, s, a, m)
    BY <1>2, <2>1
  <2> HIDE DEF m
  <2> DEFINE v == IF s[m + 1] = "ws" THEN f[m] ELSE Append(f[m], Shown(s[m + 1]))
             g == [i \in a .. m + 1 |-> IF i = m + 1 THEN v ELSE f[i]]
  <2>3. f[m] \in Seq(Token) /\ Shown(s[m + 1]) \in Token
    BY <2>1, <2>2, TokenShown DEF Spells
  <2>4. v \in Seq(Token)
    BY <2>3
  <2>5. \A i \in a .. m : f[i] \in Seq(Token) /\ g[i] = f[i]
    BY <2>1, <2>2 DEF Spells
  <2>6. g \in [a .. m + 1 -> Seq(Token)] /\ g[a] = << >> /\ g[m + 1] = v
    BY <2>1, <2>2, <2>4, <2>5 DEF Spells
  <2>7. ASSUME NEW i \in a + 1 .. m + 1
        PROVE  g[i] = IF s[i] = "ws" THEN g[i - 1] ELSE Append(g[i - 1], Shown(s[i]))
    <3>1. i - 1 \in a .. m /\ g[i - 1] = f[i - 1]
      BY <2>1, <2>5
    <3>2. CASE i = m + 1
      BY <2>1, <2>6, <3>1, <3>2
    <3>3. CASE i # m + 1
      <4>1. i \in a + 1 .. m /\ g[i] = f[i]
        BY <2>1, <2>5, <3>3
      <4> QED
        BY <2>2, <3>1, <4>1 DEF Spells
    <3> QED
      BY <3>2, <3>3
  <2> HIDE DEF g, v
  <2>8. Spells(g, s, a, m + 1)
    BY <2>6, <2>7 DEF Spells
  <2> QED
    BY <2>1, <2>8
<1>3. b - a \in T
  <2> HIDE DEF T
  <2>1. b - a \in Nat
    OBVIOUS
  <2> QED
    BY <1>1, <1>2, <2>1, NatSetInduction
<1> QED
  BY <1>3

LEMMA SpelledIs ==
  ASSUME NEW s, NEW a \in Nat, NEW b \in Nat, a <= b, NEW f, Spells(f, s, a, b)
  PROVE  Spelled(s, a, b) = f[b]
<1> DEFINE g == CHOOSE h : h = [i \in a .. b |->
                  IF i = a THEN << >>
                  ELSE IF s[i] = "ws" THEN h[i - 1] ELSE Append(h[i - 1], Shown(s[i]))]
<1>1. Spelled(s, a, b) = g[b]
  BY DEF Spelled
<1>2. f = [i \in a .. b |->
             IF i = a THEN << >>
             ELSE IF s[i] = "ws" THEN f[i - 1] ELSE Append(f[i - 1], Shown(s[i]))]
  <2> DEFINE e == [i \in a .. b |->
             IF i = a THEN << >>
             ELSE IF s[i] = "ws" THEN f[i - 1] ELSE Append(f[i - 1], Shown(s[i]))]
  <2>1. ASSUME NEW i \in a .. b PROVE e[i] = f[i]
    <3>1. CASE i = a
      BY <3>1 DEF Spells
    <3>2. CASE i # a
      <4>1. i \in a + 1 .. b
        BY <3>2
      <4> QED
        BY <3>2, <4>1 DEF Spells
    <3> QED
      BY <3>1, <3>2
  <2>2. f = [i \in a .. b |-> f[i]]
    BY DEF Spells
  <2>3. e = [i \in a .. b |-> f[i]]
    BY <2>1
  <2> QED
    BY <2>2, <2>3
<1>3. g = [i \in a .. b |->
             IF i = a THEN << >>
             ELSE IF s[i] = "ws" THEN g[i - 1] ELSE Append(g[i - 1], Shown(s[i]))]
  BY <1>2, Zenon
<1> HIDE DEF g
<1> DEFINE T == {n \in Nat : a + n <= b => g[a + n] = f[a + n]}
<1>4. 0 \in T
  <2>1. g[a] = << >>
    BY <1>3
  <2> QED
    BY <2>1 DEF Spells
<1>5. ASSUME NEW n \in Nat, n \in T PROVE n + 1 \in T
  <2> SUFFICES ASSUME a + (n + 1) <= b PROVE g[a + (n + 1)] = f[a + (n + 1)]
    OBVIOUS
  <2> DEFINE i == a + (n + 1)
  <2>1. i \in a + 1 .. b /\ i \in a .. b /\ i # a /\ i - 1 = a + n
    OBVIOUS
  <2>2. g[i - 1] = f[i - 1]
    BY <1>5, <2>1
  <2> HIDE DEF i
  <2>3. g[i] = IF s[i] = "ws" THEN g[i - 1] ELSE Append(g[i - 1], Shown(s[i]))
    BY <1>3, <2>1
  <2>4. f[i] = IF s[i] = "ws" THEN f[i - 1] ELSE Append(f[i - 1], Shown(s[i]))
    BY <2>1 DEF Spells
  <2>5. g[i] = f[i]
    BY <2>2, <2>3, <2>4
  <2> QED
    BY <2>5 DEF i
<1>6. b - a \in T
  <2> HIDE DEF T
  <2>1. b - a \in Nat
    OBVIOUS
  <2> QED
    BY <1>4, <1>5, <2>1, NatSetInduction
<1> QED
  BY <1>1, <1>6

(* One token more.                                                         *)
LEMMA SpelledStep ==
  ASSUME NEW s \in Seq(Token), NEW a \in Nat, NEW b \in Nat, a <= b, b < Len(s)
  PROVE  /\ Spelled(s, a, b + 1) =
              IF s[b + 1] = "ws" THEN Spelled(s, a, b) ELSE Append(Spelled(s, a, b), Shown(s[b + 1]))
<1>1. b + 1 \in Nat /\ a <= b + 1 /\ b + 1 <= Len(s) /\ b + 1 \in a + 1 .. b + 1
      /\ b \in a .. b + 1 /\ (b + 1) - 1 = b
  OBVIOUS
<1>2. PICK f : Spells(f, s, a, b + 1)
  BY <1>1, SpellsExists
<1> DEFINE g == [i \in a .. b |-> f[i]]
<1>3. Spells(g, s, a, b)
  <2>1. \A i \in a .. b : f[i] \in Seq(Token)
    BY <1>2 DEF Spells
  <2>2. g \in [a .. b -> Seq(Token)] /\ g[a] = << >>
    BY <1>2, <2>1 DEF Spells
  <2>3. ASSUME NEW i \in a + 1 .. b
        PROVE  g[i] = IF s[i] = "ws" THEN g[i - 1] ELSE Append(g[i - 1], Shown(s[i]))
    <3>1. i \in a + 1 .. b + 1 /\ i \in a .. b /\ i - 1 \in a .. b
      OBVIOUS
    <3>2. g[i] = f[i] /\ g[i - 1] = f[i - 1]
      BY <3>1
    <3> QED
      BY <1>2, <3>1, <3>2 DEF Spells
  <2> HIDE DEF g
  <2> QED
    BY <2>2, <2>3 DEF Spells
<1>4. Spelled(s, a, b + 1) = f[b + 1]
  BY <1>1, <1>2, SpelledIs
<1>5. Spelled(s, a, b) = f[b]
  <2>1. g[b] = f[b]
    BY <1>1
  <2> HIDE DEF g
  <2> QED
    BY <1>3, <2>1, SpelledIs
<1> QED
  BY <1>1, <1>2, <1>4, <1>5 DEF Spells

LEMMA SpelledNone ==
  ASSUME NEW s, NEW a \in Nat
  PROVE  Spelled(s, a, a) = << >>
<1> DEFINE z == [i \in a .. a |-> << >>]
<1>1. z \in [a .. a -> Seq(Token)] /\ z[a] = << >> /\ a + 1 .. a = {}
  OBVIOUS
<1> HIDE DEF z
<1>2. Spells(z, s, a, a)
  BY <1>1 DEF Spells
<1> QED
  BY <1>1, <1>2, SpelledIs

LEMMA SpelledType ==
  ASSUME NEW s \in Seq(Token), NEW a \in Nat, NEW b \in Nat, a <= b, b <= Len(s)
  PROVE  Spelled(s, a, b) \in Seq(Token)
<1>1. PICK f : Spells(f, s, a, b)
  BY SpellsExists
<1>2. Spelled(s, a, b) = f[b] /\ b \in a .. b
  BY <1>1, SpelledIs
<1> QED
  BY <1>1, <1>2 DEF Spells

(* A text that grows is printed as before, as far as it went.              *)
LEMMA SpelledSame ==
  ASSUME NEW s \in Seq(Token), NEW r, NEW a \in Nat, NEW b \in Nat, a <= b, b <= Len(s),
         \A i \in 1 .. Len(s) : r[i] = s[i]
  PROVE  Spelled(r, a, b) = Spelled(s, a, b)
<1>1. PICK f : Spells(f, s, a, b)
  BY SpellsExists
<1>2. \A i \in a + 1 .. b : r[i] = s[i]
  OBVIOUS
<1>3. Spells(f, r, a, b)
  BY <1>1, <1>2 DEF Spells
<1> QED
  BY <1>1, <1>3, SpelledIs

(* Two stretches behind each other.                                        *)
LEMMA SpelledJoin ==
  ASSUME NEW s \in Seq(Token), NEW a \in Nat, NEW b \in Nat, NEW c \in Nat,
         a <= b, b <= c, c <= Len(s)
  PROVE  Spelled(s, a, c) = Spelled(s, a, b) \o Spelled(s, b, c)
<1> DEFINE T == {n \in Nat : b + n <= Len(s) =>
                    Spelled(s, a, b + n) = Spelled(s, a, b) \o Spelled(s, b, b + n)}
<1>1. 0 \in T
  <2>1. Spelled(s, a, b) \in Seq(Token) /\ Spelled(s, b, b) = << >>
    BY SpelledType, SpelledNone
  <2>2. Spelled(s, a, b) \o << >> = Spelled(s, a, b)
    BY <2>1
  <2> QED
    BY <2>1, <2>2
<1>2. ASSUME NEW n \in Nat, n \in T PROVE n + 1 \in T
  <2> SUFFICES ASSUME b + (n + 1) <= Len(s)
               PROVE  Spelled(s, a, b + (n + 1)) = Spelled(s, a, b) \o Spelled(s, b, b + (n + 1))
    OBVIOUS
  <2> DEFINE m == b + n
  <2>1. m \in Nat /\ a <= m /\ b <= m /\ m < Len(s) /\ b + (n + 1) = m + 1 /\ m + 1 \in 1 .. Len(s)
    OBVIOUS
  <2>2. Spelled(s, a, m) = Spelled(s, a, b) \o Spelled(s, b, m)
    BY <1>2, <2>1
  <2> HIDE DEF m
  <2>3. /\ Spelled(s, a, m + 1) =
             IF s[m + 1] = "ws" THEN Spelled(s, a, m) ELSE Append(Spelled(s, a, m), Shown(s[m + 1]))
        /\ Spelled(s, b, m + 1) =
             IF s[m + 1] = "ws" THEN Spelled(s, b, m) ELSE Append(Spelled(s, b, m), Shown(s[m + 1]))
    BY <2>1, SpelledStep
  <2>4. Spelled(s, a, b) \in Seq(Token) /\ Spelled(s, b, m) \in Seq(Token)
    BY <2>1, SpelledType
  <2>5. Shown(s[m + 1]) \in Token
    <3>1. s[m + 1] \in Token
      BY <2>1
    <3> QED
      BY <3>1, TokenShown
  <2>6. ASSUME s[m + 1] # "ws"
        PROVE  Append(Spelled(s, a, m), Shown(s[m + 1])) =
                 Spelled(s, a, b) \o Append(Spelled(s, b, m), Shown(s[m + 1]))
    <3>1. Append(Spelled(s, a, b) \o Spelled(s, b, m), Shown(s[m + 1])) =
            Spelled(s, a, b) \o Append(Spelled(s, b, m), Shown(s[m + 1]))
      BY <2>4, <2>5, ConcatAppend
    <3> QED
      BY <2>2, <3>1
  <2> QED
    BY <2>1, <2>2, <2>3, <2>6
<1>3. c - b \in T
  <2> HIDE DEF T
  <2>1. c - b \in Nat
    OBVIOUS
  <2> QED
    BY <1>1, <1>2, <2>1, NatSetInduction
<1> QED
  BY <1>3

(* The reader's states are defined, and follow each other.                 *)
Runs(f, t, n) ==
  /\ DOMAIN f = 0 .. n
  /\ f = [i \in 0 .. n |-> IF i = 0 THEN Fresh ELSE Step(f[i - 1], t[i])]

LEMMA RunExists ==
  ASSUME NEW t, NEW n \in Nat
  PROVE  \E f : Runs(f, t, n)
<1> DEFINE T == {k \in Nat : \E f : Runs(f, t, k)}
<1>1. 0 \in T
  <2> DEFINE z == [i \in 0 .. 0 |-> Fresh]
             y == [i \in 0 .. 0 |-> IF i = 0 THEN Fresh ELSE Step(z[i - 1], t[i])]
  <2>1. y = z
    OBVIOUS
  <2>2. DOMAIN z = 0 .. 0
    OBVIOUS
  <2> HIDE DEF z
  <2> QED
    BY <2>1, <2>2 DEF Runs
<1>2. ASSUME NEW k \in Nat, k \in T PROVE k + 1 \in T
  <2>1. PICK f : Runs(f, t, k)
    BY <1>2
  <2> DEFINE v == Step(f[k], t[k + 1])
             g == [i \in 0 .. k + 1 |-> IF i = k + 1 THEN v ELSE f[i]]
             h == [i \in 0 .. k + 1 |-> IF i = 0 THEN Fresh ELSE Step(g[i - 1], t[i])]
  <2>2. \A i \in 0 .. k : f[i] = IF i = 0 THEN Fresh ELSE Step(f[i - 1], t[i])
    <3> DEFINE e == [i \in 0 .. k |-> IF i = 0 THEN Fresh ELSE Step(f[i - 1], t[i])]
    <3>1. f = e
      BY <2>1, Zenon DEF Runs
    <3>2. \A i \in 0 .. k : e[i] = IF i = 0 THEN Fresh ELSE Step(f[i - 1], t[i])
      OBVIOUS
    <3> HIDE DEF e
    <3> QED
      BY <3>1, <3>2
  <2>3. ASSUME NEW i \in 0 .. k + 1 PROVE g[i] = h[i]
    <3>1. CASE i = k + 1
      <4>1. g[i - 1] = f[k]
        BY <3>1
      <4> QED
        BY <3>1, <4>1
    <3>2. CASE i # k + 1
      <4>1. i \in 0 .. k /\ g[i] = f[i]
        BY <3>2
      <4>2. i # 0 => g[i - 1] = f[i - 1]
        BY <4>1
      <4> QED
        BY <2>2, <4>1, <4>2
    <3> QED
      BY <3>1, <3>2
  <2>4. DOMAIN g = 0 .. k + 1 /\ g = h
    BY <2>3
  <2> HIDE DEF g
  <2>5. Runs(g, t, k + 1)
    BY <2>4 DEF Runs
  <2> QED
    BY <2>5
<1>3. n \in T
  <2> HIDE DEF T
  <2> QED
    BY <1>1, <1>2, NatSetInduction
<1> QED
  BY <1>3

LEMMA StatesAre ==
  ASSUME NEW t \in Seq(Token)
  PROVE  /\ States(t)[0] = Fresh
         /\ \A i \in 1 .. Len(t) : States(t)[i] = Step(States(t)[i - 1], t[i])
<1> DEFINE n == Len(t)
           g == CHOOSE f : f = [i \in 0 .. n |-> IF i = 0 THEN Fresh ELSE Step(f[i - 1], t[i])]
           e == [i \in 0 .. n |-> IF i = 0 THEN Fresh ELSE Step(g[i - 1], t[i])]
<1>1. n \in Nat
  OBVIOUS
<1>2. States(t) = g
  BY DEF States
<1>3. \E f : f = [i \in 0 .. n |-> IF i = 0 THEN Fresh ELSE Step(f[i - 1], t[i])]
  BY <1>1, RunExists DEF Runs
<1>4. g = e
  BY <1>3, Zenon
<1>5. e[0] = Fresh
  BY <1>1
<1>6. \A i \in 1 .. n : e[i] = Step(g[i - 1], t[i])
  BY <1>1
<1> HIDE DEF g, e
<1> QED
  BY <1>2, <1>4, <1>5, <1>6

(* What states of the reader there are.                                    *)
Kinds == {"array", "object"}
Typed(st) ==
  /\ st \in [in : Seq(Kinds), at : {"value", "opened", "name", "colon", "more", "done", "stuck"}]
  /\ st.at \in {"opened", "name", "colon", "more"} => st.in # << >>
  /\ st.at \in {"done", "stuck"} => st.in = << >>

LEMMA LeaveTyped == \A in \in Seq(Kinds) : Typed(Leave(in)) /\ Leave(in).in = in
BY DEF Leave, Typed

LEMMA LastKind ==
  ASSUME NEW in \in Seq(Kinds), in # << >>
  PROVE  /\ Last(in) \in Kinds /\ Begins[Last(in)] \in {"value", "name"}
         /\ Front(in) \in Seq(Kinds) /\ Len(Front(in)) = Len(in) - 1
<1>1. Len(in) \in 1 .. Len(in) /\ Len(in) - 1 \in 0 .. Len(in)
  OBVIOUS
<1>2. in[Len(in)] \in Kinds
  BY <1>1
<1>3. SubSeq(in, 1, Len(in) - 1) \in Seq(Kinds) /\ Len(SubSeq(in, 1, Len(in) - 1)) = Len(in) - 1
  <2>1. 1 \in 1 .. Len(in) + 1 /\ Len(in) - 1 \in 1 - 1 .. Len(in) /\ (Len(in) - 1) - 1 + 1 = Len(in) - 1
    BY <1>1
  <2> QED
    BY <2>1, ST!SubSeqProperties
<1>4. \A k \in Kinds : Begins[k] \in {"value", "name"}
  BY DEF Kinds, Begins
<1> QED
  BY <1>2, <1>3, <1>4 DEF Last, Front

LEMMA StepTyped ==
  ASSUME NEW st, Typed(st), NEW x \in Token
  PROVE  Typed(Step(st, x))
<1>0. st.in \in Seq(Kinds)
  BY DEF Typed
<1>1. CASE Closes(st, x)
  <2>1. st.in # << >> /\ Step(st, x) = Leave(Front(st.in))
    BY <1>1 DEF Closes, Step, Typed
  <2> QED
    BY <1>0, <2>1, LastKind, LeaveTyped
<1>2. CASE ~Closes(st, x)
  <2>1. st.at = "opened" => st.in # << >>
    BY DEF Typed
  <2>2. Expects(st) \in {"name", "colon", "more"} => st.in # << >>
    BY DEF Expects, Typed
  <2>3. x \in Open => KindOf[x] \in Kinds
    BY DEF Open, KindOf, Kinds
  <2>4. x \in Open => Typed([in |-> Append(st.in, KindOf[x]), at |-> "opened"])
    BY <1>0, <2>3 DEF Typed
  <2>5. Typed(Stuck)
    BY DEF Stuck, Typed
  <2>6. /\ st.in # << >> => /\ Typed([in |-> st.in, at |-> "colon"])
                            /\ Typed([in |-> st.in, at |-> Begins[Last(st.in)]])
        /\ Typed([in |-> st.in, at |-> "value"])
    BY <1>0, LastKind DEF Typed
  <2>7. /\ Expects(st) = "more" => Begins[Last(st.in)] \in {"value", "name"}
    BY <1>0, <2>2, LastKind
  <2>9. \/ Step(st, x) \in {Leave(st.in), Stuck, [in |-> st.in, at |-> "value"]}
        \/ x \in Open /\ Step(st, x) = [in |-> Append(st.in, KindOf[x]), at |-> "opened"]
        \/ st.in # << >> /\ Step(st, x) = [in |-> st.in, at |-> "colon"]
        \/ st.in # << >> /\ Step(st, x) = [in |-> st.in, at |-> Begins[Last(st.in)]]
    BY <1>0, <1>2, <2>2 DEF Step
  <2> QED
    BY <1>0, <2>4, <2>5, <2>6, <2>9, LeaveTyped
<1> QED
  BY <1>1, <1>2

LEMMA StatesTyped ==
  ASSUME NEW t \in Seq(Token)
  PROVE  \A i \in 0 .. Len(t) : Typed(States(t)[i])
<1> DEFINE T == {k \in Nat : k <= Len(t) => Typed(States(t)[k])}
<1>1. 0 \in T
  <2>1. Typed(Fresh)
    BY DEF Typed, Fresh
  <2> QED
    BY <2>1, StatesAre
<1>2. ASSUME NEW k \in Nat, k \in T PROVE k + 1 \in T
  <2> SUFFICES ASSUME k + 1 <= Len(t) PROVE Typed(States(t)[k + 1])
    OBVIOUS
  <2>1. k + 1 \in 1 .. Len(t) /\ (k + 1) - 1 = k /\ t[k + 1] \in Token /\ Typed(States(t)[k])
    BY <1>2
  <2>2. States(t)[k + 1] = Step(States(t)[(k + 1) - 1], t[k + 1])
    BY <2>1, StatesAre
  <2> QED
    BY <2>1, <2>2, StepTyped
<1>3. Nat \subseteq T
  <2> HIDE DEF T
  <2> QED
    BY <1>1, <1>2, NatSetInduction
<1> QED
  BY <1>3

(* Texts that begin alike are read alike.                                  *)
LEMMA StatesAgree ==
  ASSUME NEW s \in Seq(Token), NEW t \in Seq(Token), NEW n \in Nat, n <= Len(s), n <= Len(t),
         \A i \in 1 .. n : s[i] = t[i]
  PROVE  \A i \in 0 .. n : States(s)[i] = States(t)[i]
<1> DEFINE T == {k \in Nat : k <= n => States(s)[k] = States(t)[k]}
<1>1. 0 \in T
  BY StatesAre
<1>2. ASSUME NEW k \in Nat, k \in T PROVE k + 1 \in T
  <2> SUFFICES ASSUME k + 1 <= n PROVE States(s)[k + 1] = States(t)[k + 1]
    OBVIOUS
  <2> DEFINE j == k + 1
  <2>1. j \in 1 .. Len(s) /\ j \in 1 .. Len(t) /\ j - 1 = k /\ s[j] = t[j]
    OBVIOUS
  <2>2. States(s)[j - 1] = States(t)[j - 1]
    BY <1>2, <2>1
  <2> HIDE DEF j
  <2>3. States(s)[j] = States(t)[j]
    BY <2>1, <2>2, StatesAre
  <2> QED
    BY <2>3 DEF j
<1>3. Nat \subseteq T
  <2> HIDE DEF T
  <2> QED
    BY <1>1, <1>2, NatSetInduction
<1> QED
  BY <1>3

LEMMA FinalAppend ==
  ASSUME NEW q \in Seq(Token), NEW x \in Token
  PROVE  /\ Append(q, x) \in Seq(Token) /\ Len(Append(q, x)) = Len(q) + 1
         /\ \A i \in 0 .. Len(q) : States(Append(q, x))[i] = States(q)[i]
         /\ Final(Append(q, x)) = Step(Final(q), x)
<1> DEFINE r == Append(q, x)
           n == Len(q)
<1>1. r \in Seq(Token) /\ Len(r) = n + 1 /\ n \in Nat /\ r[n + 1] = x /\ \A i \in 1 .. n : q[i] = r[i]
  OBVIOUS
<1> HIDE DEF r
<1>2. \A i \in 0 .. n : States(q)[i] = States(r)[i]
  BY <1>1, StatesAgree
<1>3. States(r)[n + 1] = Step(States(r)[(n + 1) - 1], r[n + 1])
  <2>1. n + 1 \in 1 .. Len(r)
    BY <1>1
  <2> QED
    BY <1>1, <2>1, StatesAre
<1>4. (n + 1) - 1 = n /\ n \in 0 .. n
  BY <1>1
<1>5. Final(r) = Step(Final(q), x)
  BY <1>1, <1>2, <1>3, <1>4 DEF Final
<1> QED
  BY <1>1, <1>2, <1>5 DEF r

(* Nothing follows where the text is done, or has gone wrong.              *)
LEMMA StepStuck ==
  \A x \in Token : Step(Stuck, x) = Stuck /\ Step(Leave(<< >>), x) = Stuck
BY DEF Step, Stuck, Leave, Closes, Expects

LEMMA StuckStays ==
  ASSUME NEW t \in Seq(Token), NEW i \in 0 .. Len(t), NEW j \in 0 .. Len(t), i < j,
         States(t)[i] \in {Stuck, Leave(<< >>)}
  PROVE  States(t)[j] = Stuck
<1> DEFINE T == {k \in Nat : i + 1 + k <= Len(t) => States(t)[i + 1 + k] = Stuck}
<1>1. 0 \in T
  <2> SUFFICES ASSUME i + 1 <= Len(t) PROVE States(t)[i + 1] = Stuck
    OBVIOUS
  <2>1. i + 1 \in 1 .. Len(t) /\ (i + 1) - 1 = i /\ t[i + 1] \in Token
    OBVIOUS
  <2>2. States(t)[i + 1] = Step(States(t)[i], t[i + 1])
    BY <2>1, StatesAre
  <2> QED
    BY <2>1, <2>2, StepStuck
<1>2. ASSUME NEW k \in Nat, k \in T PROVE k + 1 \in T
  <2> SUFFICES ASSUME i + 1 + (k + 1) <= Len(t) PROVE States(t)[i + 1 + (k + 1)] = Stuck
    OBVIOUS
  <2> DEFINE m == i + 1 + (k + 1)
  <2>1. m \in 1 .. Len(t) /\ m - 1 = i + 1 + k /\ t[m] \in Token /\ States(t)[i + 1 + k] = Stuck
    BY <1>2
  <2> HIDE DEF m
  <2>2. States(t)[m] = Step(States(t)[m - 1], t[m])
    BY <2>1, StatesAre
  <2>3. States(t)[m] = Stuck
    BY <2>1, <2>2, StepStuck
  <2> QED
    BY <2>3 DEF m
<1>3. Nat \subseteq T
  <2> HIDE DEF T
  <2> QED
    BY <1>1, <1>2, NatSetInduction
<1> DEFINE d == j - (i + 1)
<1>4. d \in Nat /\ i + 1 + d = j /\ j <= Len(t)
  OBVIOUS
<1>5. d \in T
  BY <1>3, <1>4
<1> QED
  BY <1>4, <1>5

(* The tokens of t behind the first a, as far as b.                        *)
Part(t, a, b) == SubSeq(t, a + 1, b)

LEMMA PartIs ==
  ASSUME NEW t \in Seq(Token), NEW a \in Nat, NEW b \in Nat, a <= b, b <= Len(t)
  PROVE  /\ Part(t, a, b) \in Seq(Token) /\ Len(Part(t, a, b)) = b - a
         /\ \A i \in 1 .. b - a : Part(t, a, b)[i] = t[a + i]
<1>1. \A i \in a + 1 .. b : t[i] \in Token
  OBVIOUS
<1>2. /\ SubSeq(t, a + 1, b) \in Seq(Token)
      /\ Len(SubSeq(t, a + 1, b)) = IF a + 1 <= b THEN b - (a + 1) + 1 ELSE 0
      /\ \A i \in 1 .. b - (a + 1) + 1 : SubSeq(t, a + 1, b)[i] = t[a + 1 + i - 1]
  BY <1>1, ST!SubSeqProperties
<1>3. b - (a + 1) + 1 = b - a /\ \A i \in 1 .. b - a : a + 1 + i - 1 = a + i
  OBVIOUS
<1> QED
  BY <1>2, <1>3 DEF Part

LEMMA PartOne ==
  ASSUME NEW t \in Seq(Token), NEW a \in Nat, a < Len(t)
  PROVE  Part(t, a, a + 1) = <<t[a + 1]>> /\ t[a + 1] \in Token
<1> DEFINE b == a + 1
           p == Part(t, a, b)
<1>1. b \in Nat /\ a <= b /\ b <= Len(t) /\ b - a = 1 /\ b \in 1 .. Len(t) /\ a + 1 = b
  OBVIOUS
<1> HIDE DEF b
<1>2. p \in Seq(Token) /\ Len(p) = b - a /\ \A i \in 1 .. b - a : p[i] = t[a + i]
  BY <1>1, PartIs
<1> HIDE DEF p
<1>3. p \in Seq(Token) /\ Len(p) = 1 /\ p[1] = t[b]
  BY <1>1, <1>2
<1>4. t[b] \in Token
  BY <1>1
<1>5. p = <<t[b]>>
  BY <1>3, <1>4, ST!SeqEqual
<1> QED
  BY <1>4, <1>5 DEF b, p

LEMMA PartJoin ==
  ASSUME NEW t \in Seq(Token), NEW a \in Nat, NEW b \in Nat, NEW c \in Nat,
         a <= b, b <= c, c <= Len(t)
  PROVE  Part(t, a, c) = Part(t, a, b) \o Part(t, b, c)
<1> DEFINE u == Part(t, a, b)
           v == Part(t, b, c)
           w == Part(t, a, c)
<1>0. a <= c /\ b <= Len(t)
  OBVIOUS
<1>11. u \in Seq(Token) /\ Len(u) = b - a /\ \A i \in 1 .. b - a : u[i] = t[a + i]
  BY <1>0, PartIs
<1>12. v \in Seq(Token) /\ Len(v) = c - b /\ \A i \in 1 .. c - b : v[i] = t[b + i]
  BY <1>0, PartIs
<1>13. w \in Seq(Token) /\ Len(w) = c - a /\ \A i \in 1 .. c - a : w[i] = t[a + i]
  BY <1>0, PartIs
<1> HIDE DEF u, v, w
<1>20. (b - a) + (c - b) = c - a
  OBVIOUS
<1>21. /\ u \o v \in Seq(Token) /\ Len(u \o v) = Len(u) + Len(v)
       /\ \A i \in 1 .. Len(u) + Len(v) : (u \o v)[i] = IF i <= Len(u) THEN u[i] ELSE v[i - Len(u)]
  BY <1>11, <1>12, ST!ConcatProperties
<1>2. /\ u \o v \in Seq(Token) /\ Len(u \o v) = c - a
      /\ \A i \in 1 .. c - a : (u \o v)[i] = IF i <= b - a THEN u[i] ELSE v[i - (b - a)]
  BY <1>11, <1>12, <1>20, <1>21
<1>3. ASSUME NEW i \in 1 .. c - a PROVE (u \o v)[i] = w[i]
  <2>0. w[i] = t[a + i]
    BY <1>13
  <2>1. CASE i <= b - a
    <3>1. i \in 1 .. b - a
      BY <2>1
    <3> QED
      BY <1>11, <1>2, <2>0, <2>1, <3>1
  <2>2. CASE ~(i <= b - a)
    <3> DEFINE k == i - (b - a)
    <3>1. k \in 1 .. c - b /\ b + k = a + i
      BY <2>2
    <3>2. (u \o v)[i] = v[k]
      BY <1>2, <2>2
    <3> HIDE DEF k
    <3> QED
      BY <1>12, <2>0, <3>1, <3>2
  <2> QED
    BY <2>1, <2>2
<1>4. u \o v = w
  BY <1>13, <1>2, <1>3, ST!SeqEqual
<1> QED
  BY <1>4 DEF u, v, w

IsCut(t, a, c, u, v) == Part(t, a, c) = u \o v
LEMMA PartSplit ==
  ASSUME NEW t \in Seq(Token), NEW a \in Nat, NEW c \in Nat, a <= c, c <= Len(t),
         NEW u \in Seq(Token), NEW v \in Seq(Token), IsCut(t, a, c, u, v)
  PROVE  /\ Len(u) \in Nat /\ Len(v) \in Nat /\ Len(u) + Len(v) = c - a
         /\ u = Part(t, a, a + Len(u)) /\ v = Part(t, a + Len(u), c)
<1> DEFINE b == a + Len(u)
           w == Part(t, a, c)
           x == Part(t, a, b)
           y == Part(t, b, c)
<1>0. w = u \o v
  BY DEF IsCut
<1>1. w \in Seq(Token) /\ Len(w) = c - a /\ \A i \in 1 .. c - a : w[i] = t[a + i]
  BY PartIs
<1>2. /\ Len(u) \in Nat /\ Len(v) \in Nat /\ Len(w) = Len(u) + Len(v)
      /\ \A i \in 1 .. Len(u) + Len(v) : w[i] = IF i <= Len(u) THEN u[i] ELSE v[i - Len(u)]
  BY <1>0, ST!ConcatProperties
<1>3. b \in Nat /\ a <= b /\ b <= c /\ b - a = Len(u) /\ c - b = Len(v)
  BY <1>1, <1>2
<1> HIDE DEF b
<1>31. b <= Len(t)
  BY <1>3
<1>40. x \in Seq(Token) /\ Len(x) = Len(u) /\ \A i \in 1 .. Len(u) : x[i] = t[a + i]
  <2>1. x \in Seq(Token) /\ Len(x) = b - a /\ \A i \in 1 .. b - a : x[i] = t[a + i]
    BY <1>3, <1>31, PartIs
  <2> QED
    BY <1>3, <2>1
<1>41. y \in Seq(Token) /\ Len(y) = Len(v) /\ \A i \in 1 .. Len(v) : y[i] = t[b + i]
  <2>1. y \in Seq(Token) /\ Len(y) = c - b /\ \A i \in 1 .. c - b : y[i] = t[b + i]
    BY <1>3, PartIs
  <2> QED
    BY <1>3, <2>1
<1> HIDE DEF w, x, y
<1>5. ASSUME NEW i \in 1 .. Len(u) PROVE x[i] = u[i]
  <2>1. i \in 1 .. Len(u) + Len(v) /\ i <= Len(u) /\ i \in 1 .. c - a
    BY <1>1, <1>2
  <2>2. w[i] = u[i] /\ w[i] = t[a + i]
    BY <1>1, <1>2, <2>1
  <2> QED
    BY <1>40, <2>2
<1>6. ASSUME NEW i \in 1 .. Len(v) PROVE y[i] = v[i]
  <2> DEFINE k == Len(u) + i
  <2>1. k \in 1 .. Len(u) + Len(v) /\ ~(k <= Len(u)) /\ k - Len(u) = i /\ a + k = b + i
    BY <1>2 DEF b
  <2>2. k \in 1 .. c - a
    BY <1>1, <1>2, <2>1
  <2> HIDE DEF k
  <2>3. w[k] = v[i] /\ w[k] = t[a + k]
    BY <1>1, <1>2, <2>1, <2>2
  <2> QED
    BY <1>41, <2>1, <2>3
<1>7. x = u /\ y = v
  BY <1>2, <1>40, <1>41, <1>5, <1>6, ST!SeqEqual
<1> QED
  BY <1>1, <1>2, <1>7 DEF b, w, x, y

-----------------------------------------------------------------------------
(* The grammar's equation.                                                 *)

Member(v) == Between(<<"str", ":">>, v, << >>)
Value(g, n) ==
  IF n = 1 THEN {<<x>> : x \in Scalar}
  ELSE IF n = 2 THEN {<<"[", "]">>, <<"{", "}">>}
  ELSE IF n = 0 THEN {}
  ELSE Between(<<"[">>, g[n - 2].values, <<"]">>) \cup Between(<<"{">>, g[n - 2].members, <<"}">>)
Values(g, n) ==
  Value(g, n) \cup UNION {Joined(g[k].value, <<",">>, g[n - 1 - k].values) : k \in 1 .. n - 2}
Members(g, n) ==
  IF n < 3 THEN {}
  ELSE Member(g[n - 2].value) \cup
       UNION {Joined(Member(g[k].value), <<",">>, g[n - 3 - k].members) : k \in 1 .. n - 4}
Rule(g, n) == [value |-> Value(g, n), values |-> Values(g, n), members |-> Members(g, n)]

LEMMA RuleSame ==
  ASSUME NEW n \in Nat, NEW g, NEW h, \A j \in 0 .. n - 1 : g[j] = h[j]
  PROVE  Rule(g, n) = Rule(h, n)
<1>1. Value(g, n) = Value(h, n)
  <2>1. n \notin {0, 1, 2} => n - 2 \in 0 .. n - 1
    OBVIOUS
  <2>2. n \notin {0, 1, 2} => g[n - 2] = h[n - 2]
    BY <2>1
  <2> QED
    BY <2>2 DEF Value
<1>2. Values(g, n) = Values(h, n)
  <2> DEFINE P(k) == Joined(g[k].value, <<",">>, g[n - 1 - k].values)
             Q(k) == Joined(h[k].value, <<",">>, h[n - 1 - k].values)
  <2>1. ASSUME NEW k \in 1 .. n - 2 PROVE P(k) = Q(k)
    <3>1. k \in 0 .. n - 1 /\ n - 1 - k \in 0 .. n - 1
      OBVIOUS
    <3>2. g[k] = h[k] /\ g[n - 1 - k] = h[n - 1 - k]
      BY <3>1
    <3> QED
      BY <3>2
  <2>2. Values(g, n) = Value(g, n) \cup UNION {P(k) : k \in 1 .. n - 2}
    BY DEF Values
  <2>3. Values(h, n) = Value(h, n) \cup UNION {Q(k) : k \in 1 .. n - 2}
    BY DEF Values
  <2> HIDE DEF P, Q
  <2>4. {P(k) : k \in 1 .. n - 2} = {Q(k) : k \in 1 .. n - 2}
    BY <2>1
  <2> QED
    BY <1>1, <2>2, <2>3, <2>4
<1>3. Members(g, n) = Members(h, n)
  <2>0. CASE n < 3
    BY <2>0 DEF Members
  <2>00. CASE ~(n < 3)
    <3> DEFINE P(k) == Joined(Member(g[k].value), <<",">>, g[n - 3 - k].members)
               Q(k) == Joined(Member(h[k].value), <<",">>, h[n - 3 - k].members)
    <3>1. ASSUME NEW k \in 1 .. n - 4 PROVE P(k) = Q(k)
      <4>1. k \in 0 .. n - 1 /\ n - 3 - k \in 0 .. n - 1
        OBVIOUS
      <4>2. g[k] = h[k] /\ g[n - 3 - k] = h[n - 3 - k]
        BY <4>1
      <4> QED
        BY <4>2
    <3>2. Members(g, n) = Member(g[n - 2].value) \cup UNION {P(k) : k \in 1 .. n - 4}
      BY <2>00 DEF Members
    <3>3. Members(h, n) = Member(h[n - 2].value) \cup UNION {Q(k) : k \in 1 .. n - 4}
      BY <2>00 DEF Members
    <3> HIDE DEF P, Q
    <3>4. {P(k) : k \in 1 .. n - 4} = {Q(k) : k \in 1 .. n - 4}
      BY <3>1
    <3>5. n - 2 \in 0 .. n - 1
      BY <2>00
    <3>6. g[n - 2] = h[n - 2]
      BY <3>5
    <3> QED
      BY <3>2, <3>3, <3>4, <3>6
  <2> QED
    BY <2>0, <2>00
<1> QED
  BY <1>1, <1>2, <1>3 DEF Rule

LEMMA GrammarExists ==
  ASSUME NEW n \in Nat
  PROVE  \E g : g = [i \in 0 .. n |-> Rule(g, i)]
<1> DEFINE T == {m \in Nat : \E g : g = [i \in 0 .. m |-> Rule(g, i)]}
<1>1. 0 \in T
  <2> DEFINE z == [i \in 0 .. 0 |-> Rule(<< >>, 0)]
             y == [i \in 0 .. 0 |-> Rule(z, i)]
  <2>1. ASSUME NEW i \in 0 .. 0 PROVE z[i] = y[i]
    <3>1. \A j \in 0 .. 0 - 1 : z[j] = << >>[j]
      OBVIOUS
    <3> HIDE DEF z
    <3>2. Rule(z, 0) = Rule(<< >>, 0)
      BY <3>1, RuleSame
    <3> QED
      BY <3>2 DEF z
  <2>2. z = y
    BY <2>1
  <2> HIDE DEF z
  <2> QED
    BY <2>2
<1>2. ASSUME NEW m \in Nat, m \in T PROVE m + 1 \in T
  <2>1. PICK f : f = [i \in 0 .. m |-> Rule(f, i)]
    BY <1>2
  <2> DEFINE v == Rule(f, m + 1)
             g == [i \in 0 .. m + 1 |-> IF i = m + 1 THEN v ELSE f[i]]
             h == [i \in 0 .. m + 1 |-> Rule(g, i)]
  <2>2. \A i \in 0 .. m : f[i] = Rule(f, i)
    <3> DEFINE e == [i \in 0 .. m |-> Rule(f, i)]
    <3>1. \A i \in 0 .. m : e[i] = Rule(f, i)
      OBVIOUS
    <3>2. f = e
      BY <2>1
    <3> HIDE DEF e
    <3> QED
      BY <3>1, <3>2
  <2>3. \A i \in 0 .. m : g[i] = f[i]
    OBVIOUS
  <2>4. ASSUME NEW i \in 0 .. m + 1 PROVE g[i] = h[i]
    <3>1. \A j \in 0 .. i - 1 : f[j] = g[j]
      <4>1. 0 .. i - 1 \subseteq 0 .. m
        OBVIOUS
      <4> QED
        BY <2>3, <4>1
    <3>2. i \in Nat
      OBVIOUS
    <3>3. g[i] = Rule(f, i)
      <4>1. CASE i = m + 1
        BY <4>1
      <4>2. CASE i # m + 1
        BY <2>2, <4>2
      <4> QED
        BY <4>1, <4>2
    <3>4. h[i] = Rule(g, i)
      OBVIOUS
    <3> HIDE DEF g, h
    <3>5. Rule(f, i) = Rule(g, i)
      BY <3>1, <3>2, RuleSame
    <3> QED
      BY <3>3, <3>4, <3>5
  <2>5. g = h
    BY <2>4
  <2> HIDE DEF g
  <2> QED
    BY <2>5
<1>3. n \in T
  <2> HIDE DEF T
  <2> QED
    BY <1>1, <1>2, NatSetInduction
<1> QED
  BY <1>3

LEMMA GrammarIs ==
  ASSUME NEW n \in 0 .. TextMax
  PROVE  G[n] = Rule(G, n)
<1> DEFINE g == CHOOSE f : f = [i \in 0 .. TextMax |-> Rule(f, i)]
           e == [i \in 0 .. TextMax |-> Rule(g, i)]
<1>1. G = g
  BY DEF G, Rule, Value, Values, Members, Member
<1>2. \E f : f = [i \in 0 .. TextMax |-> Rule(f, i)]
  <2>1. TextMax \in Nat
    BY GrammarAssumption
  <2> QED
    BY <2>1, GrammarExists
<1>3. g = e
  BY <1>2, Zenon
<1>4. e[n] = Rule(g, n)
  OBVIOUS
<1> HIDE DEF g, e
<1> QED
  BY <1>1, <1>3, <1>4

Three(u, x, v) == u \o x \o v
LEMMA PartThree ==
  ASSUME NEW t \in Seq(Token), NEW a \in Nat, NEW i \in Nat, NEW j \in Nat, NEW c \in Nat,
         a <= i, i <= j, j <= c, c <= Len(t)
  PROVE  Part(t, a, c) = Three(Part(t, a, i), Part(t, i, j), Part(t, j, c))
<1>1. Part(t, a, c) = Part(t, a, j) \o Part(t, j, c)
  <2>1. a <= j
    OBVIOUS
  <2> QED
    BY <2>1, PartJoin
<1>2. Part(t, a, j) = Part(t, a, i) \o Part(t, i, j)
  <2>1. j <= Len(t)
    OBVIOUS
  <2> QED
    BY <2>1, PartJoin
<1> QED
  BY <1>1, <1>2 DEF Three

SplitAt(t, a, c, u, x, v) ==
  \E i, j \in a .. c :
    /\ i = a + Len(u) /\ j = i + Len(x) /\ c = j + Len(v)
    /\ u = Part(t, a, i) /\ x = Part(t, i, j) /\ v = Part(t, j, c)
LEMMA SplitThree ==
  ASSUME NEW t \in Seq(Token), NEW a \in Nat, NEW c \in Nat, a <= c, c <= Len(t),
         NEW u \in Seq(Token), NEW x \in Seq(Token), NEW v \in Seq(Token),
         Part(t, a, c) = Three(u, x, v)
  PROVE  SplitAt(t, a, c, u, x, v)
<1> DEFINE w == u \o x
           i == a + Len(u)
           j == a + Len(w)
<1>1. w \in Seq(Token) /\ Len(w) = Len(u) + Len(x) /\ Len(u) \in Nat /\ Len(x) \in Nat
  BY ST!ConcatProperties
<1>2. IsCut(t, a, c, w, v)
  BY DEF IsCut, Three
<1>3. /\ Len(w) \in Nat /\ Len(v) \in Nat /\ Len(w) + Len(v) = c - a
      /\ w = Part(t, a, a + Len(w)) /\ v = Part(t, a + Len(w), c)
  <2>1. w \in Seq(Token)
    BY <1>1
  <2> HIDE DEF w, i, j
  <2> QED
    BY <1>2, <2>1, PartSplit
<1>4. j \in Nat /\ a <= j /\ j <= Len(t)
  BY <1>3
<1>40. IsCut(t, a, j, u, x)
  BY <1>3 DEF IsCut
<1>5. /\ Len(u) + Len(x) = j - a
      /\ u = Part(t, a, a + Len(u)) /\ x = Part(t, a + Len(u), j)
  <2> HIDE DEF w, i, j
  <2> QED
    BY <1>4, <1>40, PartSplit
<1>6. i \in a .. c /\ j \in a .. c /\ j = i + Len(x) /\ c = j + Len(v)
  BY <1>1, <1>3
<1>7. u = Part(t, a, i) /\ x = Part(t, i, j) /\ v = Part(t, j, c)
  BY <1>3, <1>5
<1> HIDE DEF i, j
<1>8. i = a + Len(u)
  BY DEF i
<1> QED
  BY <1>6, <1>7, <1>8 DEF SplitAt

LEMMA PartTwo ==
  ASSUME NEW t \in Seq(Token), NEW a \in Nat, a + 2 <= Len(t)
  PROVE  Part(t, a, a + 2) = <<t[a + 1], t[a + 2]>> /\ t[a + 1] \in Token /\ t[a + 2] \in Token
<1> DEFINE b == a + 2
           p == Part(t, a, b)
<1>1. /\ b \in Nat /\ a <= b /\ b <= Len(t) /\ b - a = 2 /\ b \in 1 .. Len(t) /\ a + 2 = b
      /\ a + 1 \in 1 .. Len(t)
  OBVIOUS
<1> HIDE DEF b
<1>2. p \in Seq(Token) /\ Len(p) = b - a /\ \A i \in 1 .. b - a : p[i] = t[a + i]
  BY <1>1, PartIs
<1> HIDE DEF p
<1>3. p \in Seq(Token) /\ Len(p) = 2 /\ p[1] = t[a + 1] /\ p[2] = t[b]
  BY <1>1, <1>2
<1>4. t[b] \in Token /\ t[a + 1] \in Token
  BY <1>1
<1> DEFINE q == <<t[a + 1], t[b]>>
<1>5. q \in Seq(Token) /\ Len(q) = 2 /\ q[1] = t[a + 1] /\ q[2] = t[b]
  BY <1>4
<1> HIDE DEF q
<1>6. p = q
  BY <1>3, <1>5, ST!SeqEqual
<1> QED
  BY <1>4, <1>6 DEF b, p, q

-----------------------------------------------------------------------------
(* G[n] has sequences of n tokens.                                         *)

Sized(S, n) == \A x \in S : x \in Seq(Token) /\ Len(x) = n

LEMMA ThreeSized ==
  ASSUME NEW u \in Seq(Token), NEW x \in Seq(Token), NEW v \in Seq(Token)
  PROVE  u \o x \o v \in Seq(Token) /\ Len(u \o x \o v) = Len(u) + Len(x) + Len(v)
<1>1. u \o x \in Seq(Token) /\ Len(u \o x) = Len(u) + Len(x)
  BY ST!ConcatProperties
<1> QED
  BY <1>1, ST!ConcatProperties

Marks == {"[", "]", "{", "}", ",", ":", "str"}
LEMMA MarksAre ==
  /\ Marks \subseteq Token
  /\ \A x \in Marks : <<x>> \in Seq(Token) /\ Len(<<x>>) = 1
  /\ \A x, y \in Marks : <<x, y>> \in Seq(Token) /\ Len(<<x, y>>) = 2
  /\ << >> \in Seq(Token) /\ Len(<< >>) = 0
BY DEF Marks, Token, Scalar, Word, Number

LEMMA BetweenSized ==
  ASSUME NEW l \in Seq(Token), NEW r \in Seq(Token), NEW S, NEW n \in Nat, Sized(S, n)
  PROVE  Sized(Between(l, S, r), Len(l) + n + Len(r))
<1>1. ASSUME NEW x \in S
      PROVE  l \o x \o r \in Seq(Token) /\ Len(l \o x \o r) = Len(l) + n + Len(r)
  <2>1. x \in Seq(Token) /\ Len(x) = n
    BY DEF Sized
  <2> QED
    BY <2>1, ThreeSized
<1>2. \A z \in Between(l, S, r) : \E x \in S : z = l \o x \o r
  BY DEF Between
<1> QED
  BY <1>1, <1>2 DEF Sized

LEMMA JoinedSized ==
  ASSUME NEW S, NEW T, NEW m \in Nat, NEW n \in Nat, Sized(S, m), Sized(T, n)
  PROVE  Sized(Joined(S, <<",">>, T), m + 1 + n)
<1>1. <<",">> \in Seq(Token) /\ Len(<<",">>) = 1
  BY MarksAre DEF Marks
<1> DEFINE c == <<",">>
<1> HIDE DEF c
<1>2. \A x \in S, y \in T : x \o c \o y \in Seq(Token) /\ Len(x \o c \o y) = Len(x) + Len(c) + Len(y)
  <2> SUFFICES ASSUME NEW x \in S, NEW y \in T
               PROVE  x \o c \o y \in Seq(Token) /\ Len(x \o c \o y) = Len(x) + Len(c) + Len(y)
    OBVIOUS
  <2>1. x \in Seq(Token) /\ y \in Seq(Token) /\ c \in Seq(Token)
    BY <1>1 DEF Sized, c
  <2> QED
    BY <2>1, ThreeSized
<1>3. \A z \in Joined(S, c, T) : \E x \in S, y \in T : z = x \o c \o y
  BY DEF Joined
<1>4. Sized(Joined(S, c, T), m + 1 + n)
  BY <1>1, <1>2, <1>3 DEF Sized, c
<1> QED
  BY <1>4 DEF c

AllSized(n) == Sized(G[n].value, n) /\ Sized(G[n].values, n) /\ Sized(G[n].members, n)

LEMMA GrammarSized ==
  \A n \in 0 .. TextMax : AllSized(n)
<1> DEFINE T == {m \in Nat : \A n \in 0 .. TextMax : n < m => AllSized(n)}
<1>0. TextMax \in Nat
  BY GrammarAssumption
<1>1. 0 \in T
  OBVIOUS
<1>2. ASSUME NEW m \in Nat, m \in T PROVE m + 1 \in T
  <2> SUFFICES ASSUME m <= TextMax PROVE AllSized(m)
    BY <1>2
  <2>1. m \in 0 .. TextMax /\ \A k \in 0 .. m - 1 : AllSized(k)
    BY <1>0, <1>2
  <2>2. G[m] = Rule(G, m)
    BY <2>1, GrammarIs
  <2>3. G[m].value = Value(G, m) /\ G[m].values = Values(G, m) /\ G[m].members = Members(G, m)
    BY <2>2 DEF Rule
  <2>4. Sized(Value(G, m), m)
    <3>1. CASE m = 0
      BY <3>1 DEF Value, Sized
    <3>2. CASE m = 1
      <4>1. \A x \in Scalar : <<x>> \in Seq(Token) /\ Len(<<x>>) = 1
        <5>1. \A x \in Scalar : x \in Token
          BY DEF Token
        <5> QED
          BY <5>1
      <4>2. Value(G, m) = {<<x>> : x \in Scalar}
        BY <3>2 DEF Value
      <4>3. \A y \in Value(G, m) : \E x \in Scalar : y = <<x>>
        BY <4>2
      <4> QED
        BY <3>2, <4>1, <4>3 DEF Sized
    <3>3. CASE m = 2
      <4>1. Value(G, m) = {<<"[", "]">>, <<"{", "}">>}
        BY <3>3 DEF Value
      <4> QED
        BY <3>3, <4>1, MarksAre DEF Sized, Marks
    <3>4. CASE m \notin {0, 1, 2}
      <4>1. m - 2 \in 0 .. m - 1 /\ m - 2 \in Nat /\ 1 + (m - 2) + 1 = m
        BY <3>4
      <4>2. Sized(G[m - 2].values, m - 2) /\ Sized(G[m - 2].members, m - 2)
        BY <2>1, <4>1 DEF AllSized
      <4>3. /\ <<"[">> \in Seq(Token) /\ Len(<<"[">>) = 1 /\ <<"]">> \in Seq(Token) /\ Len(<<"]">>) = 1
            /\ <<"{">> \in Seq(Token) /\ Len(<<"{">>) = 1 /\ <<"}">> \in Seq(Token) /\ Len(<<"}">>) = 1
        BY MarksAre DEF Marks
      <4>4. Sized(Between(<<"[">>, G[m - 2].values, <<"]">>), Len(<<"[">>) + (m - 2) + Len(<<"]">>))
        BY <4>1, <4>2, <4>3, BetweenSized
      <4>5. Sized(Between(<<"{">>, G[m - 2].members, <<"}">>), Len(<<"{">>) + (m - 2) + Len(<<"}">>))
        BY <4>1, <4>2, <4>3, BetweenSized
      <4>6. Value(G, m) = Between(<<"[">>, G[m - 2].values, <<"]">>) \cup Between(<<"{">>, G[m - 2].members, <<"}">>)
        BY <3>4 DEF Value
      <4>7. Len(<<"[">>) + (m - 2) + Len(<<"]">>) = m /\ Len(<<"{">>) + (m - 2) + Len(<<"}">>) = m
        BY <4>1, <4>3
      <4>8. Sized(Between(<<"[">>, G[m - 2].values, <<"]">>), m) /\ Sized(Between(<<"{">>, G[m - 2].members, <<"}">>), m)
        BY <4>4, <4>5, <4>7
      <4> QED
        BY <4>6, <4>8 DEF Sized
    <3> QED
      BY <3>1, <3>2, <3>3, <3>4
  <2>5. Sized(Values(G, m), m)
    <3>1. ASSUME NEW k \in 1 .. m - 2
          PROVE  Sized(Joined(G[k].value, <<",">>, G[m - 1 - k].values), m)
      <4> DEFINE n == m - 1 - k
      <4>1. k \in Nat /\ k \in 0 .. m - 1 /\ n \in Nat /\ n \in 0 .. m - 1 /\ k + 1 + n = m
        OBVIOUS
      <4> HIDE DEF n
      <4>2. Sized(G[k].value, k) /\ Sized(G[n].values, n)
        BY <2>1, <4>1 DEF AllSized
      <4>3. Sized(Joined(G[k].value, <<",">>, G[n].values), k + 1 + n)
        BY <4>1, <4>2, JoinedSized
      <4> QED
        BY <4>1, <4>3 DEF n
    <3>2. \A x \in Values(G, m) : x \in Value(G, m)
            \/ \E k \in 1 .. m - 2 : x \in Joined(G[k].value, <<",">>, G[m - 1 - k].values)
      BY DEF Values
    <3> QED
      BY <2>4, <3>1, <3>2 DEF Sized
  <2>6. Sized(Members(G, m), m)
    <3>0. ASSUME NEW k \in Nat, Sized(G[k].value, k)
          PROVE  Sized(Member(G[k].value), k + 2)
      <4>1. /\ <<"str", ":">> \in Seq(Token) /\ Len(<<"str", ":">>) = 2
            /\ << >> \in Seq(Token) /\ Len(<< >>) = 0
        BY MarksAre DEF Marks
      <4>2. Sized(Between(<<"str", ":">>, G[k].value, << >>), Len(<<"str", ":">>) + k + Len(<< >>))
        BY <3>0, <4>1, BetweenSized
      <4>3. Len(<<"str", ":">>) + k + Len(<< >>) = k + 2
        BY <4>1
      <4> QED
        BY <4>2, <4>3 DEF Member
    <3>1. CASE m < 3
      BY <3>1 DEF Members, Sized
    <3>2. CASE ~(m < 3)
      <4>1. m - 2 \in Nat /\ m - 2 \in 0 .. m - 1 /\ (m - 2) + 2 = m
        BY <3>2
      <4>2. Sized(G[m - 2].value, m - 2)
        BY <2>1, <4>1 DEF AllSized
      <4>3. Sized(Member(G[m - 2].value), (m - 2) + 2)
        BY <3>0, <4>1, <4>2
      <4>4. ASSUME NEW k \in 1 .. m - 4
            PROVE  Sized(Joined(Member(G[k].value), <<",">>, G[m - 3 - k].members), m)
        <5> DEFINE n == m - 3 - k
                   l == k + 2
        <5>1. /\ k \in Nat /\ k \in 0 .. m - 1 /\ n \in Nat /\ n \in 0 .. m - 1
              /\ l \in Nat /\ l + 1 + n = m
          OBVIOUS
        <5>2. Sized(G[k].value, k) /\ Sized(G[n].members, n)
          <6> HIDE DEF n
          <6> QED
            BY <2>1, <5>1 DEF AllSized
        <5>3. Sized(Member(G[k].value), l)
          BY <3>0, <5>1, <5>2
        <5> HIDE DEF n, l
        <5>4. Sized(Joined(Member(G[k].value), <<",">>, G[n].members), l + 1 + n)
          BY <5>1, <5>2, <5>3, JoinedSized
        <5> QED
          BY <5>1, <5>4 DEF n
      <4>5. \A x \in Members(G, m) : x \in Member(G[m - 2].value)
              \/ \E k \in 1 .. m - 4 : x \in Joined(Member(G[k].value), <<",">>, G[m - 3 - k].members)
        BY <3>2 DEF Members
      <4> QED
        BY <4>1, <4>3, <4>4, <4>5 DEF Sized
    <3> QED
      BY <3>1, <3>2
  <2> QED
    BY <2>3, <2>4, <2>5, <2>6 DEF AllSized
<1>3. Nat \subseteq T
  <2> HIDE DEF T
  <2> QED
    BY <1>1, <1>2, NatSetInduction
<1>4. TextMax + 1 \in T
  BY <1>0, <1>3
<1> QED
  BY <1>0, <1>4

LEMMA BetweenIs ==
  ASSUME NEW l, NEW S, NEW r, NEW z
  PROVE  z \in Between(l, S, r) <=> \E x \in S : z = Three(l, x, r)
BY DEF Between, Three

LEMMA JoinedIs ==
  ASSUME NEW S, NEW d, NEW T, NEW z
  PROVE  z \in Joined(S, d, T) <=> \E x \in S, y \in T : z = Three(x, d, y)
<1>1. ASSUME z \in Joined(S, d, T) PROVE \E x \in S, y \in T : z = Three(x, d, y)
  BY <1>1 DEF Joined, Three
<1>2. ASSUME NEW x \in S, NEW y \in T, z = Three(x, d, y) PROVE z \in Joined(S, d, T)
  BY <1>2 DEF Joined, Three
<1> QED
  BY <1>1, <1>2

BetweenAt(t, a, i, j, c, l, S, r) ==
  Part(t, a, c) \in Between(l, S, r) <=>
    Part(t, a, i) = l /\ Part(t, i, j) \in S /\ Part(t, j, c) = r

LEMMA BetweenPart ==
  ASSUME NEW t \in Seq(Token), NEW a \in Nat, NEW i \in Nat, NEW j \in Nat, NEW c \in Nat,
         a <= i, i <= j, j <= c, c <= Len(t),
         NEW l \in Seq(Token), NEW r \in Seq(Token), i = a + Len(l), c = j + Len(r),
         NEW S, S \subseteq Seq(Token)
  PROVE  BetweenAt(t, a, i, j, c, l, S, r)
<1>1. ASSUME Part(t, a, i) = l, Part(t, i, j) \in S, Part(t, j, c) = r
      PROVE  Part(t, a, c) \in Between(l, S, r)
  <2>1. Part(t, a, c) = Three(Part(t, a, i), Part(t, i, j), Part(t, j, c))
    BY PartThree
  <2>2. Part(t, a, c) = Three(l, Part(t, i, j), r)
    BY <1>1, <2>1
  <2> QED
    BY <1>1, <2>2, BetweenIs
<1>2. ASSUME Part(t, a, c) \in Between(l, S, r)
      PROVE  Part(t, a, i) = l /\ Part(t, i, j) \in S /\ Part(t, j, c) = r
  <2>1. PICK x \in S : Part(t, a, c) = Three(l, x, r)
    BY <1>2, BetweenIs
  <2>2. a <= c /\ x \in Seq(Token)
    OBVIOUS
  <2>3. PICK ii, jj \in a .. c :
           /\ ii = a + Len(l) /\ jj = ii + Len(x) /\ c = jj + Len(r)
           /\ l = Part(t, a, ii) /\ x = Part(t, ii, jj) /\ r = Part(t, jj, c)
    <3>1. SplitAt(t, a, c, l, x, r)
      BY <2>1, <2>2, SplitThree
    <3> QED
      BY <3>1 DEF SplitAt
  <2>4. Len(r) \in Nat
    OBVIOUS
  <2>5. ii = i /\ jj = j
    BY <2>3, <2>4
  <2> QED
    BY <2>3, <2>5
<1> QED
  BY <1>1, <1>2 DEF BetweenAt

LEMMA JoinedPart ==
  ASSUME NEW t \in Seq(Token), NEW a \in Nat, NEW j \in Nat, NEW c \in Nat,
         a <= j, j < c, c <= Len(t),
         NEW S, NEW m \in Nat, Sized(S, m), j = a + m,
         NEW T, T \subseteq Seq(Token)
  PROVE  Part(t, a, c) \in Joined(S, <<",">>, T) <=>
           Part(t, a, j) \in S /\ t[j + 1] = "," /\ Part(t, j + 1, c) \in T
<1> DEFINE d == <<",">>
           k == j + 1
<1>0. d \in Seq(Token) /\ Len(d) = 1
  BY MarksAre DEF Marks
<1>1. k \in Nat /\ a <= j /\ j <= k /\ k <= c /\ j < Len(t)
  OBVIOUS
<1>2. Part(t, j, k) = <<t[k]>>
  BY <1>1, PartOne
<1>3. (<<t[k]>> = d) <=> (t[k] = ",")
  OBVIOUS
<1> HIDE DEF d, k
<1>4. ASSUME Part(t, a, j) \in S, Part(t, j, k) = d, Part(t, k, c) \in T
      PROVE  Part(t, a, c) \in Joined(S, d, T)
  <2>1. Part(t, a, c) = Three(Part(t, a, j), Part(t, j, k), Part(t, k, c))
    BY <1>1, PartThree
  <2>2. Part(t, a, c) = Three(Part(t, a, j), d, Part(t, k, c))
    BY <1>4, <2>1
  <2> QED
    BY <1>4, <2>2, JoinedIs
<1>5. ASSUME Part(t, a, c) \in Joined(S, d, T)
      PROVE  Part(t, a, j) \in S /\ Part(t, j, k) = d /\ Part(t, k, c) \in T
  <2>1. PICK x \in S, y \in T : Part(t, a, c) = Three(x, d, y)
    BY <1>5, JoinedIs
  <2>2. a <= c /\ x \in Seq(Token) /\ Len(x) = m /\ y \in Seq(Token)
    BY DEF Sized
  <2>3. PICK ii, jj \in a .. c :
           /\ ii = a + Len(x) /\ jj = ii + Len(d) /\ c = jj + Len(y)
           /\ x = Part(t, a, ii) /\ d = Part(t, ii, jj) /\ y = Part(t, jj, c)
    <3>1. SplitAt(t, a, c, x, d, y)
      BY <1>0, <2>1, <2>2, SplitThree
    <3> QED
      BY <3>1 DEF SplitAt
  <2>5. ii = j /\ jj = k
    BY <1>0, <2>2, <2>3 DEF k
  <2> QED
    BY <2>3, <2>5
<1>6. Part(t, a, c) \in Joined(S, d, T) <=>
           Part(t, a, j) \in S /\ t[k] = "," /\ Part(t, k, c) \in T
  BY <1>2, <1>3, <1>4, <1>5
<1> QED
  BY <1>6 DEF d, k

-----------------------------------------------------------------------------
(* What the grammar says of the tokens of t behind the first a, as far as b. *)

Within(t, a, b) == a \in Nat /\ b \in Nat /\ a < b /\ b <= Len(t) /\ b - a <= TextMax
IsValue(t, a, b) == Part(t, a, b) \in G[b - a].value
IsValues(t, a, b) == Part(t, a, b) \in G[b - a].values
IsMembers(t, a, b) == Part(t, a, b) \in G[b - a].members

LEMMA SizedSeq ==
  ASSUME NEW n \in 0 .. TextMax
  PROVE  /\ G[n].value \subseteq Seq(Token) /\ G[n].values \subseteq Seq(Token)
         /\ G[n].members \subseteq Seq(Token)
         /\ Sized(G[n].value, n) /\ Sized(G[n].values, n) /\ Sized(G[n].members, n)
BY GrammarSized DEF AllSized, Sized

LEMMA BracketIs ==
  ASSUME NEW t \in Seq(Token), NEW a \in Nat, NEW b \in Nat, Within(t, a, b), b > a + 2,
         NEW x \in Marks, NEW y \in Marks, NEW S, S \subseteq Seq(Token)
  PROVE  Part(t, a, b) \in Between(<<x>>, S, <<y>>) <=>
           t[a + 1] = x /\ t[b] = y /\ Part(t, a + 1, b - 1) \in S
<1> DEFINE l == <<x>>
           r == <<y>>
           i == a + 1
           j == b - 1
<1>1. l \in Seq(Token) /\ Len(l) = 1 /\ r \in Seq(Token) /\ Len(r) = 1
  BY MarksAre
<1>2. /\ i \in Nat /\ j \in Nat /\ a <= i /\ i <= j /\ j <= b /\ b <= Len(t)
  BY DEF Within
<1>21. i = a + 1 /\ b = j + 1 /\ a < Len(t) /\ j < Len(t)
  BY DEF Within
<1>3. Part(t, a, i) = <<t[i]>>
  BY <1>21, PartOne
<1>4. Part(t, j, b) = <<t[b]>>
  <2>1. Part(t, j, j + 1) = <<t[j + 1]>>
    <3> HIDE DEF j
    <3> QED
      BY <1>2, <1>21, PartOne
  <2> QED
    BY <1>21, <2>1
<1>5. (Part(t, a, i) = l <=> t[i] = x) /\ (Part(t, j, b) = r <=> t[b] = y)
  BY <1>3, <1>4
<1> HIDE DEF l, r, i, j
<1>6. i = a + Len(l) /\ b = j + Len(r)
  BY <1>1, <1>21
<1>7. Part(t, a, b) \in Between(l, S, r) <=>
           Part(t, a, i) = l /\ Part(t, i, j) \in S /\ Part(t, j, b) = r
  <2>1. BetweenAt(t, a, i, j, b, l, S, r)
    BY <1>1, <1>2, <1>6, BetweenPart
  <2> QED
    BY <2>1 DEF BetweenAt
<1>8. Part(t, a, b) \in Between(l, S, r) <=> t[i] = x /\ t[b] = y /\ Part(t, i, j) \in S
  BY <1>5, <1>7
<1> QED
  BY <1>8 DEF l, r, i, j

LEMMA ValueFor ==
  ASSUME NEW g, NEW n \in Nat
  PROVE  /\ n = 0 => Value(g, n) = {}
         /\ n = 1 => Value(g, n) = {<<x>> : x \in Scalar}
         /\ n = 2 => Value(g, n) = {<<"[", "]">>, <<"{", "}">>}
         /\ n > 2 => Value(g, n) = Between(<<"[">>, g[n - 2].values, <<"]">>) \cup
                                   Between(<<"{">>, g[n - 2].members, <<"}">>)
<1>1. n > 2 => n # 0 /\ n # 1 /\ n # 2
  OBVIOUS
<1> DEFINE A == {<<x>> : x \in Scalar}
           B == {<<"[", "]">>, <<"{", "}">>}
           C == Between(<<"[">>, g[n - 2].values, <<"]">>) \cup Between(<<"{">>, g[n - 2].members, <<"}">>)
<1>2. Value(g, n) = IF n = 1 THEN A ELSE IF n = 2 THEN B ELSE IF n = 0 THEN {} ELSE C
  BY DEF Value
<1> HIDE DEF A, B, C
<1>3. /\ n = 0 => Value(g, n) = {}
      /\ n = 1 => Value(g, n) = A
      /\ n = 2 => Value(g, n) = B
      /\ n > 2 => Value(g, n) = C
  BY <1>1, <1>2
<1> QED
  BY <1>3 DEF A, B, C

LEMMA RuleAt ==
  ASSUME NEW n \in 0 .. TextMax
  PROVE  G[n].value = Value(G, n) /\ G[n].values = Values(G, n) /\ G[n].members = Members(G, n)
<1>1. G[n] = Rule(G, n)
  BY GrammarIs
<1> QED
  BY <1>1 DEF Rule

(* A container that is not empty.                                          *)
PairAt(t, a, b, m) ==
  /\ Part(t, a, b) \in Between(<<"[">>, G[m].values, <<"]">>) <=>
       t[a + 1] = "[" /\ t[b] = "]" /\ IsValues(t, a + 1, b - 1)
  /\ Part(t, a, b) \in Between(<<"{">>, G[m].members, <<"}">>) <=>
       t[a + 1] = "{" /\ t[b] = "}" /\ IsMembers(t, a + 1, b - 1)

LEMMA PairRule ==
  ASSUME NEW t \in Seq(Token), NEW a \in Nat, NEW b \in Nat, Within(t, a, b), b > a + 2,
         NEW m, m = (b - 1) - (a + 1)
  PROVE  PairAt(t, a, b, m)
<1>1. m \in 0 .. TextMax
  BY GrammarAssumption DEF Within
<1>2. G[m].values \subseteq Seq(Token) /\ G[m].members \subseteq Seq(Token)
  BY <1>1, SizedSeq
<1>3. "[" \in Marks /\ "]" \in Marks /\ "{" \in Marks /\ "}" \in Marks
  BY DEF Marks
<1> DEFINE A == G[m].values
           B == G[m].members
<1>4. /\ Part(t, a + 1, b - 1) \in A <=> IsValues(t, a + 1, b - 1)
      /\ Part(t, a + 1, b - 1) \in B <=> IsMembers(t, a + 1, b - 1)
  BY DEF IsValues, IsMembers
<1>5. A \subseteq Seq(Token) /\ B \subseteq Seq(Token)
  BY <1>2
<1> HIDE DEF A, B
<1>6. Part(t, a, b) \in Between(<<"[">>, A, <<"]">>) <=>
          t[a + 1] = "[" /\ t[b] = "]" /\ Part(t, a + 1, b - 1) \in A
  BY <1>3, <1>5, BracketIs
<1>7. Part(t, a, b) \in Between(<<"{">>, B, <<"}">>) <=>
          t[a + 1] = "{" /\ t[b] = "}" /\ Part(t, a + 1, b - 1) \in B
  BY <1>3, <1>5, BracketIs
<1> DEFINE C == Between(<<"[">>, A, <<"]">>)
           D == Between(<<"{">>, B, <<"}">>)
<1>8. /\ Part(t, a, b) \in C <=> t[a + 1] = "[" /\ t[b] = "]" /\ IsValues(t, a + 1, b - 1)
      /\ Part(t, a, b) \in D <=> t[a + 1] = "{" /\ t[b] = "}" /\ IsMembers(t, a + 1, b - 1)
  BY <1>4, <1>6, <1>7
<1> QED
  BY <1>8 DEF A, B, PairAt

LEMMA ValueIs ==
  ASSUME NEW t \in Seq(Token), NEW a \in Nat, NEW b \in Nat, Within(t, a, b)
  PROVE  IsValue(t, a, b) <=>
           \/ b = a + 1 /\ t[a + 1] \in Scalar
           \/ b = a + 2 /\ t[a + 1] = "[" /\ t[a + 2] = "]"
           \/ b = a + 2 /\ t[a + 1] = "{" /\ t[a + 2] = "}"
           \/ b > a + 2 /\ t[a + 1] = "[" /\ t[b] = "]" /\ IsValues(t, a + 1, b - 1)
           \/ b > a + 2 /\ t[a + 1] = "{" /\ t[b] = "}" /\ IsMembers(t, a + 1, b - 1)
<1> DEFINE n == b - a
           p == Part(t, a, b)
<1>0. n \in 0 .. TextMax /\ n \in Nat /\ n # 0 /\ (n = 1 <=> b = a + 1) /\ (n = 2 <=> b = a + 2) /\ (n > 2 <=> b > a + 2)
  BY GrammarAssumption DEF Within
<1>00. n = 1 \/ n = 2 \/ n > 2
  BY <1>0
<1>01. n - 2 = (b - 1) - (a + 1)
  OBVIOUS
<1> DEFINE V == G[n].value
<1>1. IsValue(t, a, b) <=> p \in V
  BY DEF IsValue
<1> HIDE DEF n
<1>2. V = Value(G, n)
  BY <1>0, RuleAt
<1> HIDE DEF V
<1>3. CASE n = 1
  <2>1. p = <<t[a + 1]>>
    BY <1>0, <1>3, PartOne DEF Within
  <2>2. V = {<<x>> : x \in Scalar}
    BY <1>0, <1>2, <1>3, ValueFor
  <2>3. <<t[a + 1]>> \in {<<x>> : x \in Scalar} <=> t[a + 1] \in Scalar
    OBVIOUS
  <2> HIDE DEF p
  <2>4. ~(b = a + 2) /\ ~(b > a + 2) /\ b = a + 1
    BY <1>0, <1>3
  <2> QED
    BY <1>1, <2>1, <2>2, <2>3, <2>4, Zenon
<1>4. CASE n = 2
  <2>1. p = <<t[a + 1], t[a + 2]>>
    BY <1>0, <1>4, PartTwo DEF Within
  <2>2. V = {<<"[", "]">>, <<"{", "}">>}
    BY <1>0, <1>2, <1>4, ValueFor
  <2>3. <<t[a + 1], t[a + 2]>> \in {<<"[", "]">>, <<"{", "}">>} <=>
          (t[a + 1] = "[" /\ t[a + 2] = "]") \/ (t[a + 1] = "{" /\ t[a + 2] = "}")
    OBVIOUS
  <2> HIDE DEF p
  <2>4. ~(b = a + 1) /\ ~(b > a + 2) /\ b = a + 2
    BY <1>0, <1>4
  <2> QED
    BY <1>1, <2>1, <2>2, <2>3, <2>4, Zenon
<1>5. CASE n > 2
  <2>1. b > a + 2
    BY <1>0, <1>5
  <2> DEFINE m == n - 2
             C == Between(<<"[">>, G[m].values, <<"]">>)
             D == Between(<<"{">>, G[m].members, <<"}">>)
  <2>2. V = C \cup D
    BY <1>0, <1>2, <1>5, ValueFor
  <2>3. m = (b - 1) - (a + 1)
    BY <1>01
  <2> HIDE DEF m
  <2>4. /\ p \in C <=> t[a + 1] = "[" /\ t[b] = "]" /\ IsValues(t, a + 1, b - 1)
        /\ p \in D <=> t[a + 1] = "{" /\ t[b] = "}" /\ IsMembers(t, a + 1, b - 1)
    <3>1. PairAt(t, a, b, m)
      BY <2>1, <2>3, PairRule
    <3> QED
      BY <3>1 DEF PairAt
  <2> HIDE DEF C, D, p
  <2>5. ~(b = a + 1) /\ ~(b = a + 2)
    BY <2>1
  <2>6. p \in V <=> p \in C \/ p \in D
    BY <2>2
  <2> QED
    BY <1>1, <2>1, <2>4, <2>5, <2>6, Zenon
<1> QED
  BY <1>00, <1>3, <1>4, <1>5

JoinedCut(t, a, j, c, S, T) ==
  Part(t, a, c) \in Joined(S, <<",">>, T) <=>
    Part(t, a, j) \in S /\ t[j + 1] = "," /\ Part(t, j + 1, c) \in T

LEMMA JoinedPartAt ==
  ASSUME NEW t \in Seq(Token), NEW a \in Nat, NEW j \in Nat, NEW c \in Nat,
         a <= j, j < c, c <= Len(t),
         NEW S, NEW m \in Nat, Sized(S, m), j = a + m,
         NEW T, T \subseteq Seq(Token)
  PROVE  JoinedCut(t, a, j, c, S, T)
BY JoinedPart DEF JoinedCut

(* The rest of a list behind its first element and the comma.              *)
MoreValues(t, a, j, b) == IsValue(t, a, j) /\ t[j + 1] = "," /\ IsValues(t, j + 1, b)

ValuesRest(t, a, b, k) ==
  Part(t, a, b) \in Joined(G[k].value, <<",">>, G[(b - a) - 1 - k].values) <=>
    MoreValues(t, a, a + k, b)
LEMMA MoreValuesIs ==
  ASSUME NEW t \in Seq(Token), NEW a \in Nat, NEW b \in Nat, Within(t, a, b),
         NEW k \in Nat, k >= 1, k <= (b - a) - 2
  PROVE  ValuesRest(t, a, b, k)
<1> DEFINE j == a + k
           m == (b - a) - 1 - k
           S == G[k].value
           T == G[m].values
<1>1. /\ j \in Nat /\ a <= j /\ j < b /\ b <= Len(t) /\ j = a + k
      /\ k \in 0 .. TextMax /\ m \in 0 .. TextMax /\ j - a = k /\ b - (j + 1) = m
  BY GrammarAssumption DEF Within
<1>2. MoreValues(t, a, j, b) <=> Part(t, a, j) \in S /\ t[j + 1] = "," /\ Part(t, j + 1, b) \in T
  BY <1>1 DEF MoreValues, IsValue, IsValues
<1>3. Sized(S, k)
  BY <1>1, SizedSeq
<1> HIDE DEF m
<1>4. T \subseteq Seq(Token)
  BY <1>1, SizedSeq
<1> HIDE DEF j, S, T
<1>5. JoinedCut(t, a, j, b, S, T)
  BY <1>1, <1>3, <1>4, JoinedPartAt
<1>6. Part(t, a, b) \in Joined(S, <<",">>, T) <=> MoreValues(t, a, j, b)
  BY <1>2, <1>5 DEF JoinedCut
<1> QED
  BY <1>6 DEF j, S, T, m, ValuesRest

LEMMA ValuesIs ==
  ASSUME NEW t \in Seq(Token), NEW a \in Nat, NEW b \in Nat, Within(t, a, b)
  PROVE  IsValues(t, a, b) <=>
           IsValue(t, a, b) \/ \E j \in a + 1 .. b - 2 : MoreValues(t, a, j, b)
<1> DEFINE n == b - a
           p == Part(t, a, b)
           L(k) == Joined(G[k].value, <<",">>, G[n - 1 - k].values)
<1>0. n \in 0 .. TextMax
  BY GrammarAssumption DEF Within
<1>1. /\ IsValues(t, a, b) <=> p \in G[n].values
      /\ IsValue(t, a, b) <=> p \in G[n].value
  BY DEF IsValues, IsValue
<1>2. ASSUME NEW k \in 1 .. n - 2
      PROVE  p \in L(k) <=> MoreValues(t, a, a + k, b)
  <2>1. k \in Nat /\ k >= 1 /\ k <= (b - a) - 2
    OBVIOUS
  <2>2. ValuesRest(t, a, b, k)
    BY <2>1, MoreValuesIs
  <2> QED
    BY <2>2 DEF ValuesRest
<1>3. \A k \in 1 .. n - 2 : a + k \in a + 1 .. b - 2
  OBVIOUS
<1>4. \A j \in a + 1 .. b - 2 : j - a \in 1 .. n - 2 /\ a + (j - a) = j
  OBVIOUS
<1>5. Values(G, n) = Value(G, n) \cup UNION {L(k) : k \in 1 .. n - 2}
  BY DEF Values
<1> HIDE DEF n, L, p
<1>6. G[n].value = Value(G, n) /\ G[n].values = Values(G, n)
  BY <1>0, RuleAt
<1>7. p \in Values(G, n) <=> p \in Value(G, n) \/ \E k \in 1 .. n - 2 : p \in L(k)
  BY <1>5
<1>8. (\E k \in 1 .. n - 2 : p \in L(k)) <=> \E j \in a + 1 .. b - 2 : MoreValues(t, a, j, b)
  <2>1. ASSUME NEW k \in 1 .. n - 2, p \in L(k)
        PROVE  \E j \in a + 1 .. b - 2 : MoreValues(t, a, j, b)
    BY <2>1, <1>2, <1>3
  <2>2. ASSUME NEW j \in a + 1 .. b - 2, MoreValues(t, a, j, b)
        PROVE  \E k \in 1 .. n - 2 : p \in L(k)
    <3>1. j - a \in 1 .. n - 2 /\ a + (j - a) = j
      BY <1>4
    <3>2. p \in L(j - a) <=> MoreValues(t, a, a + (j - a), b)
      BY <1>2, <3>1
    <3> QED
      BY <2>2, <3>1, <3>2
  <2> QED
    BY <2>1, <2>2
<1> QED
  BY <1>1, <1>6, <1>7, <1>8

-----------------------------------------------------------------------------
(* A name, a colon and a value.                                            *)
Name(t, a) == t[a + 1] = "str" /\ t[a + 2] = ":"

MemberAt(t, a, b, n) == Part(t, a, b) \in Member(G[n].value) <=> Name(t, a) /\ IsValue(t, a + 2, b)
LEMMA MemberIs ==
  ASSUME NEW t \in Seq(Token), NEW a \in Nat, NEW b \in Nat, b <= Len(t), a + 3 <= b,
         NEW n, n = b - (a + 2), n <= TextMax
  PROVE  /\ MemberAt(t, a, b, n)
         /\ Sized(Member(G[n].value), n + 2)
<1> DEFINE l == <<"str", ":">>
           r == << >>
           i == a + 2
           S == G[n].value
<1>0. n \in 0 .. TextMax /\ n \in Nat
  BY GrammarAssumption
<1>1. l \in Seq(Token) /\ Len(l) = 2 /\ r \in Seq(Token) /\ Len(r) = 0
  BY MarksAre DEF Marks
<1>2. i \in Nat /\ a <= i /\ i <= b /\ b <= b
  OBVIOUS
<1>3. Part(t, a, i) = <<t[a + 1], t[i]>>
  BY PartTwo
<1>4. (<<t[a + 1], t[i]>> = l) <=> Name(t, a)
  BY DEF Name
<1>5. Part(t, b, b) = r
  <2>1. b <= b /\ b - b = 0
    OBVIOUS
  <2>2. Part(t, b, b) \in Seq(Token) /\ Len(Part(t, b, b)) = 0
    BY <2>1, PartIs
  <2> QED
    BY <2>2
<1>6. S \subseteq Seq(Token) /\ Sized(S, n)
  BY <1>0, SizedSeq
<1>7. Part(t, i, b) \in S <=> IsValue(t, i, b)
  BY DEF IsValue
<1>8. Member(S) = Between(l, S, r)
  BY DEF Member
<1>81. i = a + 2
  OBVIOUS
<1> HIDE DEF l, r, i, S
<1>9. i = a + Len(l) /\ b = b + Len(r)
  BY <1>1, <1>81
<1>10. BetweenAt(t, a, i, b, b, l, S, r)
  BY <1>1, <1>2, <1>6, <1>9, BetweenPart
<1>11. Part(t, a, b) \in Member(S) <=> Name(t, a) /\ IsValue(t, i, b)
  BY <1>10, <1>3, <1>4, <1>5, <1>7, <1>8 DEF BetweenAt
<1>12. Sized(Member(S), n + 2)
  <2>1. Sized(Between(l, S, r), Len(l) + n + Len(r))
    BY <1>0, <1>1, <1>6, BetweenSized
  <2>2. Len(l) + n + Len(r) = n + 2
    BY <1>0, <1>1
  <2> QED
    BY <2>1, <2>2, <1>8
<1> QED
  BY <1>11, <1>12 DEF i, S, MemberAt

MoreMembers(t, a, j, b) == IsValue(t, a + 2, j) /\ t[j + 1] = "," /\ IsMembers(t, j + 1, b)

MembersRest(t, a, b, k) ==
  Part(t, a, b) \in Joined(Member(G[k].value), <<",">>, G[(b - a) - 3 - k].members) <=>
    Name(t, a) /\ MoreMembers(t, a, a + 2 + k, b)
LEMMA MoreMembersIs ==
  ASSUME NEW t \in Seq(Token), NEW a \in Nat, NEW b \in Nat, Within(t, a, b),
         NEW k \in Nat, k >= 1, k <= (b - a) - 4
  PROVE  MembersRest(t, a, b, k)
<1> DEFINE j == a + 2 + k
           m == (b - a) - 3 - k
           q == k + 2
           S == Member(G[k].value)
           T == G[m].members
<1>1. /\ j \in Nat /\ a <= j /\ j < b /\ b <= Len(t) /\ j = a + q /\ q \in Nat
      /\ k \in 0 .. TextMax /\ m \in 0 .. TextMax /\ k <= TextMax
  BY GrammarAssumption DEF Within
<1>11. k = j - (a + 2) /\ b - (j + 1) = m /\ a + 3 <= j /\ j <= Len(t)
  BY <1>1
<1>2. MoreMembers(t, a, j, b) <=> IsValue(t, a + 2, j) /\ t[j + 1] = "," /\ Part(t, j + 1, b) \in T
  BY <1>11 DEF MoreMembers, IsMembers
<1>12. q = k + 2
  OBVIOUS
<1> HIDE DEF j, q
<1>3. Sized(S, k + 2) /\ MemberAt(t, a, j, k)
  BY <1>1, <1>11, MemberIs
<1>31. Sized(S, q)
  BY <1>3, <1>12
<1> HIDE DEF m
<1>4. T \subseteq Seq(Token)
  BY <1>1, SizedSeq
<1> HIDE DEF T
<1>41. Part(t, a, j) \in S <=> Name(t, a) /\ IsValue(t, a + 2, j)
  BY <1>3 DEF MemberAt
<1> HIDE DEF S
<1>5. JoinedCut(t, a, j, b, S, T)
  BY <1>1, <1>31, <1>4, JoinedPartAt
<1>6. Part(t, a, b) \in Joined(S, <<",">>, T) <=> Name(t, a) /\ MoreMembers(t, a, j, b)
  BY <1>2, <1>41, <1>5 DEF JoinedCut
<1> QED
  BY <1>6 DEF j, S, T, m, MembersRest

LEMMA MembersIs ==
  ASSUME NEW t \in Seq(Token), NEW a \in Nat, NEW b \in Nat, Within(t, a, b)
  PROVE  IsMembers(t, a, b) <=>
           /\ a + 3 <= b /\ Name(t, a)
           /\ IsValue(t, a + 2, b) \/ \E j \in a + 3 .. b - 2 : MoreMembers(t, a, j, b)
<1> DEFINE n == b - a
           p == Part(t, a, b)
           M == Member(G[n - 2].value)
           L(k) == Joined(Member(G[k].value), <<",">>, G[n - 3 - k].members)
<1>0. n \in 0 .. TextMax /\ (n < 3 <=> ~(a + 3 <= b)) /\ n - 2 = b - (a + 2) /\ n - 2 <= TextMax
  BY GrammarAssumption DEF Within
<1>1. IsMembers(t, a, b) <=> p \in G[n].members
  BY DEF IsMembers
<1>2. ASSUME NEW k \in 1 .. n - 4
      PROVE  p \in L(k) <=> Name(t, a) /\ MoreMembers(t, a, a + 2 + k, b)
  <2>1. k \in Nat /\ k >= 1 /\ k <= (b - a) - 4
    OBVIOUS
  <2>2. MembersRest(t, a, b, k)
    BY <2>1, MoreMembersIs
  <2> QED
    BY <2>2 DEF MembersRest
<1>3. \A k \in 1 .. n - 4 : a + 2 + k \in a + 3 .. b - 2
  OBVIOUS
<1>4. \A j \in a + 3 .. b - 2 : j - (a + 2) \in 1 .. n - 4 /\ a + 2 + (j - (a + 2)) = j
  OBVIOUS
<1>50. CASE n < 3
  <2> HIDE DEF n
  <2>1. G[n].members = Members(G, n)
    BY <1>0, RuleAt
  <2>2. Members(G, n) = {}
    BY <1>50 DEF Members
  <2> QED
    BY <1>0, <1>1, <1>50, <2>1, <2>2
<1>51. CASE ~(n < 3)
  <2>1. a + 3 <= b /\ b <= Len(t)
    BY <1>0, <1>51 DEF Within
  <2>2. p \in M <=> Name(t, a) /\ IsValue(t, a + 2, b)
    <3> DEFINE o == n - 2
    <3>1. o = b - (a + 2) /\ o <= TextMax
      BY <1>0
    <3> HIDE DEF o
    <3>2. MemberAt(t, a, b, o)
      BY <2>1, <3>1, MemberIs
    <3> QED
      BY <3>2 DEF MemberAt, o
  <2>3. Members(G, n) = M \cup UNION {L(k) : k \in 1 .. n - 4}
    BY <1>51 DEF Members
  <2> HIDE DEF n, L, p, M
  <2>6. G[n].members = Members(G, n)
    BY <1>0, RuleAt
  <2>7. p \in Members(G, n) <=> p \in M \/ \E k \in 1 .. n - 4 : p \in L(k)
    BY <2>3
  <2>8. (\E k \in 1 .. n - 4 : p \in L(k)) <=>
          Name(t, a) /\ \E j \in a + 3 .. b - 2 : MoreMembers(t, a, j, b)
    <3>1. ASSUME NEW k \in 1 .. n - 4, p \in L(k)
          PROVE  Name(t, a) /\ \E j \in a + 3 .. b - 2 : MoreMembers(t, a, j, b)
      BY <3>1, <1>2, <1>3
    <3>2. ASSUME NEW j \in a + 3 .. b - 2, MoreMembers(t, a, j, b), Name(t, a)
          PROVE  \E k \in 1 .. n - 4 : p \in L(k)
      <4>1. j - (a + 2) \in 1 .. n - 4 /\ a + 2 + (j - (a + 2)) = j
        BY <1>4
      <4> DEFINE k == j - (a + 2)
      <4>2. p \in L(k) <=> Name(t, a) /\ MoreMembers(t, a, a + 2 + k, b)
        BY <1>2, <4>1
      <4> QED
        BY <3>2, <4>1, <4>2
    <3> QED
      BY <3>1, <3>2
  <2> QED
    BY <1>1, <2>1, <2>2, <2>6, <2>7, <2>8
<1> QED
  BY <1>50, <1>51

(* One token of the reader.                                                *)

LEMMA AppendKind ==
  ASSUME NEW in \in Seq(Kinds), NEW k \in Kinds
  PROVE  /\ Append(in, k) \in Seq(Kinds) /\ Append(in, k) # << >> /\ Len(Append(in, k)) = Len(in) + 1
         /\ Last(Append(in, k)) = k /\ Front(Append(in, k)) = in
<1> DEFINE s == Append(in, k)
           n == Len(in)
<1>1. n \in Nat /\ s \in Seq(Kinds) /\ Len(s) = n + 1 /\ s[n + 1] = k /\ \A i \in 1 .. n : s[i] = in[i]
  OBVIOUS
<1> HIDE DEF s
<1>2. s # << >>
  BY <1>1
<1>3. /\ SubSeq(s, 1, n) \in Seq(Kinds)
      /\ Len(SubSeq(s, 1, n)) = IF 1 <= n THEN n - 1 + 1 ELSE 0
      /\ \A i \in 1 .. n - 1 + 1 : SubSeq(s, 1, n)[i] = s[1 + i - 1]
  <2>1. \A i \in 1 .. n : s[i] \in Kinds
    BY <1>1
  <2> QED
    BY <1>1, <2>1, ST!SubSeqProperties
<1> DEFINE u == SubSeq(s, 1, n)
<1> HIDE DEF u
<1>4. u \in Seq(Kinds) /\ Len(u) = n /\ \A i \in 1 .. n : u[i] = in[i]
  <2>1. \A i \in 1 .. n : 1 + i - 1 = i /\ i \in 1 .. n - 1 + 1
    BY <1>1
  <2> QED
    BY <1>1, <1>3, <2>1 DEF u
<1>5. u = in
  BY <1>4, ST!SeqEqual
<1>6. Front(s) = in
  <2>1. Len(s) - 1 = n
    BY <1>1
  <2> QED
    BY <1>5, <2>1 DEF Front, u
<1> QED
  BY <1>1, <1>2, <1>6 DEF s, Last

LEMMA OpenedExpects ==
  ASSUME NEW in \in Seq(Kinds), NEW k \in Kinds, NEW st, st = [in |-> Append(in, k), at |-> "opened"]
  PROVE  Expects(st) = IF k = "array" THEN "value" ELSE "name"
BY AppendKind DEF Expects, Begins, Kinds

LEMMA KindIs ==
  /\ KindOf["["] = "array" /\ KindOf["{"] = "object"
  /\ Closing["array"] = "]" /\ Closing["object"] = "}"
  /\ \A k \in Kinds : Closing[k] \notin Scalar \cup Open \cup {",", ":"}
  /\ \A x \in Open : x \notin Scalar /\ KindOf[x] \in Kinds
  /\ "str" \in Scalar
BY DEF KindOf, Open, Closing, Kinds, Scalar, Word, Number

LEMMA StepValue ==
  ASSUME NEW st, Typed(st), Expects(st) = "value", NEW x \in Token
  PROVE  /\ x \in Scalar => Step(st, x) = Leave(st.in)
         /\ x \in Open => Step(st, x) = [in |-> Append(st.in, KindOf[x]), at |-> "opened"]
         /\ x \notin Scalar \cup Open => Step(st, x) \in {Stuck, Leave(Front(st.in))}
         /\ Closes(st, x) => x \notin Scalar \cup Open /\ st.in # << >> /\ Step(st, x) = Leave(Front(st.in))
<1>1. st.at \in {"opened", "more"} => st.in # << >> /\ Last(st.in) \in Kinds
  BY LastKind DEF Typed
<1>2. Closes(st, x) => x \notin Scalar \cup Open /\ st.in # << >>
  BY <1>1, KindIs DEF Closes
<1>3. x \in Open => x \notin Scalar
  BY KindIs
<1> QED
  BY <1>2, <1>3 DEF Step

LEMMA StepName ==
  ASSUME NEW st, Typed(st), Expects(st) = "name", NEW x \in Token
  PROVE  /\ x = "str" => Step(st, x) = [in |-> st.in, at |-> "colon"]
         /\ x # "str" => Step(st, x) \in {Stuck, Leave(Front(st.in))}
         /\ Closes(st, x) => x # "str" /\ st.in # << >> /\ Step(st, x) = Leave(Front(st.in))
         /\ ~Closes(st, x) /\ x # "str" => Step(st, x) = Stuck
<1>1. st.at \in {"opened", "more"} => st.in # << >> /\ Last(st.in) \in Kinds
  BY LastKind DEF Typed
<1>2. Closes(st, x) => x # "str" /\ st.in # << >>
  BY <1>1, KindIs DEF Closes
<1> QED
  BY <1>2 DEF Step

LEMMA StepColon ==
  ASSUME NEW st, Typed(st), st.at = "colon", NEW x \in Token
  PROVE  Step(st, x) = IF x = ":" THEN [in |-> st.in, at |-> "value"] ELSE Stuck
<1>1. ~Closes(st, x) /\ Expects(st) = "colon"
  BY DEF Closes, Expects
<1> QED
  BY <1>1 DEF Step

LEMMA StepMore ==
  ASSUME NEW st, Typed(st), st.at = "more", NEW x \in Token
  PROVE  /\ st.in # << >> /\ Last(st.in) \in Kinds
         /\ x = "," => Step(st, x) = [in |-> st.in, at |-> Begins[Last(st.in)]]
         /\ x = Closing[Last(st.in)] => Step(st, x) = Leave(Front(st.in))
         /\ x \notin {",", Closing[Last(st.in)]} => Step(st, x) = Stuck
<1>1. st.in # << >> /\ Last(st.in) \in Kinds
  BY LastKind DEF Typed
<1>2. Closes(st, x) <=> x = Closing[Last(st.in)]
  BY DEF Closes
<1>3. Expects(st) = "more" /\ Closing[Last(st.in)] # ","
  BY <1>1, KindIs DEF Expects
<1> QED
  BY <1>1, <1>2, <1>3 DEF Step

(* The state in which it takes a token, and the next one.                  *)
LEMMA StateNext ==
  ASSUME NEW t \in Seq(Token), NEW a \in Nat, a < Len(t)
  PROVE  /\ Typed(States(t)[a]) /\ Typed(States(t)[a + 1]) /\ t[a + 1] \in Token
         /\ States(t)[a + 1] = Step(States(t)[a], t[a + 1])
<1> DEFINE b == a + 1
<1>1. b \in 1 .. Len(t) /\ a \in 0 .. Len(t) /\ b \in 0 .. Len(t) /\ b - 1 = a
  OBVIOUS
<1> HIDE DEF b
<1>2. States(t)[b] = Step(States(t)[b - 1], t[b]) /\ Typed(States(t)[a]) /\ Typed(States(t)[b]) /\ t[b] \in Token
  BY <1>1, StatesAre, StatesTyped
<1> QED
  BY <1>1, <1>2 DEF b

-----------------------------------------------------------------------------
(* The reader leaves every value of the grammar behind itself.             *)

InA(st, k) == st.in # << >> /\ Last(st.in) = k

LeavesValue(t, a, b, st) == Expects(st) = "value" /\ IsValue(t, a, b) => States(t)[b] = Leave(st.in)
LeavesValues(t, a, b, st) ==
  Expects(st) = "value" /\ InA(st, "array") /\ IsValues(t, a, b) => States(t)[b] = Leave(st.in)
LeavesMembers(t, a, b, st) ==
  Expects(st) = "name" /\ InA(st, "object") /\ IsMembers(t, a, b) => States(t)[b] = Leave(st.in)
LeavesAll(t, a, b, st) == LeavesValue(t, a, b, st) /\ LeavesValues(t, a, b, st) /\ LeavesMembers(t, a, b, st)

Shorter(t, a, b) ==
  \A c, d \in Nat : Within(t, c, d) /\ d - c < b - a => LeavesAll(t, c, d, States(t)[c])

LEMMA StepBracket ==
  ASSUME NEW st, Typed(st), st.at \in {"opened", "more"}, NEW in \in Seq(Kinds), NEW k \in Kinds,
         st.in = Append(in, k), NEW x \in Token, x = Closing[k]
  PROVE  Step(st, x) = Leave(in)
<1>1. Last(st.in) = k /\ Front(st.in) = in
  BY AppendKind
<1>2. Closes(st, x)
  BY <1>1 DEF Closes
<1> QED
  BY <1>1, <1>2 DEF Step

LEMMA LeaveIs ==
  ASSUME NEW in \in Seq(Kinds), in # << >>
  PROVE  Leave(in) = [in |-> in, at |-> "more"] /\ Leave(in).in = in /\ Leave(in).at = "more"
BY DEF Leave

LEMMA LeavesV ==
  ASSUME NEW t \in Seq(Token), NEW a \in Nat, NEW b \in Nat, Within(t, a, b), Shorter(t, a, b),
         NEW st, st = States(t)[a]
  PROVE  LeavesValue(t, a, b, st)
<1> SUFFICES ASSUME Expects(st) = "value", IsValue(t, a, b)
             PROVE  States(t)[b] = Leave(st.in)
  BY DEF LeavesValue
<1> DEFINE s1 == States(t)[a + 1]
           K == st.in
<1>0. a < Len(t) /\ b <= Len(t)
  BY DEF Within
<1>1. Typed(st) /\ Typed(s1) /\ t[a + 1] \in Token /\ s1 = Step(st, t[a + 1])
  BY <1>0, StateNext
<1>2. K \in Seq(Kinds)
  BY <1>1 DEF Typed
<1>3. CASE b = a + 1 /\ t[a + 1] \in Scalar
  BY <1>1, <1>3, StepValue
<1>4. ASSUME NEW k \in Kinds, NEW o \in Open, k = KindOf[o], t[a + 1] = o
      PROVE  /\ s1.in = Append(K, k) /\ s1.at = "opened" /\ InA(s1, k)
             /\ Expects(s1) = IF k = "array" THEN "value" ELSE "name"
  <2>1. s1 = [in |-> Append(K, k), at |-> "opened"]
    BY <1>1, <1>4, StepValue
  <2>2. Expects(s1) = IF k = "array" THEN "value" ELSE "name"
    BY <1>2, <2>1, OpenedExpects
  <2>3. Append(K, k) # << >> /\ Last(Append(K, k)) = k
    BY <1>2, AppendKind
  <2> QED
    BY <2>1, <2>2, <2>3 DEF InA
<1>5. ASSUME NEW k \in Kinds, NEW o \in Open, k = KindOf[o], t[a + 1] = o,
             b = a + 2, t[a + 2] = Closing[k]
      PROVE  States(t)[b] = Leave(K)
  <2>1. a + 1 \in Nat /\ a + 1 < Len(t) /\ (a + 1) + 1 = b
    BY <1>0, <1>5
  <2>2. s1.in = Append(K, k) /\ s1.at = "opened"
    BY <1>4, <1>5
  <2> DEFINE c == a + 1
  <2>3. Typed(s1) /\ t[c + 1] \in Token /\ States(t)[c + 1] = Step(s1, t[c + 1])
    <3> HIDE DEF c
    <3> QED
      BY <2>1, StateNext DEF c
  <2>4. t[b] \in Token /\ States(t)[b] = Step(s1, t[b]) /\ t[b] = Closing[k]
    BY <1>5, <2>1, <2>3
  <2> HIDE DEF s1, K
  <2> QED
    BY <1>1, <1>2, <2>2, <2>4, StepBracket
<1>6. ASSUME NEW k \in Kinds, NEW o \in Open, k = KindOf[o], t[a + 1] = o,
             b > a + 2, t[b] = Closing[k], States(t)[b - 1] = Leave(s1.in)
      PROVE  States(t)[b] = Leave(K)
  <2> DEFINE c == b - 1
  <2>1. c \in Nat /\ c < Len(t) /\ c + 1 = b
    BY <1>0, <1>6
  <2>2. s1.in = Append(K, k)
    BY <1>4, <1>6
  <2>3. Append(K, k) \in Seq(Kinds) /\ Append(K, k) # << >>
    BY <1>2, AppendKind
  <2>4. States(t)[c].in = Append(K, k) /\ States(t)[c].at = "more"
    BY <1>6, <2>2, <2>3, LeaveIs
  <2> HIDE DEF c, s1, K
  <2>5. Typed(States(t)[c]) /\ t[b] \in Token /\ States(t)[b] = Step(States(t)[c], t[b])
    <3>1. Typed(States(t)[c]) /\ t[c + 1] \in Token /\ States(t)[c + 1] = Step(States(t)[c], t[c + 1])
      BY <2>1, StateNext
    <3> QED
      BY <2>1, <3>1
  <2> QED
    BY <1>2, <1>6, <2>4, <2>5, StepBracket
<1>7. "[" \in Open /\ "{" \in Open /\ "array" \in Kinds /\ "object" \in Kinds
  BY DEF Open, Kinds
<1>8. CASE b = a + 2 /\ t[a + 1] = "[" /\ t[a + 2] = "]"
  BY <1>5, <1>7, <1>8, KindIs
<1>9. CASE b = a + 2 /\ t[a + 1] = "{" /\ t[a + 2] = "}"
  BY <1>5, <1>7, <1>9, KindIs
<1>10. b > a + 2 => LeavesAll(t, a + 1, b - 1, s1)
  <2> SUFFICES ASSUME b > a + 2 PROVE LeavesAll(t, a + 1, b - 1, s1)
    OBVIOUS
  <2> DEFINE c == a + 1
             d == b - 1
  <2>1. c \in Nat /\ d \in Nat /\ Within(t, c, d) /\ d - c < b - a
    BY GrammarAssumption DEF Within
  <2> HIDE DEF c, d
  <2>2. LeavesAll(t, c, d, States(t)[c])
    BY <2>1 DEF Shorter
  <2> QED
    BY <2>2 DEF c, d
<1>11. CASE b > a + 2 /\ t[a + 1] = "[" /\ t[b] = "]" /\ IsValues(t, a + 1, b - 1)
  <2>1. InA(s1, "array") /\ Expects(s1) = "value"
    BY <1>4, <1>7, <1>11, KindIs
  <2>2. States(t)[b - 1] = Leave(s1.in)
    BY <1>10, <1>11, <2>1 DEF LeavesAll, LeavesValues
  <2> QED
    BY <1>6, <1>7, <1>11, <2>2, KindIs
<1>12. CASE b > a + 2 /\ t[a + 1] = "{" /\ t[b] = "}" /\ IsMembers(t, a + 1, b - 1)
  <2>1. InA(s1, "object") /\ Expects(s1) = "name"
    BY <1>4, <1>7, <1>12, KindIs
  <2>2. States(t)[b - 1] = Leave(s1.in)
    BY <1>10, <1>12, <2>1 DEF LeavesAll, LeavesMembers
  <2> QED
    BY <1>6, <1>7, <1>12, <2>2, KindIs
<1>13. \/ b = a + 1 /\ t[a + 1] \in Scalar
       \/ b = a + 2 /\ t[a + 1] = "[" /\ t[a + 2] = "]"
       \/ b = a + 2 /\ t[a + 1] = "{" /\ t[a + 2] = "}"
       \/ b > a + 2 /\ t[a + 1] = "[" /\ t[b] = "]" /\ IsValues(t, a + 1, b - 1)
       \/ b > a + 2 /\ t[a + 1] = "{" /\ t[b] = "}" /\ IsMembers(t, a + 1, b - 1)
  BY ValueIs
<1> QED
  BY <1>3, <1>8, <1>9, <1>11, <1>12, <1>13

(* Behind a value of a container and the comma.                            *)
LEMMA BehindComma ==
  ASSUME NEW t \in Seq(Token), NEW j \in Nat, j < Len(t), NEW in \in Seq(Kinds), in # << >>,
         States(t)[j] = Leave(in), t[j + 1] = ","
  PROVE  States(t)[j + 1] = [in |-> in, at |-> Begins[Last(in)]] /\ Begins[Last(in)] \in {"value", "name"}
<1>1. Typed(States(t)[j]) /\ t[j + 1] \in Token /\ States(t)[j + 1] = Step(States(t)[j], t[j + 1])
  BY StateNext
<1>2. States(t)[j].in = in /\ States(t)[j].at = "more"
  BY LeaveIs
<1>3. Begins[Last(in)] \in {"value", "name"}
  BY LastKind
<1> QED
  BY <1>1, <1>2, <1>3, StepMore

LEMMA LeavesVs ==
  ASSUME NEW t \in Seq(Token), NEW a \in Nat, NEW b \in Nat, Within(t, a, b), Shorter(t, a, b),
         NEW st, st = States(t)[a]
  PROVE  LeavesValues(t, a, b, st)
<1> SUFFICES ASSUME Expects(st) = "value", InA(st, "array"), IsValues(t, a, b)
             PROVE  States(t)[b] = Leave(st.in)
  BY DEF LeavesValues
<1> DEFINE K == st.in
<1>0. a < Len(t) /\ b <= Len(t) /\ b - a <= TextMax
  BY DEF Within
<1>1. Typed(st)
  BY <1>0, StateNext
<1>2. K \in Seq(Kinds) /\ K # << >> /\ Last(K) = "array"
  BY <1>1 DEF Typed, InA
<1>3. CASE IsValue(t, a, b)
  BY <1>3, LeavesV DEF LeavesValue
<1>4. ASSUME NEW j \in a + 1 .. b - 2, MoreValues(t, a, j, b) PROVE States(t)[b] = Leave(K)
  <2> DEFINE c == j + 1
  <2>1. /\ j \in Nat /\ j < Len(t) /\ Within(t, a, j) /\ j - a < b - a
        /\ c \in Nat /\ Within(t, c, b) /\ b - c < b - a
    BY <1>0, GrammarAssumption DEF Within
  <2>2. IsValue(t, a, j) /\ t[j + 1] = "," /\ IsValues(t, c, b)
    BY <1>4 DEF MoreValues
  <2>3. LeavesAll(t, a, j, st)
    BY <2>1 DEF Shorter
  <2>4. States(t)[j] = Leave(K)
    BY <2>2, <2>3 DEF LeavesAll, LeavesValue
  <2>5. States(t)[c] = [in |-> K, at |-> "value"]
    <3>1. Begins["array"] = "value"
      BY DEF Begins
    <3> HIDE DEF K
    <3> QED
      BY <1>2, <2>1, <2>2, <2>4, <3>1, BehindComma
  <2> HIDE DEF c
  <2>6. LeavesAll(t, c, b, States(t)[c])
    BY <2>1 DEF Shorter
  <2>7. InA(States(t)[c], "array") /\ Expects(States(t)[c]) = "value" /\ States(t)[c].in = K
    BY <1>2, <2>5 DEF InA, Expects
  <2> QED
    BY <2>2, <2>6, <2>7 DEF LeavesAll, LeavesValues
<1> QED
  BY <1>3, <1>4, ValuesIs

LEMMA NameRead ==
  ASSUME NEW t \in Seq(Token), NEW a \in Nat, a + 2 <= Len(t), NEW st, st = States(t)[a],
         Expects(st) = "name", Name(t, a)
  PROVE  States(t)[a + 2] = [in |-> st.in, at |-> "value"] /\ States(t)[a + 1] = [in |-> st.in, at |-> "colon"]
<1> DEFINE c == a + 1
<1>1. a < Len(t) /\ c \in Nat /\ c < Len(t) /\ c + 1 = a + 2
  OBVIOUS
<1>2. Typed(st) /\ t[a + 1] \in Token /\ States(t)[a + 1] = Step(st, t[a + 1]) /\ Typed(States(t)[a + 1])
  BY <1>1, StateNext
<1>3. States(t)[c] = [in |-> st.in, at |-> "colon"]
  BY <1>2, StepName DEF Name
<1>30. t[c + 1] = ":"
  BY <1>1 DEF Name
<1> HIDE DEF c
<1>4. Typed(States(t)[c]) /\ t[c + 1] \in Token /\ States(t)[c + 1] = Step(States(t)[c], t[c + 1])
  BY <1>1, StateNext
<1>5. States(t)[c].at = "colon" /\ States(t)[c].in = st.in
  BY <1>3
<1>6. States(t)[c + 1] = [in |-> st.in, at |-> "value"]
  BY <1>30, <1>4, <1>5, StepColon
<1> QED
  BY <1>1, <1>3, <1>6 DEF c

LEMMA LeavesMs ==
  ASSUME NEW t \in Seq(Token), NEW a \in Nat, NEW b \in Nat, Within(t, a, b), Shorter(t, a, b),
         NEW st, st = States(t)[a]
  PROVE  LeavesMembers(t, a, b, st)
<1> SUFFICES ASSUME Expects(st) = "name", InA(st, "object"), IsMembers(t, a, b)
             PROVE  States(t)[b] = Leave(st.in)
  BY DEF LeavesMembers
<1> DEFINE K == st.in
           v == a + 2
<1>0. a < Len(t) /\ b <= Len(t) /\ b - a <= TextMax
  BY DEF Within
<1>1. Typed(st)
  BY <1>0, StateNext
<1>2. K \in Seq(Kinds) /\ K # << >> /\ Last(K) = "object"
  BY <1>1 DEF Typed, InA
<1>3. a + 3 <= b /\ Name(t, a) /\ (IsValue(t, v, b) \/ \E j \in a + 3 .. b - 2 : MoreMembers(t, a, j, b))
  BY MembersIs
<1>4. States(t)[v] = [in |-> K, at |-> "value"]
  <2>1. a + 2 <= Len(t)
    BY <1>0, <1>3
  <2> QED
    BY <1>3, <2>1, NameRead
<1>5. v \in Nat /\ Within(t, v, b) /\ b - v < b - a
  BY <1>0, <1>3, GrammarAssumption DEF Within
<1>51. v = a + 2
  OBVIOUS
<1> HIDE DEF v
<1>6. Expects(States(t)[v]) = "value" /\ States(t)[v].in = K
  BY <1>4 DEF Expects
<1>7. CASE IsValue(t, v, b)
  <2>1. LeavesAll(t, v, b, States(t)[v])
    BY <1>5 DEF Shorter
  <2> QED
    BY <1>6, <1>7, <2>1 DEF LeavesAll, LeavesValue
<1>8. ASSUME NEW j \in a + 3 .. b - 2, MoreMembers(t, a, j, b) PROVE States(t)[b] = Leave(K)
  <2> DEFINE c == j + 1
  <2>1. /\ j \in Nat /\ j < Len(t) /\ Within(t, v, j) /\ j - v < b - a
        /\ c \in Nat /\ Within(t, c, b) /\ b - c < b - a
    BY <1>0, <1>51, GrammarAssumption DEF Within
  <2>2. IsValue(t, v, j) /\ t[j + 1] = "," /\ IsMembers(t, c, b)
    BY <1>8, <1>51 DEF MoreMembers
  <2>3. LeavesAll(t, v, j, States(t)[v])
    BY <1>5, <2>1 DEF Shorter
  <2>4. States(t)[j] = Leave(K)
    BY <1>6, <2>2, <2>3 DEF LeavesAll, LeavesValue
  <2>5. States(t)[c] = [in |-> K, at |-> "name"]
    <3>1. Begins["object"] = "name"
      BY DEF Begins
    <3> HIDE DEF K
    <3> QED
      BY <1>2, <2>1, <2>2, <2>4, <3>1, BehindComma
  <2> HIDE DEF c
  <2>6. LeavesAll(t, c, b, States(t)[c])
    BY <2>1 DEF Shorter
  <2>7. InA(States(t)[c], "object") /\ Expects(States(t)[c]) = "name" /\ States(t)[c].in = K
    BY <1>2, <2>5 DEF InA, Expects
  <2> QED
    BY <2>2, <2>6, <2>7 DEF LeavesAll, LeavesMembers
<1> QED
  BY <1>3, <1>7, <1>8

LEMMA ReadsValues ==
  ASSUME NEW t \in Seq(Token), NEW a \in Nat, NEW b \in Nat, Within(t, a, b)
  PROVE  LeavesAll(t, a, b, States(t)[a])
<1> DEFINE T == {m \in Nat : \A c, d \in Nat : Within(t, c, d) /\ d - c < m => LeavesAll(t, c, d, States(t)[c])}
<1>1. 0 \in T
  BY DEF Within
<1>2. ASSUME NEW m \in Nat, m \in T PROVE m + 1 \in T
  <2> SUFFICES ASSUME NEW c \in Nat, NEW d \in Nat, Within(t, c, d), d - c < m + 1
               PROVE  LeavesAll(t, c, d, States(t)[c])
    OBVIOUS
  <2>1. d - c <= m /\ d - c \in Int
    OBVIOUS
  <2>2. Shorter(t, c, d)
    BY <1>2, <2>1 DEF Shorter
  <2> HIDE DEF T
  <2> QED
    BY <2>2, LeavesV, LeavesVs, LeavesMs DEF LeavesAll
<1>3. Nat \subseteq T
  <2> HIDE DEF T
  <2> QED
    BY <1>1, <1>2, NatSetInduction
<1>4. (b - a) + 1 \in T
  <2>1. (b - a) + 1 \in Nat
    BY DEF Within
  <2> HIDE DEF T
  <2> QED
    BY <1>3, <2>1
<1> QED
  BY <1>4

-----------------------------------------------------------------------------
(* Where the reader has left a value behind itself, the grammar has one.   *)

Depth(st) == Len(st.in)

LEMMA LeaveNot ==
  ASSUME NEW in \in Seq(Kinds), NEW at, at \in {"value", "opened", "name", "colon", "stuck"}, NEW k
  PROVE  Leave(in) # [in |-> k, at |-> at] /\ Leave(in) # Stuck
BY DEF Leave, Stuck

LEMMA ValueElse ==
  ASSUME NEW st, Expects(st) = "value", NEW x, ~Closes(st, x), x \notin Scalar \cup Open
  PROVE  Step(st, x) = Stuck
BY DEF Step

(* A token adds a container, or takes one away, or neither.                *)
LEMMA StepMoves ==
  ASSUME NEW st, Typed(st), NEW x \in Token
  PROVE  \/ Step(st, x) = Stuck
         \/ st.in # << >> /\ Closes(st, x) /\ Step(st, x) = Leave(Front(st.in))
         \/ x \in Open /\ Step(st, x) = [in |-> Append(st.in, KindOf[x]), at |-> "opened"]
         \/ Step(st, x).in = st.in /\ Step(st, x).at # "opened"
<1>1. Closes(st, x) => st.in # << >>
  BY DEF Closes, Typed
<1>2. st.in \in Seq(Kinds)
  BY DEF Typed
<1>3. Leave(st.in).in = st.in /\ Leave(st.in).at # "opened"
  BY DEF Leave
<1>4. Expects(st) = "more" => st.at = "more"
  BY <1>2, LastKind DEF Expects, Typed
<1>5. Expects(st) = "more" => Begins[Last(st.in)] # "opened"
  BY <1>2, <1>4, LastKind DEF Typed
<1> QED
  BY <1>1, <1>3, <1>5 DEF Step

LEMMA StepKeeps ==
  ASSUME NEW st, Typed(st), NEW x \in Token, NEW l \in Nat,
         l <= Depth(st), l <= Depth(Step(st, x))
  PROVE  \A i \in 1 .. l : Step(st, x).in[i] = st.in[i]
<1>0. st.in \in Seq(Kinds)
  BY DEF Typed
<1>1. CASE Step(st, x) = Stuck
  <2>1. l = 0
    BY <1>1 DEF Depth, Stuck
  <2> QED
    BY <2>1
<1>2. CASE st.in # << >> /\ Step(st, x) = Leave(Front(st.in))
  <2>1. Front(st.in) \in Seq(Kinds) /\ Len(Front(st.in)) = Len(st.in) - 1
    BY <1>0, <1>2, LastKind
  <2>2. Step(st, x).in = Front(st.in)
    BY <1>2, <2>1, LeaveTyped
  <2>3. \A i \in 1 .. Len(st.in) - 1 : SubSeq(st.in, 1, Len(st.in) - 1)[i] = st.in[i]
    <3> DEFINE s == st.in
               n == Len(s) - 1
    <3>1. s \in Seq(Kinds) /\ n \in Nat /\ n <= Len(s)
      BY <1>0, <1>2
    <3>2. \A i \in 1 .. n : s[i] \in Kinds
      BY <3>1
    <3> HIDE DEF s, n
    <3>3. \A i \in 1 .. n - 1 + 1 : SubSeq(s, 1, n)[i] = s[1 + i - 1]
      BY <3>1, <3>2, ST!SubSeqProperties
    <3>4. \A i \in 1 .. n : i \in 1 .. n - 1 + 1 /\ 1 + i - 1 = i
      BY <3>1
    <3>5. \A i \in 1 .. n : SubSeq(s, 1, n)[i] = s[i]
      BY <3>3, <3>4
    <3> QED
      BY <3>5 DEF s, n
  <2>4. l <= Len(st.in) - 1
    BY <2>1, <2>2 DEF Depth
  <2>5. \A i \in 1 .. l : i \in 1 .. Len(st.in) - 1
    BY <1>0, <2>4
  <2> QED
    BY <2>2, <2>3, <2>5 DEF Front
<1>3. CASE x \in Open /\ Step(st, x) = [in |-> Append(st.in, KindOf[x]), at |-> "opened"]
  <2>1. \A i \in 1 .. Len(st.in) : Append(st.in, KindOf[x])[i] = st.in[i]
    BY <1>0
  <2> QED
    BY <1>0, <1>3, <2>1 DEF Depth
<1>4. CASE Step(st, x).in = st.in
  BY <1>4
<1> QED
  BY <1>1, <1>2, <1>3, <1>4, StepMoves

AtLeast(t, a, b, l) == \A i \in a .. b : l <= Depth(States(t)[i])
Kept(t, a, b, l) == \A i \in 1 .. l : States(t)[b].in[i] = States(t)[a].in[i]

LEMMA StackKept ==
  ASSUME NEW t \in Seq(Token), NEW a \in Nat, NEW b \in Nat, a <= b, b <= Len(t), NEW l \in Nat,
         AtLeast(t, a, b, l)
  PROVE  Kept(t, a, b, l)
<1> DEFINE T == {m \in Nat : a + m <= b => \A i \in 1 .. l : States(t)[a + m].in[i] = States(t)[a].in[i]}
<1>1. 0 \in T
  OBVIOUS
<1>2. ASSUME NEW m \in Nat, m \in T PROVE m + 1 \in T
  <2> SUFFICES ASSUME a + (m + 1) <= b
               PROVE  \A i \in 1 .. l : States(t)[a + (m + 1)].in[i] = States(t)[a].in[i]
    OBVIOUS
  <2> DEFINE c == a + m
  <2>1. c \in Nat /\ c < Len(t) /\ c \in a .. b /\ c + 1 \in a .. b /\ a + (m + 1) = c + 1
    OBVIOUS
  <2>2. \A i \in 1 .. l : States(t)[c].in[i] = States(t)[a].in[i]
    BY <1>2, <2>1
  <2> HIDE DEF c, T
  <2>3. /\ Typed(States(t)[c]) /\ t[c + 1] \in Token
        /\ States(t)[c + 1] = Step(States(t)[c], t[c + 1])
    BY <2>1, StateNext
  <2>4. \A i \in 1 .. l : States(t)[c + 1].in[i] = States(t)[c].in[i]
    BY <2>1, <2>3, StepKeeps DEF AtLeast
  <2> QED
    BY <2>1, <2>2, <2>4
<1>3. Nat \subseteq T
  <2> HIDE DEF T
  <2> QED
    BY <1>1, <1>2, NatSetInduction
<1> DEFINE d == b - a
<1>4. d \in Nat /\ a + d = b
  OBVIOUS
<1>5. d \in T
  BY <1>3, <1>4
<1> HIDE DEF d
<1>6. \A i \in 1 .. l : (States(t)[b].in)[i] = (States(t)[a].in)[i]
  BY <1>4, <1>5
<1> QED
  BY <1>6 DEF Kept

(* A container is left by its bracket.                                     *)
LEMMA StepPops ==
  ASSUME NEW st, Typed(st), NEW x \in Token, Step(st, x) # Stuck, Depth(Step(st, x)) < Depth(st)
  PROVE  /\ Closes(st, x) /\ st.in # << >> /\ Step(st, x) = Leave(Front(st.in))
         /\ Step(st, x).in = Front(st.in) /\ Step(st, x) = Leave(Step(st, x).in)
         /\ Depth(Step(st, x)) = Depth(st) - 1
<1>0. st.in \in Seq(Kinds)
  BY DEF Typed
<1>1. ~(Step(st, x).in = st.in)
  BY <1>0 DEF Depth
<1>2. ~(x \in Open /\ Step(st, x) = [in |-> Append(st.in, KindOf[x]), at |-> "opened"])
  <2> SUFFICES ASSUME x \in Open, Step(st, x) = [in |-> Append(st.in, KindOf[x]), at |-> "opened"]
               PROVE  FALSE
    OBVIOUS
  <2>1. Len(Append(st.in, KindOf[x])) = Len(st.in) + 1 /\ Len(st.in) \in Nat
    BY <1>0
  <2>2. Depth(Step(st, x)) = Depth(st) + 1 /\ Depth(st) \in Nat
    BY <2>1 DEF Depth
  <2> QED
    BY <2>2
<1>3. Closes(st, x) /\ st.in # << >> /\ Step(st, x) = Leave(Front(st.in))
  BY <1>1, <1>2, StepMoves
<1>4. Front(st.in) \in Seq(Kinds) /\ Len(Front(st.in)) = Len(st.in) - 1
  BY <1>0, <1>3, LastKind
<1>5. Step(st, x).in = Front(st.in)
  BY <1>3, <1>4, LeaveTyped
<1> QED
  BY <1>3, <1>4, <1>5 DEF Depth

(* Only a whole text is outside of all containers.                         *)
LEMMA StepOutside ==
  ASSUME NEW st, Typed(st), NEW x \in Token, Step(st, x).in = << >>
  PROVE  Step(st, x) \in {Stuck, Leave(<< >>)}
<1>0. st.in \in Seq(Kinds)
  BY DEF Typed
<1>1. Closes(st, x) => Step(st, x) = Leave(<< >>)
  <2> SUFFICES ASSUME Closes(st, x) PROVE Step(st, x) = Leave(<< >>)
    OBVIOUS
  <2>1. st.in # << >> /\ Step(st, x) = Leave(Front(st.in))
    BY DEF Closes, Typed, Step
  <2>2. Step(st, x).in = Front(st.in)
    BY <1>0, <2>1, LastKind, LeaveTyped
  <2> QED
    BY <2>1, <2>2
<1>2. Expects(st) \in {"name", "colon", "more"} => st.in # << >>
  BY DEF Expects, Typed
<1>3. x \in Open => Append(st.in, KindOf[x]) # << >>
  BY <1>0, KindIs, AppendKind
<1>4. Leave(st.in).in = st.in
  BY <1>0, LeaveTyped
<1> QED
  BY <1>1, <1>2, <1>3, <1>4 DEF Step

Deeper(t, a, b, in) == \A i \in a .. b : Len(in) < Depth(States(t)[i])
AsDeep(t, a, b, in) == \A i \in a .. b : Len(in) <= Depth(States(t)[i])

SoundValue(t, a, b, st) ==
  Expects(st) = "value" /\ States(t)[b] = Leave(st.in) /\ Deeper(t, a + 1, b - 1, st.in) => IsValue(t, a, b)
SoundValues(t, a, b, st) ==
  Expects(st) = "value" /\ InA(st, "array") /\ States(t)[b] = Leave(st.in) /\ AsDeep(t, a, b, st.in) => IsValues(t, a, b)
SoundMembers(t, a, b, st) ==
  Expects(st) = "name" /\ InA(st, "object") /\ States(t)[b] = Leave(st.in) /\ AsDeep(t, a, b, st.in) => IsMembers(t, a, b)
SoundAll(t, a, b, st) == SoundValue(t, a, b, st) /\ SoundValues(t, a, b, st) /\ SoundMembers(t, a, b, st)

SoundBefore(t, a, b) ==
  \A c, d \in Nat : Within(t, c, d) /\ d - c < b - a => SoundAll(t, c, d, States(t)[c])

LEMMA SameStack ==
  ASSUME NEW r \in Seq(Kinds), NEW s \in Seq(Kinds), Len(r) = Len(s), \A i \in 1 .. Len(r) : r[i] = s[i]
  PROVE  r = s
BY ST!SeqEqual

(* What closes the container that was opened at the token behind a.        *)
LEMMA BracketBack ==
  ASSUME NEW t \in Seq(Token), NEW a \in Nat, NEW b \in Nat, a + 1 < b, b <= Len(t),
         NEW in \in Seq(Kinds), NEW k \in Kinds,
         States(t)[a + 1] = [in |-> Append(in, k), at |-> "opened"],
         Deeper(t, a + 1, b - 1, in), States(t)[b] = Leave(in)
  PROVE  /\ t[b] = Closing[k]
         /\ a + 2 < b => States(t)[b - 1] = Leave(Append(in, k)) /\ AsDeep(t, a + 1, b - 1, Append(in, k))
<1> DEFINE c == b - 1
           sc == States(t)[c]
           d == a + 1
           m == Len(in) + 1
           K == Append(in, k)
<1>0. K \in Seq(Kinds) /\ K # << >> /\ Len(K) = m /\ Last(K) = k
  BY AppendKind
<1>1. c \in Nat /\ c < Len(t) /\ c + 1 = b /\ d \in Nat /\ d <= c /\ c <= Len(t) /\ c \in d .. c /\ m \in Nat
  OBVIOUS
<1>11. b = a + 2 <=> c = d
  BY <1>1
<1>2. AsDeep(t, d, c, K)
  <2>1. ASSUME NEW i \in d .. c PROVE m <= Depth(States(t)[i])
    <3>1. Len(in) < Depth(States(t)[i])
      BY DEF Deeper
    <3>2. i \in Nat /\ i \in 0 .. Len(t)
      BY <1>1
    <3> HIDE DEF c, d
    <3>3. Depth(States(t)[i]) \in Nat
      BY <3>2, StatesTyped DEF Typed, Depth
    <3> QED
      BY <3>1, <3>3
  <2> HIDE DEF K, m, c, d
  <2> QED
    BY <2>1, <1>0 DEF AsDeep
<1>20. States(t)[d] = [in |-> K, at |-> "opened"]
  OBVIOUS
<1>21. Deeper(t, d, c, in)
  OBVIOUS
<1> HIDE DEF c, d, K
<1>3. Typed(sc) /\ t[c + 1] \in Token /\ States(t)[c + 1] = Step(sc, t[c + 1])
  BY <1>1, StateNext
<1>30. Typed(sc) /\ t[b] \in Token /\ States(t)[b] = Step(sc, t[b])
  BY <1>1, <1>3
<1>31. sc.in \in Seq(Kinds)
  BY <1>3 DEF Typed
<1>4. /\ Closes(sc, t[b]) /\ sc.in # << >>
      /\ Depth(Step(sc, t[b])) = Depth(sc) - 1
  <2>1. Leave(in) # Stuck
    BY LeaveNot
  <2>2. Depth(Step(sc, t[b])) = Len(in)
    BY <1>30, LeaveTyped DEF Depth
  <2>3. Len(in) < Depth(sc)
    BY <1>1, <1>21 DEF Deeper
  <2> QED
    BY <1>30, <2>1, <2>2, <2>3, StepPops
<1>5. Len(sc.in) = m
  <2>1. Depth(Step(sc, t[b])) = Len(in)
    BY <1>30, LeaveTyped DEF Depth
  <2>2. Len(sc.in) \in Nat
    BY <1>31
  <2> QED
    BY <1>4, <2>1, <2>2 DEF Depth
<1>6. sc.in = K
  <2>1. \A i \in 1 .. m : States(t)[c].in[i] = States(t)[d].in[i]
    <3>1. AtLeast(t, d, c, m)
      BY <1>0, <1>2 DEF AsDeep, AtLeast
    <3>2. Kept(t, d, c, m)
      <4> HIDE DEF m
      <4> QED
        BY <1>1, <3>1, StackKept
    <3> QED
      BY <3>2 DEF Kept
  <2>2. \A i \in 1 .. m : sc.in[i] = K[i]
    BY <1>20, <2>1
  <2> QED
    BY <1>0, <1>31, <1>5, <2>2, SameStack
<1>7. t[b] = Closing[k]
  BY <1>0, <1>4, <1>6 DEF Closes
<1>8. ASSUME a + 2 < b PROVE sc = Leave(K)
  <2> DEFINE e == b - 2
  <2>1. e \in Nat /\ e < Len(t) /\ e + 1 = c /\ e \in d .. c
    BY <1>8, <1>1 DEF c, d
  <2> HIDE DEF e
  <2>2. Typed(States(t)[e]) /\ t[e + 1] \in Token /\ States(t)[e + 1] = Step(States(t)[e], t[e + 1])
    BY <2>1, StateNext
  <2>3. Typed(States(t)[e]) /\ t[c] \in Token /\ sc = Step(States(t)[e], t[c])
    BY <2>1, <2>2
  <2> DEFINE se == States(t)[e]
  <2>4. se.in \in Seq(Kinds) /\ Len(in) < Len(se.in)
    BY <1>21, <2>1, <2>3 DEF Typed, Deeper, Depth
  <2> HIDE DEF se
  <2>5. sc.at # "opened"
    <3> SUFFICES ASSUME sc.at = "opened" PROVE FALSE
      OBVIOUS
    <3>1. sc # Stuck /\ sc # Leave(Front(se.in))
      BY DEF Stuck, Leave
    <3>2. t[c] \in Open /\ sc = [in |-> Append(se.in, KindOf[t[c]]), at |-> "opened"]
      BY <2>3, <3>1, StepMoves DEF se
    <3>3. Len(sc.in) = Len(se.in) + 1
      BY <2>4, <3>2
    <3> QED
      BY <1>5, <2>4, <3>3
  <2>6. sc.at = "more"
    BY <1>4, <2>5 DEF Closes
  <2>7. sc = [in |-> sc.in, at |-> sc.at]
    BY <1>30 DEF Typed
  <2>8. Leave(K) = [in |-> K, at |-> "more"]
    BY <1>0, LeaveIs
  <2> QED
    BY <1>6, <2>6, <2>7, <2>8
<1> QED
  BY <1>2, <1>7, <1>8 DEF c, d, K

LEMMA SoundV ==
  ASSUME NEW t \in Seq(Token), NEW a \in Nat, NEW b \in Nat, Within(t, a, b), SoundBefore(t, a, b),
         NEW st, st = States(t)[a]
  PROVE  SoundValue(t, a, b, st)
<1> SUFFICES ASSUME Expects(st) = "value", States(t)[b] = Leave(st.in), Deeper(t, a + 1, b - 1, st.in)
             PROVE  IsValue(t, a, b)
  BY DEF SoundValue
<1> DEFINE s1 == States(t)[a + 1]
           K == st.in
           x == t[a + 1]
<1>0. a < Len(t) /\ b <= Len(t) /\ a < b
  BY DEF Within
<1>1. Typed(st) /\ Typed(s1) /\ x \in Token /\ s1 = Step(st, x)
  BY <1>0, StateNext
<1>2. K \in Seq(Kinds) /\ Leave(K).in = K /\ Len(K) \in Nat
  BY <1>1, LeaveTyped DEF Typed
<1>3. b # a + 1 => Len(K) < Depth(s1)
  <2> SUFFICES ASSUME b # a + 1 PROVE Len(K) < Depth(s1)
    OBVIOUS
  <2>1. a + 1 \in a + 1 .. b - 1
    BY <1>0
  <2> QED
    BY <2>1 DEF Deeper
<1>4. b = a + 1 => s1 = Leave(K)
  OBVIOUS
<1> HIDE DEF s1, K, x
<1>5. ~Closes(st, x)
  <2> SUFFICES ASSUME Closes(st, x) PROVE FALSE
    OBVIOUS
  <2>1. st.in # << >> /\ s1 = Leave(Front(st.in))
    BY <1>1, StepValue
  <2>2. Len(Front(K)) = Len(K) - 1 /\ s1.in = Front(K)
    BY <1>2, <2>1, LastKind, LeaveTyped DEF K
  <2> QED
    BY <1>2, <1>3, <1>4, <2>2 DEF Depth
<1>6. s1 # Stuck
  <2> SUFFICES ASSUME s1 = Stuck PROVE FALSE
    OBVIOUS
  <2>1. Depth(s1) = 0
    BY DEF Depth, Stuck
  <2>2. Leave(K) # Stuck
    BY <1>2, LeaveNot
  <2> QED
    BY <1>2, <1>3, <1>4, <2>1, <2>2
<1>7. x \in Scalar \cup Open
  BY <1>1, <1>5, <1>6, ValueElse
<1>8. CASE x \in Scalar
  <2>1. s1 = Leave(K)
    BY <1>1, <1>8, StepValue DEF K
  <2>2. b = a + 1
    BY <1>2, <1>3, <2>1 DEF Depth
  <2> QED
    BY <1>8, <2>2, ValueIs DEF x
<1>9. CASE x \in Open
  <2> DEFINE k == KindOf[x]
  <2>1. s1 = [in |-> Append(K, k), at |-> "opened"]
    BY <1>1, <1>9, StepValue DEF K
  <2>2. k \in Kinds /\ Expects(s1) = IF k = "array" THEN "value" ELSE "name"
    BY <1>2, <1>9, <2>1, KindIs, OpenedExpects
  <2>3. b # a + 1
    BY <1>2, <1>4, <2>1, LeaveNot
  <2>4. a + 1 < b
    BY <1>0, <2>3
  <2>40. /\ a + 1 < b /\ b <= Len(t) /\ States(t)[a + 1] = [in |-> Append(K, k), at |-> "opened"]
         /\ Deeper(t, a + 1, b - 1, K) /\ States(t)[b] = Leave(K)
    BY <1>0, <2>1, <2>4 DEF s1, K
  <2> HIDE DEF k
  <2>5. /\ t[b] = Closing[k]
        /\ a + 2 < b => States(t)[b - 1] = Leave(Append(K, k)) /\ AsDeep(t, a + 1, b - 1, Append(K, k))
    BY <1>2, <2>2, <2>40, BracketBack
  <2>6. (x = "[" /\ k = "array" /\ t[b] = "]") \/ (x = "{" /\ k = "object" /\ t[b] = "}")
    BY <1>9, <2>5, KindIs DEF Open, k
  <2>7. CASE b = a + 2
    BY <2>6, <2>7, ValueIs DEF x
  <2>8. CASE a + 2 < b
    <3> DEFINE c == a + 1
               d == b - 1
    <3>1. c \in Nat /\ d \in Nat /\ Within(t, c, d) /\ d - c < b - a
      BY <2>8, GrammarAssumption DEF Within
    <3>2. States(t)[d] = Leave(s1.in) /\ AsDeep(t, c, d, s1.in)
      BY <2>1, <2>5, <2>8
    <3>3. InA(s1, k)
      BY <1>2, <2>1, <2>2, AppendKind DEF InA
    <3>4. s1 = States(t)[c]
      BY DEF s1
    <3> HIDE DEF c, d
    <3>5. SoundAll(t, c, d, s1)
      BY <3>1, <3>4 DEF SoundBefore
    <3>6. IF k = "array" THEN IsValues(t, c, d) ELSE IsMembers(t, c, d)
      BY <2>2, <2>6, <3>2, <3>3, <3>5 DEF SoundAll, SoundValues, SoundMembers
    <3> QED
      BY <2>6, <2>8, <3>6, ValueIs DEF x, c, d
  <2> QED
    BY <2>4, <2>7, <2>8
<1> QED
  BY <1>7, <1>8, <1>9

(* The first value in a container ends at c, behind it the container or a  *)
(* comma.                                                                  *)
EndsAt(t, v, b, c, in) ==
  /\ c \in v + 1 .. b /\ States(t)[c] = Leave(in) /\ Deeper(t, v + 1, c - 1, in)
  /\ c # b => /\ c <= b - 2 /\ t[c + 1] = ","
              /\ States(t)[c + 1] = [in |-> in, at |-> Begins[Last(in)]]

LEMMA FirstEnds ==
  ASSUME NEW t \in Seq(Token), NEW v \in Nat, NEW b \in Nat, v < b, b <= Len(t),
         NEW in \in Seq(Kinds), in # << >>,
         Expects(States(t)[v]) = "value", States(t)[v].in = in,
         AsDeep(t, v, b, in), States(t)[b] = Leave(in)
  PROVE  \E c \in v + 1 .. b : EndsAt(t, v, b, c, in)
<1> DEFINE S == {i \in v + 1 .. b : Depth(States(t)[i]) = Len(in)}
           n == Len(in)
<1>0. n \in Nat /\ n > 0
  OBVIOUS
<1>1. b \in S
  <2>1. Depth(States(t)[b]) = Len(in)
    BY LeaveTyped DEF Depth
  <2> QED
    BY <2>1
<1>2. PICK c \in S : \A i \in S : c <= i
  <2>1. S \subseteq Nat /\ S # {}
    BY <1>1
  <2> HIDE DEF S
  <2> QED
    BY <2>1, MinIs
<1>3. c \in v + 1 .. b /\ Depth(States(t)[c]) = n /\ c \in Nat /\ c <= Len(t)
  OBVIOUS
<1>4. Deeper(t, v + 1, c - 1, in)
  <2> SUFFICES ASSUME NEW i \in v + 1 .. c - 1 PROVE n < Depth(States(t)[i])
    BY DEF Deeper
  <2>1. i \in v + 1 .. b /\ i \in v .. b /\ ~(c <= i) /\ i \in 0 .. Len(t)
    BY <1>3
  <2>2. i \notin S
    BY <1>2, <2>1
  <2>3. Depth(States(t)[i]) # n /\ n <= Depth(States(t)[i])
    BY <2>1, <2>2 DEF AsDeep
  <2>4. Depth(States(t)[i]) \in Nat
    BY <2>1, StatesTyped DEF Typed, Depth
  <2> QED
    BY <1>0, <2>3, <2>4
<1> DEFINE d == c - 1
           sd == States(t)[d]
           sc == States(t)[c]
<1>5. d \in Nat /\ d < Len(t) /\ d + 1 = c /\ v <= d /\ v <= c /\ (d # v => d \in v + 1 .. c - 1)
  BY <1>3
<1> HIDE DEF S
<1>6. Typed(sd) /\ Typed(sc) /\ t[c] \in Token /\ sc = Step(sd, t[c])
  <2> HIDE DEF d
  <2>1. Typed(States(t)[d]) /\ Typed(States(t)[d + 1]) /\ t[d + 1] \in Token /\ States(t)[d + 1] = Step(States(t)[d], t[d + 1])
    BY <1>5, StateNext
  <2> QED
    BY <1>5, <2>1
<1>7. sd.in \in Seq(Kinds) /\ sc.in \in Seq(Kinds) /\ Len(sc.in) = n /\ sc # Stuck
  BY <1>0, <1>3, <1>6 DEF Typed, Depth, Stuck
<1>8. sc.in = in
  <2>1. AtLeast(t, v, c, n)
    BY <1>3 DEF AsDeep, AtLeast
  <2>2. Kept(t, v, c, n)
    <3> HIDE DEF n
    <3> QED
      BY <1>0, <1>3, <1>5, <2>1, StackKept
  <2>3. \A i \in 1 .. n : sc.in[i] = in[i]
    BY <2>2 DEF Kept
  <2> QED
    BY <1>7, <2>3, SameStack
<1>9. sc = Leave(in)
  <2> HIDE DEF sc
  <2>1. CASE d = v
    <3> DEFINE x == t[c]
    <3>1. Expects(sd) = "value" /\ sd.in = in
      BY <2>1
    <3> HIDE DEF sd, x
    <3>2. ~Closes(sd, x)
      <4> SUFFICES ASSUME Closes(sd, x) PROVE FALSE
        OBVIOUS
      <4>1. sc = Leave(Front(in))
        BY <1>6, <3>1, StepValue DEF x
      <4>2. Len(Front(in)) = Len(in) - 1 /\ sc.in = Front(in)
        BY <4>1, LastKind, LeaveTyped
      <4> QED
        BY <1>0, <1>7, <4>2
    <3>3. x \in Scalar \cup Open
      BY <1>6, <1>7, <3>1, <3>2, ValueElse DEF x
    <3>4. x \notin Open
      <4> SUFFICES ASSUME x \in Open PROVE FALSE
        OBVIOUS
      <4>1. sc.in = Append(in, KindOf[x])
        BY <1>6, <3>1, StepValue DEF x
      <4> QED
        BY <1>7, <4>1
    <3> QED
      BY <1>6, <3>1, <3>3, <3>4, StepValue DEF x
  <2>2. CASE d # v
    <3>1. n < Depth(sd)
      BY <1>4, <1>5, <2>2 DEF Deeper
    <3> HIDE DEF sd, n
    <3>2. Depth(sc) = n
      BY <1>7 DEF Depth
    <3>3. sc = Leave(sc.in)
      BY <1>6, <1>7, <3>1, <3>2, StepPops
    <3> QED
      BY <1>8, <3>3
  <2> QED
    BY <2>1, <2>2
<1>10. ASSUME c # b
       PROVE  /\ c <= b - 2 /\ t[c + 1] = ","
              /\ States(t)[c + 1] = [in |-> in, at |-> Begins[Last(in)]]
  <2> DEFINE s1 == States(t)[c + 1]
             x == t[c + 1]
  <2>1. c < b /\ c < Len(t) /\ c + 1 \in v .. b
    BY <1>3, <1>10
  <2>2. Typed(sc) /\ x \in Token /\ s1 = Step(sc, x)
    BY <1>3, <2>1, StateNext
  <2>3. n <= Depth(s1)
    BY <2>1 DEF AsDeep
  <2>4. sc.at = "more" /\ sc.in = in
    BY <1>9, LeaveIs
  <2> HIDE DEF s1, x, sc
  <2>5. s1 # Stuck
    <3> SUFFICES ASSUME s1 = Stuck PROVE FALSE
      OBVIOUS
    <3>1. Depth(s1) = 0
      BY DEF Depth, Stuck
    <3> QED
      BY <1>0, <2>3, <3>1
  <2>6. x # Closing[Last(in)]
    <3> SUFFICES ASSUME x = Closing[Last(in)] PROVE FALSE
      OBVIOUS
    <3>1. s1 = Leave(Front(in))
      BY <2>2, <2>4, StepMore
    <3>2. Len(Front(in)) = Len(in) - 1 /\ s1.in = Front(in)
      BY <3>1, LastKind, LeaveTyped
    <3> QED
      BY <1>0, <2>3, <3>2 DEF Depth
  <2>7. x = "," /\ s1 = [in |-> in, at |-> Begins[Last(in)]]
    BY <2>2, <2>4, <2>5, <2>6, StepMore
  <2>8. s1 # Leave(in)
    BY <2>7, LastKind, LeaveNot
  <2>9. c + 1 # b
    BY <2>8 DEF s1
  <2>10. c <= b - 2
    BY <1>3, <2>1, <2>9
  <2> QED
    BY <2>7, <2>10 DEF s1, x
<1> QED
  BY <1>3, <1>4, <1>9, <1>10 DEF EndsAt

LEMMA SoundVs ==
  ASSUME NEW t \in Seq(Token), NEW a \in Nat, NEW b \in Nat, Within(t, a, b), SoundBefore(t, a, b),
         NEW st, st = States(t)[a]
  PROVE  SoundValues(t, a, b, st)
<1> SUFFICES ASSUME Expects(st) = "value", InA(st, "array"), States(t)[b] = Leave(st.in), AsDeep(t, a, b, st.in)
             PROVE  IsValues(t, a, b)
  BY DEF SoundValues
<1> DEFINE K == st.in
<1>0. a < Len(t) /\ b <= Len(t) /\ a < b /\ b - a <= TextMax
  BY DEF Within
<1>1. Typed(st)
  BY <1>0, StateNext
<1>2. K \in Seq(Kinds) /\ K # << >> /\ Last(K) = "array"
  BY <1>1 DEF Typed, InA
<1> HIDE DEF K
<1>3. PICK c \in a + 1 .. b : EndsAt(t, a, b, c, K)
  <2>1. States(t)[a].in = K /\ Expects(States(t)[a]) = "value" /\ AsDeep(t, a, b, K) /\ States(t)[b] = Leave(K)
    BY DEF K
  <2> QED
    BY <1>0, <1>2, <2>1, FirstEnds
<1>4. IsValue(t, a, c)
  <2>1. CASE c = b
    BY <1>3, <2>1, SoundV DEF EndsAt, SoundValue, K
  <2>2. CASE c # b
    <3>1. c \in Nat /\ Within(t, a, c) /\ c - a < b - a
      BY <1>0, <2>2, GrammarAssumption DEF Within
    <3>2. SoundAll(t, a, c, st)
      BY <3>1 DEF SoundBefore
    <3> QED
      BY <1>3, <3>2 DEF EndsAt, SoundAll, SoundValue, K
  <2> QED
    BY <2>1, <2>2
<1>5. CASE c = b
  BY <1>4, <1>5, ValuesIs
<1>6. CASE c # b
  <2>0. c <= b - 2 /\ t[c + 1] = "," /\ States(t)[c + 1] = [in |-> K, at |-> Begins[Last(K)]]
    BY <1>3, <1>6 DEF EndsAt
  <2>00. Begins[Last(K)] = "value"
    BY <1>2 DEF Begins
  <2> DEFINE d == c + 1
  <2>10. c <= b - 2
    BY <2>0
  <2>11. c \in a + 1 .. b - 2 /\ d \in Nat /\ a <= d /\ d < b /\ a < d
    BY <1>0, <2>10
  <2>12. TextMax \in Nat
    BY GrammarAssumption
  <2>1. d \in Nat /\ Within(t, d, b) /\ b - d < b - a /\ c \in a + 1 .. b - 2 /\ d .. b \subseteq a .. b
    <3> HIDE DEF d
    <3> QED
      BY <1>0, <2>11, <2>12 DEF Within
  <2>2. t[d] = "," /\ States(t)[d] = [in |-> K, at |-> "value"]
    BY <2>0, <2>00
  <2> HIDE DEF d
  <2>3. SoundAll(t, d, b, States(t)[d])
    BY <2>1 DEF SoundBefore
  <2>4. /\ Expects(States(t)[d]) = "value" /\ InA(States(t)[d], "array") /\ States(t)[d].in = K
    <3>0. States(t)[d] = [in |-> K, at |-> "value"]
      BY <2>2
    <3>1. States(t)[d].at = "value" /\ States(t)[d].in = K
      BY ONLY <3>0
    <3> QED
      BY <1>2, <3>1 DEF Expects, InA
  <2>5. AsDeep(t, d, b, K) /\ States(t)[b] = Leave(K)
    BY <2>1 DEF AsDeep, K
  <2>6. IsValues(t, d, b)
    BY <2>3, <2>4, <2>5 DEF SoundAll, SoundValues
  <2>7. MoreValues(t, a, c, b)
    BY <1>4, <2>2, <2>6 DEF MoreValues, d
  <2> QED
    BY <2>1, <2>7, ValuesIs
<1> QED
  BY <1>5, <1>6

LEMMA SoundMs ==
  ASSUME NEW t \in Seq(Token), NEW a \in Nat, NEW b \in Nat, Within(t, a, b), SoundBefore(t, a, b),
         NEW st, st = States(t)[a]
  PROVE  SoundMembers(t, a, b, st)
<1> SUFFICES ASSUME Expects(st) = "name", InA(st, "object"), States(t)[b] = Leave(st.in), AsDeep(t, a, b, st.in)
             PROVE  IsMembers(t, a, b)
  BY DEF SoundMembers
<1> DEFINE K == st.in
           v == a + 2
           u == a + 1
<1>0. a < Len(t) /\ b <= Len(t) /\ a < b /\ b - a <= TextMax
  BY DEF Within
<1>1. Typed(st) /\ t[u] \in Token /\ States(t)[u] = Step(st, t[u])
  BY <1>0, StateNext
<1>2. K \in Seq(Kinds) /\ K # << >> /\ Last(K) = "object" /\ Len(K) \in Nat /\ Len(K) > 0
  BY <1>1 DEF Typed, InA
<1>3. \A i \in a .. b : Len(K) <= Depth(States(t)[i])
  BY DEF AsDeep
<1>4. Depth(Stuck) = 0 /\ \A at : Depth([in |-> K, at |-> at]) = Len(K)
  BY DEF Depth, Stuck
<1>40. States(t)[b] = Leave(K)
  OBVIOUS
<1>5. t[u] = "str" /\ States(t)[u] = [in |-> K, at |-> "colon"]
  <2>1. u \in a .. b
    BY <1>0
  <2>2. Len(K) <= Depth(States(t)[u])
    BY <1>3, <2>1
  <2> HIDE DEF u
  <2>3. States(t)[u] # Stuck
    BY <1>2, <1>4, <2>2
  <2>4. ~Closes(st, t[u])
    <3> SUFFICES ASSUME Closes(st, t[u]) PROVE FALSE
      OBVIOUS
    <3>1. States(t)[u] = Leave(Front(K))
      BY <1>1, StepName
    <3>2. Len(Front(K)) = Len(K) - 1 /\ States(t)[u].in = Front(K)
      BY <1>2, <3>1, LastKind, LeaveTyped
    <3> QED
      BY <1>2, <2>2, <3>2 DEF Depth
  <2> QED
    BY <1>1, <2>3, <2>4, StepName
<1>6. u # b
  BY <1>2, <1>5, <1>40, LeaveNot
<1>7. u \in Nat /\ u < b /\ u < Len(t) /\ u + 1 = v /\ v \in a .. b
  BY <1>0, <1>6
<1>8. t[v] = ":" /\ States(t)[v] = [in |-> K, at |-> "value"]
  <2> HIDE DEF u, v, K
  <2>1. Typed(States(t)[u]) /\ t[u + 1] \in Token /\ States(t)[u + 1] = Step(States(t)[u], t[u + 1])
    BY <1>7, StateNext
  <2>2. Typed(States(t)[u]) /\ t[v] \in Token /\ States(t)[v] = Step(States(t)[u], t[v])
    BY <1>7, <2>1
  <2>3. States(t)[u].at = "colon" /\ States(t)[u].in = K
    BY <1>5
  <2>4. States(t)[v] = IF t[v] = ":" THEN [in |-> K, at |-> "value"] ELSE Stuck
    BY <2>2, <2>3, StepColon
  <2>5. States(t)[v] # Stuck
    BY <1>2, <1>3, <1>4, <1>7
  <2> QED
    BY <2>4, <2>5
<1>9. v # b
  BY <1>2, <1>8, <1>40, LeaveNot
<1>10. /\ v \in Nat /\ v < b /\ v .. b \subseteq a .. b /\ v = a + 2 /\ a + 3 <= b
       /\ Within(t, v, b) /\ b - v < b - a
  BY <1>0, <1>7, <1>9, GrammarAssumption DEF Within
<1>11. Name(t, a)
  BY <1>5, <1>8 DEF Name
<1> HIDE DEF K, u, v
<1>12. Expects(States(t)[v]) = "value" /\ States(t)[v].in = K /\ AsDeep(t, v, b, K)
  BY <1>3, <1>8, <1>10 DEF Expects, AsDeep
<1>13. PICK c \in v + 1 .. b : EndsAt(t, v, b, c, K)
  BY <1>0, <1>10, <1>12, <1>2, <1>40, FirstEnds
<1>14. IsValue(t, v, c)
  <2>1. c \in Nat /\ Within(t, v, c) /\ c - v < b - a
    BY <1>0, <1>10, GrammarAssumption DEF Within
  <2>2. SoundAll(t, v, c, States(t)[v])
    BY <1>10, <2>1 DEF SoundBefore
  <2> QED
    BY <1>12, <1>13, <2>2 DEF EndsAt, SoundAll, SoundValue
<1>15. CASE c = b
  BY <1>10, <1>11, <1>14, <1>15, MembersIs
<1>16. CASE c # b
  <2>0. c <= b - 2 /\ t[c + 1] = "," /\ States(t)[c + 1] = [in |-> K, at |-> Begins[Last(K)]]
    BY <1>13, <1>16 DEF EndsAt
  <2>00. Begins[Last(K)] = "name"
    BY <1>2 DEF Begins
  <2> DEFINE d == c + 1
  <2>10. c <= b - 2
    BY <2>0
  <2>11. c \in a + 3 .. b - 2 /\ d \in Nat /\ a <= d /\ d < b /\ a < d
    BY <1>0, <1>10, <2>10
  <2>12. TextMax \in Nat
    BY GrammarAssumption
  <2>1. d \in Nat /\ Within(t, d, b) /\ b - d < b - a /\ c \in a + 3 .. b - 2 /\ d .. b \subseteq a .. b
    <3> HIDE DEF d
    <3> QED
      BY <1>0, <2>11, <2>12 DEF Within
  <2>2. t[d] = "," /\ States(t)[d] = [in |-> K, at |-> "name"]
    BY <2>0, <2>00
  <2> HIDE DEF d
  <2>3. SoundAll(t, d, b, States(t)[d])
    BY <2>1 DEF SoundBefore
  <2>4. /\ Expects(States(t)[d]) = "name" /\ InA(States(t)[d], "object") /\ States(t)[d].in = K
    <3>0. States(t)[d] = [in |-> K, at |-> "name"]
      BY <2>2
    <3>1. States(t)[d].at = "name" /\ States(t)[d].in = K
      BY ONLY <3>0
    <3> QED
      BY <1>2, <3>1 DEF Expects, InA
  <2>5. AsDeep(t, d, b, K)
    BY <1>3, <2>1 DEF AsDeep
  <2>6. IsMembers(t, d, b)
    BY <1>40, <2>3, <2>4, <2>5 DEF SoundAll, SoundMembers
  <2>7. MoreMembers(t, a, c, b)
    BY <1>10, <1>14, <2>2, <2>6 DEF MoreMembers, d
  <2> QED
    BY <1>10, <1>11, <2>1, <2>7, MembersIs
<1> QED
  BY <1>15, <1>16

LEMMA ReadsSound ==
  ASSUME NEW t \in Seq(Token), NEW a \in Nat, NEW b \in Nat, Within(t, a, b)
  PROVE  SoundAll(t, a, b, States(t)[a])
<1> DEFINE T == {m \in Nat : \A c, d \in Nat : Within(t, c, d) /\ d - c < m => SoundAll(t, c, d, States(t)[c])}
<1>1. 0 \in T
  BY DEF Within
<1>2. ASSUME NEW m \in Nat, m \in T PROVE m + 1 \in T
  <2> SUFFICES ASSUME NEW c \in Nat, NEW d \in Nat, Within(t, c, d), d - c < m + 1
               PROVE  SoundAll(t, c, d, States(t)[c])
    OBVIOUS
  <2>1. d - c <= m /\ d - c \in Int
    OBVIOUS
  <2>2. SoundBefore(t, c, d)
    BY <1>2, <2>1 DEF SoundBefore
  <2> HIDE DEF T
  <2> QED
    BY <2>2, SoundV, SoundVs, SoundMs DEF SoundAll
<1>3. Nat \subseteq T
  <2> HIDE DEF T
  <2> QED
    BY <1>1, <1>2, NatSetInduction
<1>4. (b - a) + 1 \in T
  <2>1. (b - a) + 1 \in Nat
    BY DEF Within
  <2> HIDE DEF T
  <2> QED
    BY <1>3, <2>1
<1> QED
  BY <1>4

-----------------------------------------------------------------------------
(* A text of the grammar is one the reader leaves.                         *)

LEMMA PartAll ==
  ASSUME NEW t \in Seq(Token), Len(t) > 0
  PROVE  Part(t, 0, Len(t)) = t
<1> DEFINE p == Part(t, 0, Len(t))
           n == Len(t)
<1>1. n \in Nat /\ 0 <= n /\ n <= Len(t) /\ n - 0 = n /\ \A i \in 1 .. n : 0 + i = i
  OBVIOUS
<1>2. p \in Seq(Token) /\ Len(p) = n - 0 /\ \A i \in 1 .. n - 0 : p[i] = t[0 + i]
  <2> HIDE DEF n
  <2>1. Part(t, 0, n) \in Seq(Token) /\ Len(Part(t, 0, n)) = n - 0 /\ \A i \in 1 .. n - 0 : Part(t, 0, n)[i] = t[0 + i]
    BY <1>1, PartIs
  <2> QED
    BY <2>1 DEF n
<1> HIDE DEF p
<1>3. \A i \in 1 .. n : p[i] = t[i]
  BY <1>1, <1>2
<1>4. p = t
  BY <1>1, <1>2, <1>3, ST!SeqEqual
<1> QED
  BY <1>4 DEF p

LEMMA GrammarRead ==
  ASSUME NEW t \in Seq(Token), NEW n, n = Len(t), n \in 1 .. TextMax
  PROVE  t \in G[n].value <=> Final(t) = Leave(<< >>)
<1>0. Within(t, 0, n) /\ n \in Nat /\ n > 0 /\ n \in 0 .. n
  BY GrammarAssumption DEF Within
<1>1. IsValue(t, 0, n) <=> t \in G[n].value
  <2>1. n - 0 = n
    BY <1>0
  <2> QED
    BY <1>0, <2>1, PartAll DEF IsValue
<1> DEFINE st == States(t)[0]
<1>2. st = Fresh /\ Expects(st) = "value" /\ st.in = << >>
  BY StatesAre DEF Fresh, Expects
<1>3. Final(t) = States(t)[n]
  BY DEF Final
<1> HIDE DEF st
<1>4. ASSUME IsValue(t, 0, n) PROVE States(t)[n] = Leave(<< >>)
  <2>1. LeavesAll(t, 0, n, st)
    BY <1>0, ReadsValues DEF st
  <2> QED
    BY <1>2, <1>4, <2>1 DEF LeavesAll, LeavesValue
<1>5. ASSUME States(t)[n] = Leave(<< >>) PROVE IsValue(t, 0, n)
  <2>1. ASSUME NEW i \in 0 + 1 .. n - 1 PROVE Len(<< >>) < Depth(States(t)[i])
    <3> DEFINE si == States(t)[i]
    <3>1. i \in 1 .. Len(t) /\ i \in 0 .. Len(t) /\ n \in 0 .. Len(t) /\ i < n /\ i - 1 \in 0 .. Len(t) /\ t[i] \in Token
      BY <1>0
    <3>2. Typed(si)
      BY <3>1, StatesTyped
    <3>3. si \notin {Stuck, Leave(<< >>)}
      <4> SUFFICES ASSUME si \in {Stuck, Leave(<< >>)} PROVE FALSE
        OBVIOUS
      <4>1. States(t)[n] = Stuck
        BY <3>1, StuckStays
      <4> QED
        BY <1>5, <4>1 DEF Stuck, Leave
    <3>4. si = Step(States(t)[i - 1], t[i]) /\ Typed(States(t)[i - 1])
      BY <3>1, StatesAre, StatesTyped
    <3> HIDE DEF si
    <3>5. si.in # << >>
      BY <3>1, <3>3, <3>4, StepOutside
    <3>6. Len(si.in) > 0 /\ Len(<< >>) = 0
      BY <3>2, <3>5 DEF Typed
    <3> QED
      BY <3>6 DEF Depth, si
  <2>2. Deeper(t, 0 + 1, n - 1, << >>)
    BY <2>1 DEF Deeper
  <2>3. SoundAll(t, 0, n, st)
    BY <1>0, ReadsSound DEF st
  <2> QED
    BY <1>2, <1>5, <2>2, <2>3 DEF SoundAll, SoundValue
<1> QED
  BY <1>1, <1>3, <1>4, <1>5

-----------------------------------------------------------------------------
(* How deep it is nested.                                                  *)

Closers == {"]", "}"}
Bias(x) == IF x \in Open THEN 1 ELSE IF x \in Closers THEN -1 ELSE 0

Tally(p, S) == Cardinality({i \in DOMAIN p : p[i] \in S})
LEMMA TallyAppend ==
  ASSUME NEW p \in Seq(Token), NEW x \in Token, NEW S
  PROVE  /\ Tally(p, S) \in Nat
         /\ Tally(Append(p, x), S) = Tally(p, S) + (IF x \in S THEN 1 ELSE 0)
<1> DEFINE n == Len(p)
           q == Append(p, x)
           A == {i \in DOMAIN p : p[i] \in S}
           B == {i \in DOMAIN q : q[i] \in S}
<1>1. /\ n \in Nat /\ DOMAIN p = 1 .. n /\ DOMAIN q = 1 .. n + 1 /\ q[n + 1] = x
      /\ \A i \in 1 .. n : q[i] = p[i]
  OBVIOUS
<1>2. IsFiniteSet(A)
  <2>1. IsFiniteSet(1 .. n)
    <3>1. 1 \in Int /\ n \in Int
      BY <1>1
    <3> HIDE DEF n
    <3> QED
      BY <3>1, FS_Interval
  <2>2. A \subseteq 1 .. n
    BY <1>1
  <2> QED
    BY <2>1, <2>2, FS_Subset
<1>3. Cardinality(A) \in Nat
  BY <1>2, FS_CardinalityType
<1>4. n + 1 \notin A
  BY <1>1
<1>5. B = IF x \in S THEN A \cup {n + 1} ELSE A
  <2> HIDE DEF q, n
  <2>1. ASSUME NEW i PROVE i \in B <=> i \in A \/ (i = n + 1 /\ x \in S)
    <3>1. i \in 1 .. n + 1 <=> i \in 1 .. n \/ i = n + 1
      BY <1>1
    <3>2. n + 1 \notin 1 .. n
      BY <1>1
    <3> QED
      BY <1>1, <3>1, <3>2
  <2> HIDE DEF A, B
  <2> QED
    BY <2>1
<1> HIDE DEF A, B
<1>6. Cardinality(A \cup {n + 1}) = Cardinality(A) + 1
  BY <1>2, <1>4, FS_AddElement
<1>7. Cardinality(B) = Cardinality(A) + (IF x \in S THEN 1 ELSE 0)
  BY <1>3, <1>5, <1>6
<1> QED
  BY <1>3, <1>7 DEF A, B, Tally

LEMMA NestingAppend ==
  ASSUME NEW p \in Seq(Token), NEW x \in Token
  PROVE  Nesting(p) \in Int /\ Nesting(Append(p, x)) = Nesting(p) + Bias(x)
<1> DEFINE a == Tally(p, Open)
           b == Tally(p, Closers)
           c == Tally(Append(p, x), Open)
           d == Tally(Append(p, x), Closers)
<1>1. a \in Nat /\ c = a + (IF x \in Open THEN 1 ELSE 0)
  BY TallyAppend
<1>2. b \in Nat /\ d = b + (IF x \in Closers THEN 1 ELSE 0)
  BY TallyAppend
<1>3. Nesting(p) = a - b /\ Nesting(Append(p, x)) = c - d
  BY DEF Nesting, Closers, Tally
<1>4. ~(x \in Open /\ x \in Closers)
  BY DEF Open, Closers
<1> HIDE DEF a, b, c, d
<1> QED
  BY <1>1, <1>2, <1>3, <1>4 DEF Bias

LEMMA NestingNone ==
  Nesting(<< >>) = 0
<1>1. DOMAIN << >> = {}
  OBVIOUS
<1>2. {i \in DOMAIN << >> : << >>[i] \in Open} = {} /\ {i \in DOMAIN << >> : << >>[i] \in {"]", "}"}} = {}
  BY <1>1
<1>3. Cardinality({}) = 0
  BY FS_EmptySet
<1> QED
  BY <1>2, <1>3 DEF Nesting

LEMMA StepBias ==
  ASSUME NEW st, Typed(st), NEW x \in Token, Step(st, x) # Stuck
  PROVE  Depth(st) \in Nat /\ Depth(Step(st, x)) = Depth(st) + Bias(x)
<1>0. st.in \in Seq(Kinds) /\ Len(st.in) \in Nat /\ (st.at \in {"opened", "more"} => st.in # << >>)
  BY DEF Typed
<1>1. CASE Closes(st, x)
  <2>1. st.in # << >> /\ Step(st, x) = Leave(Front(st.in)) /\ x = Closing[Last(st.in)]
    BY <1>0, <1>1 DEF Closes, Step
  <2>2. Last(st.in) \in Kinds /\ Front(st.in) \in Seq(Kinds) /\ Len(Front(st.in)) = Len(st.in) - 1
    BY <1>0, <2>1, LastKind
  <2>3. Bias(x) = -1
    BY <2>1, <2>2, KindIs DEF Kinds, Bias, Closers, Open
  <2>4. Step(st, x).in = Front(st.in)
    BY <2>1, <2>2, LeaveTyped
  <2> QED
    BY <1>0, <2>2, <2>3, <2>4 DEF Depth
<1>2. CASE ~Closes(st, x)
  <2>1. CASE x \in Open
    <3>1. Expects(st) = "value"
      BY <1>2, <2>1 DEF Step, Open
    <3>2. Step(st, x) = [in |-> Append(st.in, KindOf[x]), at |-> "opened"]
      BY <2>1, <3>1, StepValue
    <3>3. Len(Append(st.in, KindOf[x])) = Len(st.in) + 1
      BY <1>0
    <3>4. Bias(x) = 1
      BY <2>1 DEF Bias
    <3> QED
      BY <1>0, <3>2, <3>3, <3>4 DEF Depth
  <2>2. CASE x \in Closers
    <3>1. x \notin Scalar \cup Open \cup {",", ":", "str"}
      BY <2>2 DEF Closers, Scalar, Open, Word, Number
    <3> QED
      BY <1>2, <3>1 DEF Step
  <2>3. CASE x \notin Open \cup Closers
    <3>1. Bias(x) = 0
      BY <2>3 DEF Bias
    <3>2. Step(st, x).in = st.in
      BY <1>2, <2>3, StepMoves
    <3> QED
      BY <1>0, <3>1, <3>2 DEF Depth
  <2> QED
    BY <2>1, <2>2, <2>3
<1> QED
  BY <1>0, <1>1, <1>2 DEF Depth

LEMMA PrefixNext ==
  ASSUME NEW t \in Seq(Token), NEW i \in Nat, i < Len(t)
  PROVE  SubSeq(t, 1, i) \in Seq(Token) /\ SubSeq(t, 1, i + 1) = Append(SubSeq(t, 1, i), t[i + 1])
<1>1. i + 1 \in 1 .. Len(t) /\ t[i + 1] \in Token
  OBVIOUS
<1> DEFINE j == i + 1
           p == SubSeq(t, 1, i)
           q == SubSeq(t, 1, j)
           r == Append(p, t[j])
<1>2. \A k \in 1 .. i : t[k] \in Token
  OBVIOUS
<1>3. \A k \in 1 .. j : t[k] \in Token
  OBVIOUS
<1>4. p \in Seq(Token) /\ Len(p) = (IF 1 <= i THEN i - 1 + 1 ELSE 0) /\ \A k \in 1 .. i - 1 + 1 : p[k] = t[1 + k - 1]
  BY <1>2, ST!SubSeqProperties
<1>5. q \in Seq(Token) /\ Len(q) = (IF 1 <= j THEN j - 1 + 1 ELSE 0) /\ \A k \in 1 .. j - 1 + 1 : q[k] = t[1 + k - 1]
  <2>1. j \in Nat /\ 1 \in Nat
    OBVIOUS
  <2> HIDE DEF j
  <2> QED
    BY <1>3, <2>1, ST!SubSeqProperties
<1> HIDE DEF p, q
<1>6. Len(p) = i /\ \A k \in 1 .. i : p[k] = t[k]
  <2>1. \A k \in 1 .. i : k \in 1 .. i - 1 + 1 /\ 1 + k - 1 = k
    OBVIOUS
  <2> QED
    BY <1>4, <2>1
<1>7. Len(q) = j /\ \A k \in 1 .. j : q[k] = t[k]
  <2>1. \A k \in 1 .. j : k \in 1 .. j - 1 + 1 /\ 1 + k - 1 = k
    OBVIOUS
  <2>2. 1 <= j /\ j - 1 + 1 = j
    OBVIOUS
  <2> HIDE DEF j
  <2> QED
    BY <1>5, <2>1, <2>2
<1>8. r \in Seq(Token) /\ Len(r) = j /\ \A k \in 1 .. j : r[k] = t[k]
  <2>1. r \in Seq(Token) /\ Len(r) = Len(p) + 1 /\ \A k \in 1 .. Len(p) : r[k] = p[k]
    BY <1>1, <1>4
  <2>2. r[Len(p) + 1] = t[j]
    BY <1>1, <1>4
  <2> HIDE DEF r
  <2> QED
    BY <1>6, <2>1, <2>2
<1> HIDE DEF r
<1>9. q = r
  BY <1>5, <1>7, <1>8, ST!SeqEqual
<1> QED
  BY <1>4, <1>9 DEF p, q, r

LEMMA PrefixSame ==
  ASSUME NEW t \in Seq(Token), NEW l \in 0 .. Len(t)
  PROVE  Len(SubSeq(t, 1, l)) = l /\ \A i \in 1 .. l : SubSeq(t, 1, l)[i] = t[i]
<1>1. 0 \in Nat /\ l \in Nat /\ 0 <= l /\ l <= Len(t) /\ l - 0 = l /\ 0 + 1 = 1 /\ \A i \in 1 .. l : 0 + i = i
  OBVIOUS
<1>2. Len(Part(t, 0, l)) = l - 0 /\ \A i \in 1 .. l - 0 : Part(t, 0, l)[i] = t[0 + i]
  BY <1>1, PartIs
<1>3. Part(t, 0, l) = SubSeq(t, 1, l)
  BY <1>1 DEF Part
<1> DEFINE p == Part(t, 0, l)
<1> HIDE DEF p
<1>4. Len(p) = l /\ \A i \in 1 .. l : p[i] = t[i]
  BY <1>1, <1>2 DEF p
<1> QED
  BY <1>3, <1>4 DEF p

LEMMA NestingIsDepth ==
  ASSUME NEW t \in Seq(Token)
  PROVE  \A i \in 0 .. Len(t) : States(t)[i] # Stuck => Nesting(SubSeq(t, 1, i)) = Depth(States(t)[i])
<1> DEFINE T == {m \in Nat : m <= Len(t) /\ States(t)[m] # Stuck => Nesting(SubSeq(t, 1, m)) = Depth(States(t)[m])}
<1>1. 0 \in T
  <2>1. SubSeq(t, 1, 0) = << >>
    OBVIOUS
  <2>2. Depth(States(t)[0]) = 0
    BY StatesAre DEF Depth, Fresh
  <2> QED
    BY <2>1, <2>2, NestingNone
<1>2. ASSUME NEW m \in Nat, m \in T PROVE m + 1 \in T
  <2> SUFFICES ASSUME m + 1 <= Len(t), States(t)[m + 1] # Stuck
               PROVE  Nesting(SubSeq(t, 1, m + 1)) = Depth(States(t)[m + 1])
    OBVIOUS
  <2>1. m < Len(t) /\ m \in 0 .. Len(t) /\ m + 1 \in 0 .. Len(t) /\ m < m + 1
    OBVIOUS
  <2>2. States(t)[m] # Stuck
    BY <2>1, StuckStays
  <2>3. Nesting(SubSeq(t, 1, m)) = Depth(States(t)[m])
    BY <1>2, <2>1, <2>2
  <2> HIDE DEF T
  <2>4. SubSeq(t, 1, m) \in Seq(Token) /\ SubSeq(t, 1, m + 1) = Append(SubSeq(t, 1, m), t[m + 1])
    BY <2>1, PrefixNext
  <2>5. Typed(States(t)[m]) /\ t[m + 1] \in Token /\ States(t)[m + 1] = Step(States(t)[m], t[m + 1])
    BY <2>1, StateNext
  <2>6. Nesting(SubSeq(t, 1, m + 1)) = Nesting(SubSeq(t, 1, m)) + Bias(t[m + 1])
    BY <2>4, <2>5, NestingAppend
  <2>7. Depth(States(t)[m + 1]) = Depth(States(t)[m]) + Bias(t[m + 1])
    BY <2>5, StepBias
  <2> QED
    BY <2>3, <2>6, <2>7
<1>3. Nat \subseteq T
  <2> HIDE DEF T
  <2> QED
    BY <1>1, <1>2, NatSetInduction
<1> QED
  BY <1>3

-----------------------------------------------------------------------------

(* The reader tells JSON texts from all others: it leaves them, and them    *)
(* only, with nothing open and never deeper than the limit.                *)
THEOREM JsonTextIsRead ==
  ASSUME NEW t \in Seq(Token), Len(t) \in 1 .. TextMax
  PROVE  t \in JsonText <=>
           Final(t) = Leave(<< >>) /\ Shallow(t)
<1> DEFINE n == Len(t)
<1>1. t \in G[n].value <=> Final(t) = Leave(<< >>)
  BY GrammarRead
<1>2. t \in UNION {G[k].value : k \in 1 .. TextMax} <=> t \in G[n].value
  <2>1. ASSUME NEW k \in 1 .. TextMax, t \in G[k].value PROVE k = n
    <3>1. k \in 0 .. TextMax
      BY <2>1
    <3>2. Sized(G[k].value, k)
      BY <3>1, SizedSeq
    <3> QED
      BY <2>1, <3>2 DEF Sized
  <2>2. n \in 1 .. TextMax
    OBVIOUS
  <2> HIDE DEF n
  <2> QED
    BY <2>1, <2>2
<1>3. n \in Nat /\ DOMAIN t = 1 .. n /\ NestLimit \in Nat
  BY GrammarAssumption
<1>4. ASSUME Final(t) = Leave(<< >>)
      PROVE  (\A i \in DOMAIN t : Nesting(SubSeq(t, 1, i)) <= NestLimit) <=>
             \A i \in 0 .. n : Len(States(t)[i].in) <= NestLimit
  <2>1. ASSUME NEW i \in 1 .. n PROVE Nesting(SubSeq(t, 1, i)) = Len(States(t)[i].in)
    <3>1. i \in 0 .. n /\ n \in 0 .. n /\ (i # n => i < n)
      <4> HIDE DEF n
      <4>1. n \in Nat
        BY <1>3
      <4> QED
        BY <4>1
    <3>2. States(t)[i] # Stuck
      <4> SUFFICES ASSUME States(t)[i] = Stuck PROVE FALSE
        OBVIOUS
      <4>1. States(t)[n] = Stuck
        BY <3>1, StuckStays
      <4> QED
        BY <1>4, <4>1 DEF Final, Leave, Stuck
    <3> QED
      BY <3>1, <3>2, NestingIsDepth DEF Depth
  <2>2. Len(States(t)[0].in) <= NestLimit
    BY <1>3, StatesAre DEF Fresh
  <2>3. 0 .. n = {0} \cup 1 .. n
    BY <1>3
  <2> HIDE DEF n
  <2> QED
    BY <1>3, <2>1, <2>2, <2>3
<1> QED
  BY <1>1, <1>2, <1>4 DEF JsonText, Shallow

LEMMA JsonTextSized ==
  ASSUME NEW t \in JsonText
  PROVE  t \in Seq(Token) /\ Len(t) \in 1 .. TextMax
<1>1. PICK n \in 1 .. TextMax : t \in G[n].value
  BY DEF JsonText
<1>2. n \in 0 .. TextMax
  OBVIOUS
<1>3. Sized(G[n].value, n)
  BY <1>2, SizedSeq
<1> QED
  BY <1>1, <1>3 DEF Sized

(* What the reader refuses is not the beginning of a JSON text, and does    *)
(* not begin with one.                                                     *)
THEOREM RefusedIsNone ==
  ASSUME NEW t \in Seq(Token), Refused(t)
  PROVE  t \notin JsonStart /\ Prefixes(t) \cap JsonText = {}
<1>1. PICK m \in 1 .. Len(t) :
        /\ States(t)[m] = Stuck \/ Len(States(t)[m].in) > NestLimit
        /\ \A i \in 0 .. m - 1 : States(t)[i] # Leave(<< >>)
  BY DEF Refused
<1>2. ASSUME NEW r \in JsonText, NEW n \in 0 .. Len(t), n <= Len(r), m <= n, \A i \in 1 .. n : t[i] = r[i]
      PROVE  FALSE
  <2>1. r \in Seq(Token) /\ Len(r) \in 1 .. TextMax /\ Len(r) \in Nat /\ n \in Nat /\ n <= Len(t)
    BY JsonTextSized
  <2>2. States(r)[m] = States(t)[m]
    <3>1. \A i \in 0 .. n : States(t)[i] = States(r)[i]
      BY <1>2, <2>1, StatesAgree
    <3>2. m \in 0 .. n
      BY <1>2
    <3> QED
      BY <3>1, <3>2
  <2>3. Final(r) = Leave(<< >>) /\ \A i \in 0 .. Len(r) : Len(States(r)[i].in) <= NestLimit
    BY <2>1, JsonTextIsRead DEF Shallow
  <2>4. m \in 0 .. Len(r) /\ Len(r) \in 0 .. Len(r) /\ (m # Len(r) => m < Len(r))
    BY <1>2, <2>1
  <2>5. States(r)[m] # Stuck
    <3> SUFFICES ASSUME States(r)[m] = Stuck PROVE FALSE
      OBVIOUS
    <3>1. States(r)[Len(r)] = Stuck
      BY <2>1, <2>4, StuckStays
    <3> QED
      BY <2>3, <3>1 DEF Final, Leave, Stuck
  <2>6. Len(States(r)[m].in) <= NestLimit /\ Len(States(r)[m].in) > NestLimit
    BY <1>1, <2>2, <2>3, <2>4, <2>5
  <2>7. Len(States(r)[m].in) \in Nat /\ NestLimit \in Nat
    BY <2>1, <2>4, StatesTyped, GrammarAssumption DEF Typed
  <2> QED
    BY <2>6, <2>7
<1>3. ASSUME NEW r \in JsonText, t \in Prefixes(r) PROVE FALSE
  <2>1. PICK l \in 0 .. Len(r) : t = SubSeq(r, 1, l)
    BY <1>3 DEF Prefixes
  <2>2. r \in Seq(Token) /\ Len(r) \in Nat
    BY JsonTextSized
  <2>3. Len(t) = l /\ \A i \in 1 .. l : t[i] = r[i]
    BY <2>1, <2>2, PrefixSame
  <2>4. l \in 0 .. Len(t) /\ l <= Len(r) /\ m <= l
    BY <2>2, <2>3
  <2> QED
    BY <1>2, <2>3, <2>4
<1>4. ASSUME NEW r \in JsonText, r \in Prefixes(t) PROVE FALSE
  <2>1. PICK l \in 0 .. Len(t) : r = SubSeq(t, 1, l)
    BY <1>4 DEF Prefixes
  <2>2. Len(r) = l /\ \A i \in 1 .. l : r[i] = t[i]
    BY <2>1, PrefixSame
  <2>3. r \in Seq(Token) /\ Len(r) \in 1 .. TextMax
    BY JsonTextSized
  <2>4. Final(r) = Leave(<< >>)
    BY <2>3, JsonTextIsRead
  <2>5. States(t)[l] = Leave(<< >>)
    <3>1. l \in Nat /\ l <= Len(t) /\ l <= Len(r) /\ l \in 0 .. l
      BY <2>2
    <3>2. \A i \in 0 .. l : States(r)[i] = States(t)[i]
      BY <2>2, <2>3, <3>1, StatesAgree
    <3> QED
      BY <2>2, <2>4, <3>1, <3>2 DEF Final
  <2>6. m <= l
    <3>1. l \notin 0 .. m - 1
      BY <1>1, <2>5
    <3> QED
      BY <3>1
  <2> QED
    BY <1>2, <2>2, <2>6
<1> QED
  BY <1>3, <1>4 DEF JsonStart

-----------------------------------------------------------------------------
(* A text without white space.                                             *)

(* f is what is left of t, up to every place as far as b.                  *)
Plains(f, t, b) ==
  /\ f \in [0 .. b -> Seq(Token)] /\ f[0] = << >>
  /\ \A i \in 1 .. b : f[i] = IF Blank(t, i) THEN f[i - 1] ELSE Append(f[i - 1], t[i])

LEMMA PlainsExists ==
  ASSUME NEW t \in Seq(Token), NEW b \in Nat, b <= Len(t)
  PROVE  \E f : Plains(f, t, b)
<1> DEFINE T == {n \in Nat : n <= Len(t) => \E f : Plains(f, t, n)}
<1>1. 0 \in T
  <2> DEFINE z == [i \in 0 .. 0 |-> << >>]
  <2>1. z \in [0 .. 0 -> Seq(Token)] /\ z[0] = << >> /\ 1 .. 0 = {}
    OBVIOUS
  <2> HIDE DEF z
  <2>2. Plains(z, t, 0)
    BY <2>1 DEF Plains
  <2> QED
    BY <2>2
<1>2. ASSUME NEW m \in Nat, m \in T PROVE m + 1 \in T
  <2> SUFFICES ASSUME m + 1 <= Len(t) PROVE \E f : Plains(f, t, m + 1)
    OBVIOUS
  <2>1. m <= Len(t) /\ m + 1 \in 1 .. Len(t) /\ t[m + 1] \in Token
    OBVIOUS
  <2>2. PICK f : Plains(f, t, m)
    BY <1>2, <2>1
  <2> DEFINE v == IF Blank(t, m + 1) THEN f[m] ELSE Append(f[m], t[m + 1])
             g == [i \in 0 .. m + 1 |-> IF i = m + 1 THEN v ELSE f[i]]
  <2>3. f[m] \in Seq(Token)
    BY <2>2 DEF Plains
  <2>4. v \in Seq(Token)
    BY <2>1, <2>3
  <2>5. \A i \in 0 .. m : f[i] \in Seq(Token) /\ g[i] = f[i]
    BY <2>2 DEF Plains
  <2>6. g \in [0 .. m + 1 -> Seq(Token)] /\ g[0] = << >> /\ g[m + 1] = v
    BY <2>2, <2>4, <2>5 DEF Plains
  <2>7. ASSUME NEW i \in 1 .. m + 1
        PROVE  g[i] = IF Blank(t, i) THEN g[i - 1] ELSE Append(g[i - 1], t[i])
    <3>1. i - 1 \in 0 .. m /\ g[i - 1] = f[i - 1]
      BY <2>5
    <3>2. CASE i = m + 1
      <4>1. i - 1 = m
        BY <3>2
      <4> QED
        BY <2>6, <3>1, <3>2, <4>1
    <3>3. CASE i # m + 1
      <4>1. i \in 1 .. m /\ g[i] = f[i]
        BY <2>5, <3>3
      <4> QED
        BY <2>2, <3>1, <4>1 DEF Plains
    <3> QED
      BY <3>2, <3>3
  <2> HIDE DEF g, v
  <2>8. Plains(g, t, m + 1)
    BY <2>6, <2>7 DEF Plains
  <2> QED
    BY <2>8
<1>3. Nat \subseteq T
  <2> HIDE DEF T
  <2> QED
    BY <1>1, <1>2, NatSetInduction
<1> QED
  BY <1>3

LEMMA PlainIs ==
  ASSUME NEW t \in Seq(Token), NEW f, Plains(f, t, Len(t))
  PROVE  Plain(t) = f[Len(t)]
<1> DEFINE n == Len(t)
           g == CHOOSE h : h = [i \in 0 .. Len(t) |->
                  IF i = 0 THEN << >>
                  ELSE IF Blank(t, i) THEN h[i - 1] ELSE Append(h[i - 1], t[i])]
<1>0. n \in Nat
  OBVIOUS
<1>1. Plain(t) = g[Len(t)]
  BY DEF Plain
<1>2. f = [i \in 0 .. n |->
             IF i = 0 THEN << >>
             ELSE IF Blank(t, i) THEN f[i - 1] ELSE Append(f[i - 1], t[i])]
  <2> DEFINE e == [i \in 0 .. n |->
             IF i = 0 THEN << >>
             ELSE IF Blank(t, i) THEN f[i - 1] ELSE Append(f[i - 1], t[i])]
  <2> HIDE DEF n
  <2>1. ASSUME NEW i \in 0 .. n PROVE e[i] = f[i]
    <3>1. CASE i = 0
      BY <3>1 DEF Plains, n
    <3>2. CASE i # 0
      <4>1. i \in 1 .. n
        BY <1>0, <3>2
      <4> QED
        BY <3>2, <4>1 DEF Plains, n
    <3> QED
      BY <3>1, <3>2
  <2>2. f = [i \in 0 .. n |-> f[i]]
    BY DEF Plains, n
  <2>3. e = [i \in 0 .. n |-> f[i]]
    BY <2>1
  <2> QED
    BY <2>2, <2>3
<1>3. g = [i \in 0 .. n |->
             IF i = 0 THEN << >>
             ELSE IF Blank(t, i) THEN g[i - 1] ELSE Append(g[i - 1], t[i])]
  BY <1>2, Zenon
<1> HIDE DEF g
<1> DEFINE T == {m \in Nat : m <= n => g[m] = f[m]}
<1>4. 0 \in T
  <2>1. g[0] = << >>
    BY <1>0, <1>3
  <2> QED
    BY <2>1 DEF Plains
<1>5. ASSUME NEW m \in Nat, m \in T PROVE m + 1 \in T
  <2> SUFFICES ASSUME m + 1 <= n PROVE g[m + 1] = f[m + 1]
    OBVIOUS
  <2> DEFINE i == m + 1
  <2>1. i \in 1 .. n /\ i \in 0 .. n /\ i # 0 /\ i - 1 = m
    BY <1>0
  <2>2. g[i - 1] = f[i - 1]
    BY <1>5, <2>1
  <2> HIDE DEF i
  <2>3. g[i] = IF Blank(t, i) THEN g[i - 1] ELSE Append(g[i - 1], t[i])
    BY <1>3, <2>1
  <2>4. f[i] = IF Blank(t, i) THEN f[i - 1] ELSE Append(f[i - 1], t[i])
    BY <2>1 DEF Plains
  <2>5. g[i] = f[i]
    BY <2>2, <2>3, <2>4
  <2> QED
    BY <2>5 DEF i
<1>6. n \in T
  <2> HIDE DEF T
  <2> QED
    BY <1>0, <1>4, <1>5, NatSetInduction
<1> QED
  BY <1>0, <1>1, <1>6

LEMMA PlainPrefix ==
  ASSUME NEW s \in Seq(Token), NEW b \in 0 .. Len(s), NEW f, Plains(f, s, b)
  PROVE  Taken(s, b) = f[b]
<1> DEFINE t == SubSeq(s, 1, b)
<1>1. Len(t) = b /\ \A i \in 1 .. b : t[i] = s[i]
  BY PrefixSame
<1>2. t \in Seq(Token)
  <2>1. \A i \in 1 .. b : s[i] \in Token
    OBVIOUS
  <2>2. b \in Nat /\ 1 \in Nat
    OBVIOUS
  <2> QED
    BY <2>1, <2>2, ST!SubSeqProperties
<1> HIDE DEF t
<1>3. \A i \in 1 .. b : Blank(t, i) <=> Blank(s, i)
  BY <1>1 DEF Blank
<1>4. Plains(f, t, b)
  BY <1>1, <1>3 DEF Plains
<1>5. Plain(t) = f[b]
  BY <1>1, <1>2, <1>4, PlainIs
<1> QED
  BY <1>5 DEF t, Taken

(* One token more.                                                         *)
LEMMA TakenNext ==
  ASSUME NEW s \in Seq(Token), NEW b \in Nat, b < Len(s)
  PROVE  /\ Taken(s, b) \in Seq(Token)
         /\ Taken(s, b + 1) = IF Blank(s, b + 1) THEN Taken(s, b) ELSE Append(Taken(s, b), s[b + 1])
<1> DEFINE c == b + 1
<1>1. c \in Nat /\ c <= Len(s) /\ c \in 0 .. Len(s) /\ b \in 0 .. Len(s) /\ c \in 1 .. c /\ c - 1 = b
  OBVIOUS
<1> HIDE DEF c
<1>2. PICK f : Plains(f, s, c)
  BY <1>1, PlainsExists
<1> DEFINE g == [i \in 0 .. b |-> f[i]]
<1>3. Plains(g, s, b)
  <2>0. \A i \in 0 .. b : i \in 0 .. c
    BY <1>1
  <2>1. \A i \in 0 .. b : f[i] \in Seq(Token)
    BY <1>2, <2>0 DEF Plains
  <2>2. g \in [0 .. b -> Seq(Token)] /\ g[0] = << >>
    BY <1>2, <2>1 DEF Plains
  <2>3. ASSUME NEW i \in 1 .. b
        PROVE  g[i] = IF Blank(s, i) THEN g[i - 1] ELSE Append(g[i - 1], s[i])
    <3>1. i \in 1 .. c /\ i \in 0 .. b /\ i - 1 \in 0 .. b
      BY <1>1
    <3>2. g[i] = f[i] /\ g[i - 1] = f[i - 1]
      BY <3>1
    <3> HIDE DEF g
    <3> QED
      BY <1>2, <3>1, <3>2 DEF Plains
  <2> HIDE DEF g
  <2> QED
    BY <2>2, <2>3 DEF Plains
<1>4. Taken(s, c) = f[c]
  BY <1>1, <1>2, PlainPrefix
<1>5. Taken(s, b) = f[b] /\ f[b] \in Seq(Token)
  <2>1. g[b] = f[b] /\ b \in 0 .. c
    BY <1>1
  <2> HIDE DEF g
  <2> QED
    BY <1>1, <1>2, <1>3, <2>1, PlainPrefix DEF Plains
<1>6. f[c] = IF Blank(s, c) THEN f[c - 1] ELSE Append(f[c - 1], s[c])
  BY <1>1, <1>2 DEF Plains
<1> QED
  BY <1>1, <1>4, <1>5, <1>6 DEF c

LEMMA TakenNone ==
  ASSUME NEW s \in Seq(Token)
  PROVE  Taken(s, 0) = << >>
<1>1. 0 \in Nat /\ 0 <= Len(s) /\ 0 \in 0 .. Len(s)
  OBVIOUS
<1>2. PICK f : Plains(f, s, 0)
  BY <1>1, PlainsExists
<1>3. Taken(s, 0) = f[0]
  BY <1>1, <1>2, PlainPrefix
<1> QED
  BY <1>2, <1>3 DEF Plains

LEMMA TakenAll ==
  ASSUME NEW s \in Seq(Token)
  PROVE  Taken(s, Len(s)) = Plain(s) /\ Plain(s) \in Seq(Token)
<1>1. Len(s) \in Nat /\ Len(s) <= Len(s) /\ Len(s) \in 0 .. Len(s)
  OBVIOUS
<1>2. PICK f : Plains(f, s, Len(s))
  BY <1>1, PlainsExists
<1>3. Taken(s, Len(s)) = f[Len(s)] /\ Plain(s) = f[Len(s)]
  BY <1>1, <1>2, PlainPrefix, PlainIs
<1> QED
  BY <1>1, <1>2, <1>3 DEF Plains

(* What has been taken stays, whatever follows.                            *)
LEMMA TakenSame ==
  ASSUME NEW s \in Seq(Token), NEW r \in Seq(Token), NEW b \in Nat, b <= Len(s), b <= Len(r),
         \A i \in 1 .. b : r[i] = s[i]
  PROVE  Taken(r, b) = Taken(s, b)
<1>1. PICK f : Plains(f, s, b)
  BY PlainsExists
<1>2. \A i \in 1 .. b : Blank(r, i) <=> Blank(s, i)
  BY DEF Blank
<1>3. Plains(f, r, b)
  BY <1>1, <1>2 DEF Plains
<1>4. b \in 0 .. Len(s) /\ b \in 0 .. Len(r)
  OBVIOUS
<1> QED
  BY <1>1, <1>3, <1>4, PlainPrefix

(* q is the beginning of r.                                                *)
Heads(q, r) == Len(q) <= Len(r) /\ \A i \in 1 .. Len(q) : r[i] = q[i]

LEMMA TakenHeads ==
  ASSUME NEW s \in Seq(Token), NEW a \in Nat, a <= Len(s)
  PROVE  /\ Taken(s, a) \in Seq(Token) /\ Plain(s) \in Seq(Token)
         /\ Len(Taken(s, a)) <= a /\ Heads(Taken(s, a), Plain(s))
<1> DEFINE q == Taken(s, a)
           T == {n \in Nat : n <= Len(s) => Taken(s, n) \in Seq(Token) /\ Len(Taken(s, n)) <= n}
<1>1. Nat \subseteq T
  <2>1. 0 \in T
    <3>1. << >> \in Seq(Token) /\ Len(<< >>) <= 0
      OBVIOUS
    <3> QED
      BY <3>1, TakenNone
  <2>2. ASSUME NEW n \in Nat, n \in T PROVE n + 1 \in T
    <3> SUFFICES ASSUME n + 1 <= Len(s)
                 PROVE  Taken(s, n + 1) \in Seq(Token) /\ Len(Taken(s, n + 1)) <= n + 1
      OBVIOUS
    <3>1. n < Len(s) /\ s[n + 1] \in Token
      OBVIOUS
    <3> DEFINE u == Taken(s, n)
               v == Taken(s, n + 1)
    <3>2. u \in Seq(Token) /\ Len(u) <= n
      BY <2>2, <3>1
    <3>3. v = IF Blank(s, n + 1) THEN u ELSE Append(u, s[n + 1])
      BY <3>1, TakenNext
    <3> HIDE DEF u, v
    <3>4. v \in Seq(Token) /\ Len(v) <= n + 1
      BY <3>1, <3>2, <3>3
    <3> QED
      BY <3>4 DEF v
  <2> HIDE DEF T
  <2> QED
    BY <2>1, <2>2, NatSetInduction
<1>2. q \in Seq(Token) /\ Len(q) <= a
  BY <1>1
<1> DEFINE U == {n \in Nat : a + n <= Len(s) => Heads(q, Taken(s, a + n))}
<1>3. Nat \subseteq U
  <2> HIDE DEF q, T
  <2>1. 0 \in U
    <3>1. Heads(q, q) /\ a + 0 = a
      BY <1>2 DEF Heads
    <3> QED
      BY <3>1 DEF q
  <2>2. ASSUME NEW n \in Nat, n \in U PROVE n + 1 \in U
    <3> DEFINE m == a + n
               u == Taken(s, m)
               v == Taken(s, m + 1)
    <3> SUFFICES ASSUME m + 1 <= Len(s) PROVE Heads(q, v)
      <4>1. a + (n + 1) = m + 1
        OBVIOUS
      <4> QED
        BY <4>1
    <3>1. m \in Nat /\ m < Len(s) /\ s[m + 1] \in Token
      OBVIOUS
    <3>2. Heads(q, u)
      BY <2>2, <3>1
    <3> HIDE DEF m
    <3>3. u \in Seq(Token) /\ v = IF Blank(s, m + 1) THEN u ELSE Append(u, s[m + 1])
      BY <3>1, TakenNext
    <3> HIDE DEF u, v
    <3>4. CASE v = u
      BY <3>2, <3>4
    <3>5. CASE v = Append(u, s[m + 1])
      <4>1. Len(v) = Len(u) + 1 /\ \A i \in 1 .. Len(u) : v[i] = u[i]
        BY <3>1, <3>3, <3>5
      <4>2. \A i \in 1 .. Len(q) : i \in 1 .. Len(u)
        BY <1>2, <3>2, <3>3 DEF Heads
      <4> QED
        BY <1>2, <3>2, <3>3, <4>1, <4>2 DEF Heads
    <3> QED
      BY <3>3, <3>4, <3>5
  <2> HIDE DEF U
  <2> QED
    BY <2>1, <2>2, NatSetInduction
<1>4. Heads(q, Plain(s))
  <2>1. Len(s) - a \in Nat /\ a + (Len(s) - a) = Len(s)
    OBVIOUS
  <2>2. Heads(q, Taken(s, Len(s)))
    <3> DEFINE d == Len(s) - a
    <3> HIDE DEF q, T
    <3>1. d \in Nat /\ a + d = Len(s) /\ Len(s) <= Len(s)
      OBVIOUS
    <3> HIDE DEF d
    <3>2. d \in U
      BY <1>3, <3>1
    <3> QED
      BY <3>1, <3>2
  <2> QED
    BY <2>2, TakenAll
<1>5. Plain(s) \in Seq(Token)
  BY TakenAll
<1> QED
  BY <1>2, <1>4, <1>5

(* What is refused stays refused, whatever follows.                        *)
LEMMA RefusedGrows ==
  ASSUME NEW q \in Seq(Token), NEW r \in Seq(Token), Heads(q, r), Refused(q)
  PROVE  Refused(r)
<1>1. Len(q) \in Nat /\ Len(q) <= Len(q) /\ Len(q) <= Len(r) /\ \A i \in 1 .. Len(q) : q[i] = r[i]
  BY DEF Heads
<1>2. \A i \in 0 .. Len(q) : States(q)[i] = States(r)[i]
  BY <1>1, StatesAgree
<1>3. PICK m \in 1 .. Len(q) :
        /\ States(q)[m] = Stuck \/ Len(States(q)[m].in) > NestLimit
        /\ \A i \in 0 .. m - 1 : States(q)[i] # Leave(<< >>)
  BY DEF Refused
<1>4. m \in 1 .. Len(r) /\ m \in 0 .. Len(q) /\ \A i \in 0 .. m - 1 : i \in 0 .. Len(q)
  BY <1>1
<1> QED
  BY <1>2, <1>3, <1>4 DEF Refused

=============================================================================
