---------------------------- MODULE JsonGrammar ----------------------------
(***************************************************************************)
(* The texts of a feed file as sequences of tokens: what is JSON, what a   *)
(* text is without white space and how it is printed again, and a reader   *)
(* with a stack that tells JSON texts from others one token at a time.     *)
(***************************************************************************)
EXTENDS Integers, Sequences, SequencesExt, FiniteSets

CONSTANTS
  TextMax,   \* the most tokens of a text compared with the grammar
  NestLimit  \* CJSON_NESTING_LIMIT

ASSUME GrammarAssumption == TextMax \in Nat \ {0} /\ NestLimit \in Nat \ {0}

-----------------------------------------------------------------------------
(* Texts.  A string is one token.  junk is what no value begins with, and  *)
(* a quote with no string behind it: an escape that is none, or the end of *)
(* the text before the closing quote.  A number may exceed the range of a  *)
(* double: inf.  ws is a run of bytes from 1 to 32, end the zero.          *)

Word == {"word"}                    \* null, true, false
Number == {"num", "inf"}
Scalar == Word \cup Number \cup {"str"}
Token == Scalar \cup {"[", "]", "{", "}", ",", ":", "ws", "bom", "junk", "end"}

Open == {"[", "{"}
Closing == [array |-> "]", object |-> "}"]
KindOf == [x \in Open |-> IF x = "[" THEN "array" ELSE "object"]

-----------------------------------------------------------------------------
(* What a JSON text is.  G[n] are the texts of n tokens without white      *)
(* space: a value, the values of an array, the members of an object.       *)

Between(l, s, r) == {l \o x \o r : x \in s}
Joined(ls, sep, rs) == {l \o sep \o r : l \in ls, r \in rs}

G[n \in 0 .. TextMax] ==
  LET value ==
        IF n = 1 THEN {<<x>> : x \in Scalar}
        ELSE IF n = 2 THEN {<<"[", "]">>, <<"{", "}">>}
        ELSE IF n = 0 THEN {}
        ELSE Between(<<"[">>, G[n - 2].values, <<"]">>) \cup
             Between(<<"{">>, G[n - 2].members, <<"}">>)
      member(v) == Between(<<"str", ":">>, v, << >>)
  IN [ value |-> value,
       values |-> value \cup
         UNION {Joined(G[k].value, <<",">>, G[n - 1 - k].values) : k \in 1 .. n - 2},
       members |-> IF n < 3 THEN {} ELSE member(G[n - 2].value) \cup
         UNION {Joined(member(G[k].value), <<",">>, G[n - 3 - k].members) : k \in 1 .. n - 4} ]

Nesting(t) ==
  Cardinality({i \in DOMAIN t : t[i] \in Open}) - Cardinality({i \in DOMAIN t : t[i] \in {"]", "}"}})

JsonText ==
  {t \in UNION {G[n].value : n \in 1 .. TextMax} :
     \A i \in DOMAIN t : Nesting(SubSeq(t, 1, i)) <= NestLimit}

(* What may become one.                                                    *)
JsonStart == UNION {Prefixes(t) : t \in JsonText}

(* What a value that was parsed from these tokens is printed as: those of s *)
(* behind the first a, as far as b, without white space.                   *)
Shown(x) == IF x = "inf" THEN "word" ELSE x
Spelled(s, a, b) ==
  LET f[i \in a .. b] ==
        IF i = a THEN << >>
        ELSE IF s[i] = "ws" THEN f[i - 1] ELSE Append(f[i - 1], Shown(s[i]))
  IN f[b]

(* Without white space and without a byte order mark in front.             *)
Blank(t, i) == t[i] = "ws" \/ (i = 1 /\ t[i] = "bom")
Plain(t) ==
  LET f[i \in 0 .. Len(t)] ==
        IF i = 0 THEN << >>
        ELSE IF Blank(t, i) THEN f[i - 1] ELSE Append(f[i - 1], t[i])
  IN f[Len(t)]

(* What is left of the first p tokens of s.                                *)
Taken(s, p) == Plain(SubSeq(s, 1, p))

-----------------------------------------------------------------------------
(* A reader of texts without white space: the containers it is in, the      *)
(* innermost last, and what it is at.                                      *)
Fresh == [in |-> << >>, at |-> "value"]
Stuck == [in |-> << >>, at |-> "stuck"]

(* Behind a value, alone or in a container.                                *)
Leave(in) == [in |-> in, at |-> IF in = << >> THEN "done" ELSE "more"]

Begins == [array |-> "value", object |-> "name"]

(* What it takes, but for a closing bracket.                               *)
Expects(st) == IF st.at = "opened" THEN Begins[Last(st.in)] ELSE st.at
Closes(st, x) == st.at \in {"opened", "more"} /\ x = Closing[Last(st.in)]

Step(st, x) ==
  LET goOn(at) == [in |-> st.in, at |-> at]
      at == Expects(st)
  IN  IF Closes(st, x) THEN Leave(Front(st.in))
      ELSE IF at = "value" /\ x \in Scalar THEN Leave(st.in)
      ELSE IF at = "value" /\ x \in Open THEN [in |-> Append(st.in, KindOf[x]), at |-> "opened"]
      ELSE IF at = "name" /\ x = "str" THEN goOn("colon")
      ELSE IF at = "colon" /\ x = ":" THEN goOn("value")
      ELSE IF at = "more" /\ x = "," THEN goOn(Begins[Last(st.in)])
      ELSE Stuck

(* Where it is behind each token of t.                                     *)
States(t) ==
  LET f[i \in 0 .. Len(t)] == IF i = 0 THEN Fresh ELSE Step(f[i - 1], t[i])
  IN f

Final(t) == States(t)[Len(t)]

(* It is never in more containers than it may.                             *)
Shallow(t) == \A i \in 0 .. Len(t) : Len(States(t)[i].in) <= NestLimit

(* It goes wrong at some token, too deep included, and was not done before.*)
Refused(t) ==
  \E m \in 1 .. Len(t) :
    /\ States(t)[m] = Stuck \/ Len(States(t)[m].in) > NestLimit
    /\ \A i \in 0 .. m - 1 : States(t)[i] # Leave(<< >>)
=============================================================================
