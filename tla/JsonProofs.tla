----------------------------- MODULE JsonProofs ------------------------------
(* Theorems about Json: the parser reads nothing behind the text, the      *)
(* printer writes nothing behind its buffer, what is built of items is     *)
(* freed, the odds that are printed are the text they were parsed from,    *)
(* and what is accepted is JSON and what is rejected is not, whatever the  *)
(* text, the nesting limit, the sizes and the memory.                      *)
EXTENDS Json, JsonGrammarProofs

USE GrammarAssumption, JsonAssumption

-----------------------------------------------------------------------------
(* The parser.                                                             *)

(* Once the text has ended, its last token is the zero.                    *)
LEMMA TokenAt ==
  ASSUME ReadInv, Accessible
  PROVE  /\ At \in Token /\ offset + 1 \in 1 .. Len(text)
         /\ At # "end" => text[1] # "end"
         /\ Ended /\ At # "end" => offset + 1 < Len(text)
<1>1. offset + 1 \in 1 .. Len(text) /\ text[Len(text)] = Last(text)
  BY DEF ReadInv, Accessible, Last
<1>2. At \in Token
  BY <1>1 DEF ReadInv, At
<1>3. Ended /\ At # "end" => offset + 1 # Len(text)
  BY <1>1 DEF Ended, At
<1>4. offset + 1 = 1 \/ 1 \in 1 .. Len(text) - 1
  BY <1>1 DEF ReadInv
<1>5. At # "end" => text[1] # "end"
  BY <1>4 DEF ReadInv, At
<1> QED
  BY <1>1, <1>2, <1>3, <1>5 DEF ReadInv

LEMMA ReadInit == Init => ReadInv
<1> SUFFICES ASSUME Init PROVE ReadInv
  OBVIOUS
<1>1. text \in Seq(Token \ {"end"})
  BY BeginningAssumption DEF Init
<1>2. text \in Seq(Token) /\ \A i \in 1 .. Len(text) : text[i] # "end"
  BY <1>1
<1> QED
  BY <1>2 DEF ReadInv, ReadsInside, Reading, Init

(* Neither the walk over the tree nor the printer reads the text.          *)
LEMMA NotReading ==
  Use \/ PrintOdds =>
    UNCHANGED <<text, offset, after>> /\ pc' \notin Reading \cup {"start", "item"}
<1> USE DEF parse, walk, Reading
<1>0. pc = "save" \/ pc = "record" \/ pc = "accepted" => pc \notin Reading \cup {"start", "item"}
  OBVIOUS
<1>1. Use => UNCHANGED <<text, offset, after>> /\ pc' \notin Reading \cup {"start", "item"}
  BY <1>0 DEF Use, SaveAll, LookUpInArray, NoId, SaveFields, SaveTournaments, Overwritten,
       SaveMarket, PrintBuffer, FreeMarket, DeleteAll
<1>2. PrintOdds => UNCHANGED <<text, offset, after>> /\ pc' \notin Reading \cup {"start", "item"}
  <2>1. PrintWord \/ PrintNumber \/ PrintString =>
          UNCHANGED <<text, offset, after>> /\ pc' \notin Reading \cup {"start", "item"}
    BY DEF PrintWord, PrintNumber, PrintString, Piece
  <2>2. PrintOpen \/ PrintFirst \/ PrintKey \/ PrintColon =>
          UNCHANGED <<text, offset, after>> /\ pc' \notin Reading \cup {"start", "item"}
    BY DEF PrintOpen, PrintFirst, PrintKey, PrintColon, Piece, GoTo
  <2>3. Count \/ PrintNext \/ PrintLast \/ PrintClose \/ Printed \/ CopyOdds =>
          UNCHANGED <<text, offset, after>> /\ pc' \notin Reading \cup {"start", "item"}
    BY DEF Count, PrintNext, PrintLast, PrintClose, Printed, CopyOdds, Piece, GoTo
  <2> QED
    BY <2>1, <2>2, <2>3 DEF PrintOdds
<1> QED
  BY <1>1, <1>2

LEMMA ReadNext == ReadInv /\ [Next]_vars => ReadInv'
<1> USE DEF ReadInv, ReadsInside, Reading, parse, tree
<1> SUFFICES ASSUME ReadInv, [Next]_vars PROVE ReadInv'
  OBVIOUS
<1>0. (Ended' <=> Ended) \/ text' # text
  BY DEF Ended
<1>1. CASE Look
  <2>1. PICK x \in Token : text' = Append(text, x)
    BY <1>1 DEF Look, Token, Scalar, Word, Number
  <2>2. offset = Len(text) /\ ~Ended /\ UNCHANGED <<offset, pc, after>> /\ pc \in Reading
    BY <1>1 DEF Look, Accessible
  <2>3. text' \in Seq(Token) /\ Len(text') = Len(text) + 1
    BY <2>1
  <2>4. \A i \in 1 .. Len(text) : text'[i] = text[i]
    BY <2>1
  <2>5. \A i \in 1 .. Len(text) : text[i] # "end"
    <3>1. text # << >> => text[Len(text)] # "end"
      BY <2>2 DEF Ended, Last
    <3> QED
      BY <3>1
  <2> QED
    BY <1>1, <2>2, <2>3, <2>4, <2>5 DEF Look
<1>2. CASE SkipBom \/ ParseWord \/ ParseNumber \/ ParseString \/ ParseStringFails
             \/ ParseOpen \/ ParseNothing \/ ParseName \/ ParseColon
  <2>1. Accessible /\ UNCHANGED text
    BY <1>2 DEF SkipBom, ParseWord, ParseNumber, ParseString, ParseAs, ParseStringFails,
         ParseOpen, ParseNothing, ParseName, ParseColon
  <2>2. offset' \in {offset, offset + 1}
    BY <1>2 DEF SkipBom, ParseWord, ParseNumber, ParseString, ParseAs, ParseStringFails,
         ParseOpen, ParseNothing, ParseName, ParseColon
  <2>3. /\ pc' \in {"skip", "parsed", "fail"}
        /\ after' \in {"value", "opened", "name", "colon", "more"}
        /\ pc' = "skip" /\ after' = "opened" => offset' = offset + 1 /\ At # "end"
    BY <1>2 DEF SkipBom, ParseWord, ParseNumber, ParseString, ParseAs, ParseStringFails,
         Unallocated, ParseOpen, ParseNothing, ParseName, ParseColon, SkipTo, Open
  <2> QED
    BY <2>1, <2>2, <2>3, TokenAt
<1>3. CASE Start
  <2>1. UNCHANGED <<text, offset, after>> /\ offset = 0 /\ pc' \in {"bom", "fail"}
    BY <1>3 DEF Start, Unallocated
  <2>2. Ended => Len(text) > 0
    BY DEF Ended
  <2> QED
    BY <1>0, <2>1, <2>2
<1>4. CASE SkipOver
  BY <1>4, TokenAt DEF SkipOver
<1>5. CASE SkipDone
  <2>1. pc = "skip" /\ UNCHANGED <<text, after>> /\ pc' = after /\ (Accessible \/ Ended)
    BY <1>5 DEF SkipDone
  <2>2. CASE Accessible
    BY <1>5, <2>1, <2>2 DEF SkipDone, Accessible
  <2>3. CASE ~Accessible
    <3>1. offset = Len(text) /\ Ended /\ Len(text) > 0 /\ offset' = offset - 1
      BY <1>5, <2>1, <2>3 DEF SkipDone, Accessible, Ended
    <3>2. text[1] # "end" => Len(text) > 1
      BY <3>1 DEF Ended, Last
    <3> QED
      BY <2>1, <3>1, <3>2
  <2> QED
    BY <2>2, <2>3
<1>6. CASE Opened \/ More
  <2>1. Accessible /\ UNCHANGED <<text, after>> /\ pc' \in {"parsed", "item", "fail"}
    BY <1>6 DEF Opened, More, Close
  <2>2. offset' \in {offset, offset + 1} \/ (pc = "opened" /\ offset' = offset - 1)
    BY <1>6 DEF Opened, More, Close
  <2>3. pc' = "item" => offset' \in {offset, offset - 1}
    BY <1>6 DEF Opened, More, Close
  <2> QED
    BY <2>1, <2>2, <2>3, TokenAt
<1>7. CASE NextItem
  <2>1. pc = "item" /\ UNCHANGED text
    BY <1>7 DEF NextItem
  <2>2. \/ offset' = offset + 1 /\ pc' = "skip" /\ after' \in {"value", "name"}
        \/ UNCHANGED <<offset, after>> /\ pc' = "fail"
    BY <1>7 DEF NextItem, SkipTo, Unallocated
  <2> QED
    BY <2>1, <2>2
<1>8. CASE Parsed \/ Fail
  <2>1. UNCHANGED <<text, offset>>
    BY <1>8 DEF Parsed, Fail
  <2>2. \/ pc' = "skip" /\ after' = "more"
        \/ pc' \in {"accepted", "rejected", "fail"} /\ after' = after
    BY <1>8 DEF Parsed, Fail, SkipTo
  <2> QED
    BY <2>1, <2>2
<1>9. CASE Use \/ PrintOdds
  BY <1>9, NotReading
<1>10. CASE UNCHANGED vars
  BY <1>10, <1>0 DEF vars, record, parse, tree
<1> QED
  BY <1>1, <1>2, <1>3, <1>4, <1>5, <1>6, <1>7, <1>8, <1>9, <1>10 DEF Next, Parse

(* No function of the parser that looks at a byte looks behind the zero    *)
(* that ends the text: buffer_skip_whitespace always steps back on it.     *)
THEOREM ParserStaysInside == Spec => []ReadsInside
<1>1. Init => ReadInv
  BY ReadInit
<1>2. ReadInv /\ [Next]_vars => ReadInv'
  BY ReadNext
<1>3. ReadInv => ReadsInside
  BY DEF ReadInv
<1> QED
  BY <1>1, <1>2, <1>3, PTL DEF Spec
-----------------------------------------------------------------------------
(* The printer.                                                            *)

(* What PrintInv says of a buffer, and of one with a whole value in it.    *)
Sound(b) ==
  /\ DOMAIN b = DOMAIN NoBuf
  /\ b.len \in Nat /\ b.off \in Nat /\ b.bytes \in Nat
  /\ b.top <= b.len

WithZero(b) == b.top = b.off + b.bytes + 1

LEMMA FreshSound == Sound(NoBuf) /\ Sound([NoBuf EXCEPT !.len = BufInit])
BY DEF Sound, NoBuf

(* ensure makes room for what was asked and a zero, or says it could not.  *)
LEMMA EnsureRoom ==
  ASSUME PrintInv, NEW n \in Nat, NEW l \in Ensure(n), l # 0
  PROVE  l \in Nat /\ buf.off + n + 1 <= l
<1>1. buf.len \in Nat /\ buf.off \in Nat
  BY DEF PrintInv
<1>2. (l = buf.len /\ buf.off + n + 1 <= buf.len) \/ l = 2 * (buf.off + n + 1)
  BY DEF Ensure
<1> QED
  BY <1>1, <1>2

LEMMA PutSound ==
  ASSUME PrintInv, NEW n \in Nat \ {0}, NEW k \in Nat, NEW x,
         NEW l \in Nat, buf.off + n <= l
  PROVE  /\ Sound(Put([buf EXCEPT !.len = l], x, n, k))
         /\ k \in {0, n - 1} => WithZero(Put([buf EXCEPT !.len = l], x, n, k))
<1> DEFINE b == [buf EXCEPT !.len = l]
<1>1. DOMAIN buf = {"len", "off", "out", "pend", "bytes", "top"}
  BY DEF PrintInv, NoBuf
<1>2. DOMAIN b = DOMAIN buf /\ b.len = l /\ b.off = buf.off
  BY <1>1
<1>3. buf.off \in Nat /\ DOMAIN NoBuf = DOMAIN buf
  BY DEF PrintInv
<1> HIDE DEF b
<1>4. CASE k > 0
  <2> DEFINE c == [b EXCEPT !.out = Append(@, x), !.off = @ + k, !.pend = << >>,
                            !.bytes = 0, !.top = b.off + n]
  <2>1. Put(b, x, n, k) = c
    BY <1>4 DEF Put
  <2>2. /\ DOMAIN c = DOMAIN buf /\ c.len = l /\ c.off = buf.off + k
        /\ c.bytes = 0 /\ c.top = buf.off + n
    BY <1>1, <1>2
  <2> HIDE DEF c
  <2>3. Sound(c) /\ (k \in {0, n - 1} => WithZero(c))
    BY <1>3, <1>4, <2>2 DEF Sound, WithZero
  <2> QED
    BY <2>1, <2>3 DEF b
<1>5. CASE ~(k > 0)
  <2> DEFINE c == [b EXCEPT !.pend = <<x>>, !.bytes = n - 1, !.top = b.off + n]
  <2>1. Put(b, x, n, k) = c
    BY <1>5 DEF Put
  <2>2. /\ DOMAIN c = DOMAIN buf /\ c.len = l /\ c.off = buf.off
        /\ c.bytes = n - 1 /\ c.top = buf.off + n
    BY <1>1, <1>2
  <2> HIDE DEF c
  <2>3. Sound(c) /\ (k \in {0, n - 1} => WithZero(c))
    BY <1>3, <1>5, <2>2 DEF Sound, WithZero
  <2> QED
    BY <2>1, <2>3 DEF b
<1> QED
  BY <1>4, <1>5

(* A piece that asks for its bytes stays within the buffer.                *)
LEMMA PieceSound ==
  ASSUME PrintInv, NEW asked \in Nat, NEW n \in 1 .. asked + 1, NEW k \in Nat,
         NEW x, NEW next, Piece(asked, x, n, k, next)
  PROVE  /\ Sound(buf') /\ pc' \in {next, "unprinted"}
         /\ k \in {0, n - 1} /\ pc' # "unprinted" => WithZero(buf')
<1>1. PICK l \in Ensure(asked) :
        \/ buf' = NoBuf /\ pc' = "unprinted"
        \/ l # 0 /\ buf' = Put([buf EXCEPT !.len = l], x, n, k) /\ pc' = next
  BY DEF Piece
<1>2. CASE buf' = NoBuf /\ pc' = "unprinted"
  BY <1>2, FreshSound
<1>3. CASE l # 0 /\ buf' = Put([buf EXCEPT !.len = l], x, n, k) /\ pc' = next
  <2>1. l \in Nat /\ buf.off + asked + 1 <= l
    BY <1>3, EnsureRoom
  <2>2. buf.off + n <= l
    BY <2>1 DEF PrintInv
  <2> QED
    BY <1>3, <2>1, <2>2, PutSound
<1> QED
  BY <1>1, <1>2, <1>3

LEMMA PrintNextInv == ReadInv /\ PrintInv /\ [Next]_vars => PrintInv'
<1> SUFFICES ASSUME ReadInv, PrintInv, [Next]_vars
             PROVE  /\ Sound(buf')
                    /\ pc' = "printed" => WithZero(buf')
                    /\ pc' = "odds" => buf'.top = buf'.off + 1
  BY DEF Sound, WithZero, PrintInv, PrintFits, NoBuf
<1>0. Sound(buf)
  BY DEF Sound, PrintInv, PrintFits
<1>1. CASE Parse
  <2>1. buf' = buf /\ pc' \notin {"printed", "odds"}
    BY <1>1 DEF Parse, Look, Start, SkipBom, SkipOver, SkipDone, ParseWord, ParseNumber,
         ParseString, ParseAs, ParseStringFails, ParseOpen, ParseNothing, Opened, NextItem,
         ParseName, ParseColon, Parsed, More, Fail, Close, SkipTo, Unallocated, Reading, ReadInv
  <2> QED
    BY <1>0, <2>1
<1>2. CASE Use
  <2>1. buf' \in {buf, NoBuf, [NoBuf EXCEPT !.len = BufInit]} /\ pc' \notin {"printed", "odds"}
    BY <1>2 DEF Use, SaveAll, LookUpInArray, NoId, SaveFields, SaveTournaments, Overwritten,
         SaveMarket, PrintBuffer, FreeMarket, DeleteAll
  <2> QED
    BY <1>0, <2>1, FreshSound
<1>3. CASE PrintOdds
  <2>1. CASE PrintWord
    <3>1. PICK n \in 5 .. 6 : Piece(n, "word", n, 0, "printed")
      BY <2>1 DEF PrintWord
    <3> QED
      BY <3>1, PieceSound
  <2>2. CASE PrintNumber
    <3>1. CASE \E n \in 1 .. 2 : Piece(n + 1, "num", n + 1, n, "printed")
      BY <3>1, PieceSound
    <3>2. CASE Piece(5, "word", 5, 4, "printed")
      BY <3>2, PieceSound
    <3> QED
      BY <2>2, <3>1, <3>2 DEF PrintNumber
  <2>3. CASE PrintString
    <3>1. PICK n \in 2 .. StrMax : Piece(n + 1, "str", n + 1, 0, "printed")
      BY <2>3 DEF PrintString
    <3> QED
      BY <3>1, PieceSound
  <2>4. CASE PrintOpen
    <3>1. Piece(1, "[", 1, 1, "first") \/ Piece(2, "{", 1, 1, "first")
      BY <2>4 DEF PrintOpen
    <3>2. Piece(1, "[", 1, 1, "first") => Sound(buf') /\ pc' \in {"first", "unprinted"}
      BY PieceSound
    <3>3. ASSUME Piece(2, "{", 1, 1, "first") PROVE Sound(buf') /\ pc' \in {"first", "unprinted"}
      <4>1. 2 \in Nat /\ 1 \in 1 .. 2 + 1 /\ 1 \in Nat
        OBVIOUS
      <4> QED
        BY <3>3, <4>1, PieceSound
    <3> QED
      BY <3>1, <3>2, <3>3
  <2>5. CASE PrintFirst
    BY <1>0, <2>5 DEF PrintFirst, GoTo
  <2>6. CASE PrintKey
    <3>1. PICK n \in 2 .. StrMax : Piece(n + 1, "str", n + 1, 0, "named")
      BY <2>6 DEF PrintKey
    <3> QED
      BY <3>1, PieceSound
  <2>7. CASE PrintColon
    BY <2>7, PieceSound DEF PrintColon
  <2>8. CASE Count
    <3> DEFINE c == [buf EXCEPT !.out = @ \o buf.pend, !.off = @ + buf.bytes,
                                !.pend = << >>, !.bytes = 0]
    <3>1. buf' = c
      BY <2>8 DEF Count, UpdateOffset
    <3>2. DOMAIN buf = {"len", "off", "out", "pend", "bytes", "top"}
      BY DEF PrintInv, NoBuf
    <3>3. /\ DOMAIN c = DOMAIN buf /\ c.len = buf.len /\ c.off = buf.off + buf.bytes
          /\ c.bytes = 0 /\ c.top = buf.top
      BY <3>2
    <3> HIDE DEF c
    <3>4. Sound(c)
      BY <1>0, <3>3 DEF Sound
    <3>5. pc' # "printed" /\ (pc' = "odds" => pc = "printed")
      BY <2>8 DEF Count
    <3> QED
      BY <3>1, <3>3, <3>4, <3>5 DEF PrintInv
  <2>9. CASE PrintNext
    <3>1. PICK l \in Ensure(2) :
            \/ buf' = NoBuf /\ pc' = "unprinted"
            \/ l # 0 /\ buf' = Put([buf EXCEPT !.len = l], ",", 2, 1) /\ pc' \in {"print", "key"}
      BY <2>9 DEF PrintNext, GoTo
    <3>2. l # 0 => l \in Nat /\ buf.off + 2 + 1 <= l
      BY EnsureRoom
    <3>3. l # 0 => buf.off + 2 <= l
      BY <3>2 DEF PrintInv
    <3>4. ASSUME l # 0 PROVE Sound(Put([buf EXCEPT !.len = l], ",", 2, 1))
      <4>1. 2 \in Nat \ {0} /\ 1 \in Nat /\ l \in Nat /\ buf.off + 2 <= l
        BY <3>2, <3>3, <3>4
      <4> QED
        BY <4>1, PutSound
    <3> QED
      BY <3>1, <3>4, FreshSound
  <2>10. CASE PrintLast
    <3>0. pc' \in {"close", "unprinted"}
      BY <2>10 DEF PrintLast
    <3>1. CASE buf' = buf
      BY <1>0, <3>0, <3>1
    <3>2. CASE \E l \in Ensure(1) :
                 \/ buf' = NoBuf
                 \/ l # 0 /\ buf' = [buf EXCEPT !.len = l, !.top = buf.off + 1]
      <4>1. PICK l \in Ensure(1) :
              \/ buf' = NoBuf
              \/ l # 0 /\ buf' = [buf EXCEPT !.len = l, !.top = buf.off + 1]
        BY <3>2
      <4>2. l # 0 => l \in Nat /\ buf.off + 1 + 1 <= l
        BY EnsureRoom
      <4> DEFINE c == [buf EXCEPT !.len = l, !.top = buf.off + 1]
      <4>3. DOMAIN buf = {"len", "off", "out", "pend", "bytes", "top"}
        BY DEF PrintInv, NoBuf
      <4>4. /\ DOMAIN c = DOMAIN buf /\ c.len = l /\ c.off = buf.off
            /\ c.bytes = buf.bytes /\ c.top = buf.off + 1
        BY <4>3
      <4> HIDE DEF c
      <4>5. l # 0 => Sound(c)
        BY <1>0, <4>2, <4>4 DEF Sound
      <4> QED
        BY <3>0, <4>1, <4>5, FreshSound DEF c
    <3> QED
      BY <2>10, <3>1, <3>2 DEF PrintLast
  <2>11. CASE PrintClose
    <3>1. Piece(2, Closing[Kind], 2, 0, "printed")
      BY <2>11 DEF PrintClose
    <3>2. 2 \in Nat /\ 2 \in 1 .. 2 + 1 /\ 0 \in Nat
      OBVIOUS
    <3> DEFINE x == Closing[Kind]
    <3>3. Piece(2, x, 2, 0, "printed")
      BY <3>1
    <3> HIDE DEF x
    <3> QED
      BY <3>2, <3>3, PieceSound
  <2>12. CASE Printed
    <3> DEFINE c == [buf EXCEPT !.len = buf.off + 1]
    <3>1. pc = "odds" /\ (buf' = c \/ buf' = NoBuf) /\ pc' \in {"text", "unprinted"}
      BY <2>12 DEF Printed
    <3>2. buf.off \in Nat /\ buf.top = buf.off + 1
      BY <3>1 DEF PrintInv
    <3>3. DOMAIN buf = {"len", "off", "out", "pend", "bytes", "top"}
      BY DEF PrintInv, NoBuf
    <3>4. /\ DOMAIN c = DOMAIN buf /\ c.len = buf.off + 1 /\ c.off = buf.off
          /\ c.bytes = buf.bytes /\ c.top = buf.top
      BY <3>3
    <3> HIDE DEF c
    <3>5. Sound(c)
      BY <1>0, <3>2, <3>4 DEF Sound
    <3> QED
      BY <3>1, <3>5, FreshSound
  <2>13. CASE CopyOdds
    BY <2>13, FreshSound DEF CopyOdds
  <2> QED
    BY <1>3, <2>1, <2>2, <2>3, <2>4, <2>5, <2>6, <2>7, <2>8, <2>9, <2>10, <2>11, <2>12, <2>13
       DEF PrintOdds
<1>4. CASE UNCHANGED vars
  BY <1>0, <1>4 DEF vars, record, parse, tree, PrintInv, WithZero
<1> QED
  BY <1>1, <1>2, <1>3, <1>4 DEF Next

(* cJSON_PrintUnformatted writes nothing behind the buffer that ensure has *)
(* made for it, whatever is printed and however often the buffer grows,    *)
(* and what print cuts the buffer to holds the text and its zero.          *)
THEOREM PrinterStaysInside == Spec => []PrintFits
<1>1. Init => ReadInv /\ PrintInv
  BY ReadInit DEF Init, PrintInv, PrintFits, NoBuf
<1>2. (ReadInv /\ PrintInv) /\ [Next]_vars => (ReadInv /\ PrintInv)'
  BY ReadNext, PrintNextInv
<1>3. PrintInv => PrintFits
  BY DEF PrintInv
<1> QED
  BY <1>1, <1>2, <1>3, PTL DEF Spec

-----------------------------------------------------------------------------
(* The tree of items: what the parser builds, the walk visits and who      *)
(* frees it.                                                               *)

ItemType == [type : Scalar \cup {"array", "object", "none"}, parent : Nat, from : Nat, to : Nat]

(* The items s become r: no fewer, each with its parent.                   *)
Grown(s, r) ==
  /\ r \in Seq(ItemType) /\ Len(r) \in Nat /\ Len(s) <= Len(r)
  /\ \A k \in 1 .. Len(s) : r[k].parent = s[k].parent

(* The three ways in which the parser fills an item in.                    *)
LEMMA FilledIn ==
  ASSUME NEW s \in Seq(ItemType), NEW i \in 1 .. Len(s),
         NEW t \in Scalar \cup {"array", "object", "none"}, NEW a \in Nat, NEW b \in Nat
  PROVE  /\ Grown(s, [s EXCEPT ![i].type = t, ![i].from = a, ![i].to = b])
         /\ Grown(s, [s EXCEPT ![i].type = t, ![i].from = a])
         /\ Grown(s, [s EXCEPT ![i].to = b])
<1>1. s[i] \in ItemType /\ Len(s) \in Nat /\ DOMAIN s = 1 .. Len(s)
  OBVIOUS
<1>2. ASSUME NEW e \in ItemType, e.parent = s[i].parent
      PROVE  Grown(s, [s EXCEPT ![i] = e])
  <2>1. [s EXCEPT ![i] = e] \in Seq(ItemType) /\ Len([s EXCEPT ![i] = e]) = Len(s)
    BY <1>1
  <2> QED
    BY <1>1, <1>2, <2>1 DEF Grown
<1>3. [s EXCEPT ![i].to = b] = [s EXCEPT ![i] = [s[i] EXCEPT !.to = b]]
  BY <1>1
<1>4. [s EXCEPT ![i].type = t, ![i].from = a] =
      [s EXCEPT ![i] = [s[i] EXCEPT !.type = t, !.from = a]]
  BY <1>1
<1>5. [s EXCEPT ![i].type = t, ![i].from = a, ![i].to = b] =
      [s EXCEPT ![i] = [s[i] EXCEPT !.type = t, !.from = a, !.to = b]]
  BY <1>1
<1>6. /\ [s[i] EXCEPT !.to = b] \in ItemType /\ [s[i] EXCEPT !.to = b].parent = s[i].parent
      /\ [s[i] EXCEPT !.type = t, !.from = a] \in ItemType
      /\ [s[i] EXCEPT !.type = t, !.from = a].parent = s[i].parent
      /\ [s[i] EXCEPT !.type = t, !.from = a, !.to = b] \in ItemType
      /\ [s[i] EXCEPT !.type = t, !.from = a, !.to = b].parent = s[i].parent
  BY <1>1 DEF ItemType
<1> QED
  BY <1>2, <1>3, <1>4, <1>5, <1>6

(* The items a stack of frames names.                                      *)
LEMMA FramesIn ==
  ASSUME TypeOK, frames # << >>
  PROVE  /\ Last(frames) \in 1 .. Len(items) /\ Len(items) \in Nat
         /\ Front(frames) \in Seq(DOMAIN items) /\ Len(Front(frames)) = Len(frames) - 1
         /\ Front(frames) # << >> => Front(frames)[1] = frames[1]
         /\ Front(frames) = << >> => Last(frames) = frames[1]
         /\ Len(frames) \in Nat \ {0}
<1>1. frames \in Seq(DOMAIN items) /\ items \in Seq(ItemType) /\ DOMAIN items = 1 .. Len(items)
      /\ Len(items) \in Nat
  BY DEF TypeOK, ItemType
<1>2. Len(frames) \in Nat \ {0} /\ DOMAIN frames = 1 .. Len(frames)
  BY <1>1
<1>3. Last(frames) \in DOMAIN items
  BY <1>1, <1>2 DEF Last
<1>4. Front(frames) \in Seq(DOMAIN items) /\ Len(Front(frames)) = Len(frames) - 1
      /\ (Front(frames) # << >> => Front(frames)[1] = frames[1])
  BY <1>1, <1>2, SMTT(30) DEF Front
<1>5. ASSUME Front(frames) = << >> PROVE Len(frames) = 1
  <2>1. ASSUME NEW n \in Nat, Len(Front(frames)) = n - 1, Len(Front(frames)) = 0 PROVE n = 1
    BY <2>1
  <2>2. Len(Front(frames)) = 0
    BY <1>5
  <2> HIDE DEF Front
  <2> QED
    BY <1>2, <1>4, <2>1, <2>2
<1> QED
  BY <1>1, <1>2, <1>3, <1>4, <1>5 DEF Last

(* The part of TypeOK that is about the tree.                              *)
TreeTypes ==
  /\ depth \in 0 .. NestLimit
  /\ frames \in Seq(DOMAIN items)
  /\ items \in Seq(ItemType)
  /\ \A k \in DOMAIN items : items[k].parent < k
  /\ live \subseteq DOMAIN items /\ todo \subseteq DOMAIN items
  /\ cur \in 0 .. Len(items)

LEMMA GrownTypes ==
  ASSUME TypeOK, Grown(items, items'),
         \A k \in Len(items) + 1 .. Len(items') : items'[k].parent < k
  PROVE  /\ items' \in Seq(ItemType) /\ DOMAIN items' = 1 .. Len(items')
         /\ \A k \in DOMAIN items' : items'[k].parent < k
         /\ DOMAIN items \subseteq DOMAIN items' /\ 0 .. Len(items) \subseteq 0 .. Len(items')
         /\ frames \in Seq(DOMAIN items')
<1>1. items \in Seq(ItemType) /\ DOMAIN items = 1 .. Len(items) /\ Len(items) \in Nat
      /\ \A k \in 1 .. Len(items) : items[k].parent < k
  BY SMTT(30) DEF TypeOK, ItemType
<1>2. items' \in Seq(ItemType) /\ DOMAIN items' = 1 .. Len(items') /\ Len(items') \in Nat
      /\ Len(items) <= Len(items')
  BY DEF Grown
<1>3. DOMAIN items \subseteq DOMAIN items'
  BY <1>1, <1>2
<1>4. frames \in Seq(DOMAIN items')
  BY <1>3 DEF TypeOK
<1>5. ASSUME NEW k \in 1 .. Len(items') PROVE items'[k].parent < k
  <2>1. CASE k <= Len(items)
    BY <1>1, <2>1 DEF Grown
  <2>2. CASE k > Len(items)
    BY <1>1, <1>2, <2>2
  <2> QED
    BY <1>1, <2>1, <2>2
<1> QED
  BY <1>1, <1>2, <1>3, <1>4, <1>5

LEMMA TypedTree == TypeOK => TreeTypes
BY DEF TypeOK, TreeTypes, ItemType

(* Steps of the parser that only look.                                     *)
LEMMA QuietParse ==
  ASSUME TypeOK, ParserInv, UNCHANGED <<depth, frames, items, live, todo, cur>>,
         pc \in Parsing \ {"start"}, pc' \in (Parsing \ {"start"}) \cup {"fail"},
         Inside' => frames # << >>,
         frames = << >> /\ pc' \in {"bom", "skip", "value", "fail"} => pc \in {"bom", "skip", "value"}
  PROVE  TreeTypes' /\ ParserInv'
<1>1. TreeTypes'
  BY TypedTree DEF TreeTypes
<1>2. pc \notin {"fail", "rejected", "start"}
  BY DEF Parsing, Reading
<1>3. Len(items) = 1 => DOMAIN items = {1}
  BY DEF TypeOK
<1>4. frames = << >> /\ pc' = "fail" => live \subseteq {1}
  BY <1>2, <1>3 DEF ParserInv
<1>5. /\ pc' \in Parsing => depth' = Len(frames') /\ live' = DOMAIN items'
      /\ pc' \in Parsing \cup {"fail"} /\ frames' # << >> => frames'[1] = 1
      /\ pc' # "start"
      /\ pc' \in {"bom", "skip", "value"} /\ frames' = << >> => Len(items') = 1
      /\ items' # << >>
  BY <1>2 DEF ParserInv, Parsing
<1> QED
  BY <1>1, <1>4, <1>5 DEF ParserInv

LEMMA AllocateParse ==
  ASSUME TypeOK, ReadInv, ParserInv, NEW n \in Nat, n <= Len(items), Allocate(n),
         UNCHANGED <<depth, frames, todo, cur>>, pc \in Parsing,
         pc' \in {"bom", "skip"}, Inside' => frames # << >>,
         frames = << >> => items = << >>
  PROVE  TreeTypes' /\ ParserInv'
<1>0. items \in Seq(ItemType) /\ DOMAIN items = 1 .. Len(items) /\ Len(items) \in Nat
      /\ offset \in Nat
  BY DEF TypeOK, ItemType
<1>1. NewItem(n) \in ItemType /\ NewItem(n).parent = n
  BY <1>0 DEF NewItem, ItemType
<1>2. items' = Append(items, NewItem(n)) /\ live' = live \cup {Len(items) + 1}
  BY DEF Allocate
<1>3. /\ items' \in Seq(ItemType) /\ Len(items') = Len(items) + 1
      /\ \A k \in 1 .. Len(items) : items'[k] = items[k]
      /\ items'[Len(items) + 1] = NewItem(n)
  BY <1>0, <1>1, <1>2
<1>4. Grown(items, items')
  BY <1>0, <1>3 DEF Grown
<1>5. \A k \in Len(items) + 1 .. Len(items') : items'[k].parent < k
  BY <1>0, <1>1, <1>3
<1>6. /\ items' \in Seq(ItemType) /\ DOMAIN items' = 1 .. Len(items')
      /\ \A k \in DOMAIN items' : items'[k].parent < k
      /\ DOMAIN items \subseteq DOMAIN items' /\ 0 .. Len(items) \subseteq 0 .. Len(items')
      /\ frames \in Seq(DOMAIN items')
  BY <1>4, <1>5, GrownTypes
<1>7. DOMAIN items' = DOMAIN items \cup {Len(items) + 1}
  BY <1>0, <1>3, <1>6
<1>8. TreeTypes'
  BY <1>2, <1>6, <1>7, TypedTree DEF TreeTypes
<1>9. items' # << >>
  BY <1>3
<1>10. depth' = Len(frames') /\ live' = DOMAIN items'
  BY <1>2, <1>7 DEF ParserInv
<1>11. frames # << >> => frames'[1] = 1
  BY DEF ParserInv
<1>12. frames = << >> => Len(items') = 1
  BY <1>3
<1> QED
  BY <1>8, <1>9, <1>10, <1>11, <1>12 DEF ParserInv

(* ... that fill in the item they are at, inside or behind a container ... *)
LEMMA FilledParse ==
  ASSUME TypeOK, ReadInv, ParserInv, ParseWord \/ ParseNumber \/ ParseString \/ ParseOpen
  PROVE  TreeTypes' /\ ParserInv'
<1>0. /\ items \in Seq(ItemType) /\ DOMAIN items = 1 .. Len(items) /\ Len(items) \in Nat
      /\ offset \in Nat /\ frames \in Seq(DOMAIN items) /\ depth \in 0 .. NestLimit
  BY DEF TypeOK, ItemType
<1>1. /\ pc = "value" /\ Accessible /\ offset' = offset + 1
      /\ UNCHANGED <<live, todo, cur>>
  BY DEF ParseWord, ParseNumber, ParseString, ParseAs, ParseOpen
<1>2. /\ depth = Len(frames) /\ live = DOMAIN items /\ items # << >>
      /\ frames # << >> => frames[1] = 1
      /\ frames = << >> => Len(items) = 1
  BY <1>1 DEF ParserInv, Parsing, Reading
<1>3. Item \in 1 .. Len(items)
  BY <1>0, <1>2 DEF Item
<1>4. CASE ParseWord \/ ParseNumber \/ ParseString
  <2>1. /\ At \in Scalar /\ UNCHANGED <<depth, frames>> /\ pc' = "parsed"
        /\ items' = [items EXCEPT ![Item].type = At, ![Item].from = offset, ![Item].to = offset + 1]
    BY <1>4, SMTT(30) DEF ParseWord, ParseNumber, ParseString, ParseAs, Scalar
  <2>2. Grown(items, items')
    <3>1. At \in Scalar \cup {"array", "object", "none"} /\ offset + 1 \in Nat
      BY <1>0, <2>1
    <3> QED
      BY <1>0, <1>3, <2>1, <3>1, FilledIn
  <2>3. Len(items') = Len(items)
    BY <1>0, <2>1
  <2>4. \A k \in Len(items) + 1 .. Len(items') : items'[k].parent < k
    BY <1>0, <2>3
  <2>5. /\ items' \in Seq(ItemType) /\ DOMAIN items' = DOMAIN items
        /\ \A k \in DOMAIN items' : items'[k].parent < k
        /\ frames \in Seq(DOMAIN items')
    BY <1>0, <2>2, <2>3, <2>4, GrownTypes
  <2>6. TreeTypes'
    BY <1>1, <2>1, <2>3, <2>5, TypedTree DEF TreeTypes
  <2>7. items' # << >>
    BY <1>0, <1>3, <2>3
  <2> QED
    BY <1>1, <1>2, <2>1, <2>5, <2>6, <2>7 DEF ParserInv, Inside
<1>5. CASE ParseOpen
  <2>1. /\ At \in Open /\ depth' = depth + 1 /\ depth < NestLimit
        /\ frames' = Append(frames, Item) /\ pc' = "skip" /\ after' = "opened"
        /\ items' = [items EXCEPT ![Item].type = KindOf[At], ![Item].from = offset]
    BY <1>5 DEF ParseOpen, SkipTo
  <2>2. KindOf[At] \in {"array", "object"}
    BY <2>1, SMTT(30) DEF KindOf
  <2>3. Grown(items, items')
    BY <1>0, <1>3, <2>1, <2>2, FilledIn
  <2>4. Len(items') = Len(items)
    BY <1>0, <2>1
  <2>5. \A k \in Len(items) + 1 .. Len(items') : items'[k].parent < k
    BY <1>0, <2>4
  <2>6. /\ items' \in Seq(ItemType) /\ DOMAIN items' = DOMAIN items
        /\ \A k \in DOMAIN items' : items'[k].parent < k
        /\ frames \in Seq(DOMAIN items')
    BY <1>0, <2>3, <2>4, <2>5, GrownTypes
  <2>7. frames' \in Seq(DOMAIN items') /\ frames' # << >> /\ Len(frames') = Len(frames) + 1
    <3>1. ASSUME NEW S, NEW x \in S, frames \in Seq(S)
          PROVE  /\ Append(frames, x) \in Seq(S) /\ Append(frames, x) # << >>
                 /\ Len(Append(frames, x)) = Len(frames) + 1
      BY <3>1
    <3>2. Item \in DOMAIN items'
      BY <1>0, <1>3, <2>6
    <3> QED
      BY <2>1, <2>6, <3>1, <3>2
  <2>8. frames'[1] = 1
    BY <1>0, <1>2, <2>1, SMTT(30) DEF Item
  <2>9. depth' \in 0 .. NestLimit
    BY <1>0, <2>1
  <2>10. TreeTypes'
    BY <1>1, <2>4, <2>6, <2>7, <2>9, TypedTree DEF TreeTypes
  <2>11. items' # << >>
    BY <1>0, <1>3, <2>4
  <2> QED
    BY <1>1, <1>2, <2>1, <2>6, <2>7, <2>8, <2>10, <2>11 DEF ParserInv
<1> QED
  BY <1>4, <1>5

(* ... that close a container ...                                          *)
LEMMA CloseParse ==
  ASSUME TypeOK, ReadInv, ParserInv, Close, pc \in {"opened", "more"},
         UNCHANGED <<live, todo, cur>>
  PROVE  TreeTypes' /\ ParserInv'
<1>0. /\ items \in Seq(ItemType) /\ DOMAIN items = 1 .. Len(items) /\ Len(items) \in Nat
      /\ offset \in Nat /\ frames \in Seq(DOMAIN items) /\ depth \in 0 .. NestLimit
  BY DEF TypeOK, ItemType
<1>1. /\ depth = Len(frames) /\ live = DOMAIN items /\ items # << >> /\ frames # << >>
      /\ frames[1] = 1
  BY DEF ParserInv, Parsing, Reading, Inside
<1>2. /\ Last(frames) \in 1 .. Len(items) /\ Front(frames) \in Seq(DOMAIN items)
      /\ Len(Front(frames)) = Len(frames) - 1 /\ Len(frames) \in Nat \ {0}
      /\ Front(frames) # << >> => Front(frames)[1] = frames[1]
  BY <1>1, FramesIn
<1>3. /\ items' = [items EXCEPT ![Last(frames)].to = offset + 1]
      /\ depth' = depth - 1 /\ frames' = Front(frames) /\ pc' = "parsed"
  BY DEF Close
<1> DEFINE l == Last(frames)
           f == Front(frames)
<1>4. /\ l \in 1 .. Len(items) /\ f \in Seq(DOMAIN items) /\ Len(f) = Len(frames) - 1
      /\ f # << >> => f[1] = 1
      /\ items' = [items EXCEPT ![l].to = offset + 1] /\ frames' = f
  BY <1>1, <1>2, <1>3
<1> HIDE DEF l, f
<1>5. offset + 1 \in Nat
  BY <1>0, SMTT(30)
<1>6. Grown(items, items')
  BY <1>0, <1>4, <1>5, FilledIn
<1>7. Len(items') = Len(items)
  BY <1>0, <1>4
<1>8. \A k \in Len(items) + 1 .. Len(items') : items'[k].parent < k
  BY <1>0, <1>7
<1>9. /\ items' \in Seq(ItemType) /\ DOMAIN items' = DOMAIN items
      /\ \A k \in DOMAIN items' : items'[k].parent < k
  BY <1>0, <1>6, <1>7, <1>8, GrownTypes
<1>10. depth' \in 0 .. NestLimit /\ depth' = Len(frames')
  <2>1. /\ depth = Len(frames) /\ Len(frames) \in Nat \ {0} /\ depth \in 0 .. NestLimit
        /\ depth' = depth - 1
    BY <1>0, <1>1, <1>2, <1>3
  <2>2. Len(frames') = Len(frames) - 1
    BY <1>4
  <2> QED
    BY <2>1, <2>2
<1>11. TreeTypes'
  BY <1>0, <1>4, <1>7, <1>9, <1>10, TypedTree DEF TreeTypes
<1>12. items' # << >>
  BY <1>0, <1>1, <1>7
<1> QED
  BY <1>1, <1>3, <1>4, <1>9, <1>10, <1>11, <1>12 DEF ParserInv, Inside

(* ... and that give up.                                                   *)
LEMMA FailParse ==
  ASSUME TypeOK, ReadInv, ParserInv, Fail
  PROVE  TreeTypes' /\ ParserInv' /\ (pc' = "rejected" => live' = {})
<1>0. UNCHANGED <<depth, items, todo, cur>> /\ pc = "fail"
  BY DEF Fail, parse
<1>1. CASE frames = << >>
  <2>1. live' = live \ {1} /\ pc' = "rejected" /\ frames' = frames
    BY <1>1 DEF Fail
  <2>2. live \subseteq {1}
    BY <1>0, <1>1 DEF ParserInv
  <2>3. live' = {}
    BY <2>1, <2>2
  <2>4. TreeTypes'
    BY <1>0, <2>1, <2>3, TypedTree DEF TreeTypes
  <2> QED
    BY <1>0, <2>1, <2>3, <2>4 DEF ParserInv, Parsing, Reading, Inside
<1>2. CASE frames # << >>
  <2>1. live' = live \ {k \in live : k > Last(frames)} /\ pc' = "fail" /\ frames' = Front(frames)
    BY <1>0, <1>2 DEF Fail
  <2>2. /\ Last(frames) \in 1 .. Len(items) /\ Front(frames) \in Seq(DOMAIN items)
        /\ Front(frames) # << >> => Front(frames)[1] = frames[1]
        /\ Front(frames) = << >> => Last(frames) = frames[1]
        /\ Len(items) \in Nat /\ DOMAIN items = 1 .. Len(items)
    BY <1>2, FramesIn, SMTT(30) DEF TypeOK
  <2>3. frames[1] = 1
    BY <1>0, <1>2 DEF ParserInv
  <2>4. live \subseteq 1 .. Len(items)
    BY <2>2 DEF TypeOK
  <2>5. ASSUME Front(frames) = << >> PROVE live' \subseteq {1}
    <3>1. Last(frames) = 1
      BY <2>2, <2>3, <2>5
    <3>2. live' = live \ {k \in live : k > 1}
      BY <2>1, <3>1
    <3>3. ASSUME NEW k \in live' PROVE k = 1
      <4>1. k \in live /\ ~(k > 1) /\ k \in 1 .. Len(items)
        BY <2>4, <3>2
      <4> QED
        BY <2>2, <4>1
    <3> QED
      BY <3>3
  <2>6. TreeTypes'
    BY <1>0, <2>1, <2>2, TypedTree DEF TreeTypes
  <2> QED
    BY <1>0, <2>1, <2>2, <2>3, <2>5, <2>6 DEF ParserInv, Parsing, Reading, Inside
<1> QED
  BY <1>1, <1>2

(* A step of the parser keeps the shape of the tree, and what fails.       *)
LEMMA ParseTree ==
  ASSUME TypeOK, ReadInv, ParserInv, Parse
  PROVE  TreeTypes' /\ ParserInv' /\ (pc' = "rejected" => live' = {})
<1>0. after \in {"value", "opened", "name", "colon", "more"}
  BY DEF TypeOK
<1>1. CASE Look \/ SkipBom \/ SkipOver
  <2>1. /\ UNCHANGED <<depth, frames, items, live, todo, cur>>
        /\ \/ pc \in Reading /\ UNCHANGED <<pc, after>>
           \/ pc = "bom" /\ pc' = "skip" /\ after' = "value"
    BY <1>1 DEF Look, SkipBom, SkipOver, SkipTo, tree, Reading
  <2>2. /\ pc \in Parsing \ {"start"} /\ pc' \in (Parsing \ {"start"}) \cup {"fail"}
        /\ Inside' => frames # << >>
        /\ frames = << >> /\ pc' \in {"bom", "skip", "value", "fail"} => pc \in {"bom", "skip", "value"}
    BY <2>1 DEF Parsing, Reading, Inside, ParserInv
  <2> QED
    BY <2>1, <2>2, QuietParse DEF Parsing, Reading
<1>2. CASE SkipDone
  <2>1. /\ UNCHANGED <<depth, frames, items, live, todo, cur>>
        /\ pc = "skip" /\ pc' = after /\ after' = after
    BY <1>2 DEF SkipDone, tree
  <2>2. /\ pc \in Parsing \ {"start"} /\ pc' \in (Parsing \ {"start"}) \cup {"fail"}
        /\ Inside' => frames # << >>
        /\ frames = << >> /\ pc' \in {"bom", "skip", "value", "fail"} => pc \in {"bom", "skip", "value"}
    BY <1>0, <2>1 DEF Parsing, Reading, Inside, ParserInv
  <2> QED
    BY <1>0, <2>1, <2>2, QuietParse
<1>3. CASE ParseStringFails \/ ParseNothing
  <2>1. /\ UNCHANGED <<depth, frames, items, live, todo, cur, after>>
        /\ pc \in {"value", "name"} /\ pc' = "fail"
    BY <1>3 DEF ParseStringFails, ParseNothing, Unallocated, tree, parse
  <2>2. /\ pc \in Parsing \ {"start"} /\ pc' \in (Parsing \ {"start"}) \cup {"fail"}
        /\ Inside' => frames # << >>
        /\ frames = << >> /\ pc' \in {"bom", "skip", "value", "fail"} => pc \in {"bom", "skip", "value"}
    BY <2>1 DEF Parsing, Reading, Inside, ParserInv
  <2> QED
    BY <2>1, <2>2, QuietParse
<1>4. CASE ParseName \/ ParseColon
  <2>1. /\ UNCHANGED <<depth, frames, items, live, todo, cur>>
        /\ pc \in {"name", "colon"} /\ pc' \in {"skip", "fail"}
    BY <1>4 DEF ParseName, ParseColon, SkipTo, tree
  <2>2. /\ pc \in Parsing \ {"start"} /\ pc' \in (Parsing \ {"start"}) \cup {"fail"}
        /\ frames # << >>
    BY <2>1 DEF Parsing, Reading, Inside, ParserInv
  <2> QED
    BY <2>1, <2>2, QuietParse
<1>5. CASE Parsed
  <2>1. /\ UNCHANGED <<depth, frames, items, live, todo, cur>> /\ pc = "parsed"
        /\ IF frames = << >> THEN pc' = "accepted" ELSE pc' = "skip"
    BY <1>5 DEF Parsed, SkipTo, tree
  <2>2. /\ pc \in Parsing \ {"start"} /\ pc' \in (Parsing \ {"start"}) \cup {"fail"}
        /\ Inside' => frames # << >>
        /\ frames = << >> /\ pc' \in {"bom", "skip", "value", "fail"} => pc \in {"bom", "skip", "value"}
    BY <2>1 DEF Parsing, Reading, Inside, ParserInv
  <2> QED
    BY <2>1, <2>2, QuietParse
<1>6. CASE Opened \/ More
  <2>1. UNCHANGED <<live, todo, cur>> /\ pc \in {"opened", "more"}
    BY <1>6 DEF Opened, More
  <2>2. CASE Close
    BY <2>1, <2>2, CloseParse DEF Close
  <2>3. CASE ~Close
    <3>1. UNCHANGED <<depth, frames, items>> /\ pc' \in {"item", "fail"}
      BY <1>6, <2>3 DEF Opened, More
    <3>2. /\ pc \in Parsing \ {"start"} /\ pc' \in (Parsing \ {"start"}) \cup {"fail"}
          /\ frames # << >>
      BY <2>1, <3>1 DEF Parsing, Reading, Inside, ParserInv
    <3> QED
      BY <2>1, <3>1, <3>2, QuietParse
  <2> QED
    BY <2>2, <2>3
<1>7. CASE Start
  <2>1. UNCHANGED <<depth, frames, todo, cur, after>> /\ pc = "start"
    BY <1>7 DEF Start, parse
  <2>2. items = << >> /\ frames = << >>
    BY <2>1 DEF ParserInv
  <2>3. CASE Allocate(0) /\ pc' = "bom"
    <3>1. 0 \in Nat /\ 0 <= Len(items) /\ pc \in Parsing /\ pc' \in {"bom", "skip"} /\ ~Inside'
      BY <2>1, <2>2, <2>3 DEF Parsing, Inside
    <3> QED
      BY <2>1, <2>2, <2>3, <3>1, AllocateParse
  <2>4. CASE ~(Allocate(0) /\ pc' = "bom")
    <3>1. pc' = "fail" /\ UNCHANGED <<items, live>>
      BY <1>7, <2>4 DEF Start, Unallocated, tree
    <3>2. TreeTypes'
      BY <2>1, <3>1, TypedTree DEF TreeTypes
    <3>3. live = {}
      BY <2>1, <2>2 DEF ParserInv, Parsing
    <3> QED
      BY <2>1, <2>2, <3>1, <3>2, <3>3 DEF ParserInv, Parsing, Reading, Inside
  <2> QED
    BY <2>3, <2>4
<1>8. CASE NextItem
  <2>1. UNCHANGED <<depth, frames, todo, cur>> /\ pc = "item" /\ pc \in Parsing
    BY <1>8 DEF NextItem, Parsing
  <2>2. frames # << >>
    BY <2>1 DEF ParserInv, Inside
  <2>3. Last(frames) \in Nat /\ Last(frames) <= Len(items)
    BY <2>2, FramesIn
  <2>4. CASE Allocate(Last(frames)) /\ pc' = "skip"
    <3> DEFINE n == Last(frames)
    <3>1. n \in Nat /\ n <= Len(items) /\ Allocate(n) /\ pc' \in {"bom", "skip"}
      BY <2>3, <2>4
    <3> HIDE DEF n
    <3>2. TreeTypes' /\ ParserInv'
      BY <2>1, <2>2, <3>1, AllocateParse
    <3> QED
      BY <2>4, <3>2
  <2>5. CASE ~(Allocate(Last(frames)) /\ pc' = "skip")
    <3>1. pc' = "fail" /\ UNCHANGED <<items, live>>
      BY <1>8, <2>5 DEF NextItem, Unallocated, SkipTo, tree
    <3>2. pc \in Parsing \ {"start"} /\ pc' \in (Parsing \ {"start"}) \cup {"fail"}
      BY <2>1, <3>1
    <3> QED
      BY <2>1, <2>2, <3>1, <3>2, QuietParse
  <2> QED
    BY <2>4, <2>5
<1>9. CASE ParseWord \/ ParseNumber \/ ParseString \/ ParseOpen
  <2>1. pc' # "rejected"
    BY <1>9 DEF ParseWord, ParseNumber, ParseString, ParseAs, ParseOpen, SkipTo
  <2> QED
    BY <1>9, <2>1, FilledParse
<1>10. CASE Fail
  BY <1>10, FailParse
<1> QED
  BY <1>1, <1>2, <1>3, <1>4, <1>5, <1>6, <1>7, <1>8, <1>9, <1>10 DEF Parse

(* The rest of TypeOK.                                                     *)
RestTypes ==
  /\ feed \in {"any", "league", "market", "match"}
  /\ heap \subseteq {"name", "odds", "buffer", "tournaments"}
  /\ unfit \subseteq DOMAIN items /\ tours \subseteq DOMAIN items
  /\ mishaps \subseteq {"library", "shrink", "record", "long"}

LEMMA TypedRest == TypeOK => RestTypes
BY DEF TypeOK, RestTypes

LEMMA TypesNext ==
  ASSUME ReadInv', TreeTypes', RestTypes', room' \in Nat
  PROVE  TypeOK'
BY DEF ReadInv, TreeTypes, RestTypes, TypeOK, ItemType

(* Where the walk is, over the items as they are: d is left to visit, u    *)
(* and t were met, l is live, f is the feed.                               *)
Walked(d, u, t, l, f) ==
  /\ d \subseteq Elements
  /\ \A e \in Elements \ d : ~Nameless(e)
  /\ \A y \in t : \A e \in Kids(y) : ~Nameless(e)
  /\ f = "league" => u \cap l = {}
  /\ l = DOMAIN items \/ (f = "league" /\ u # {})

Bad(u, t, f, m) ==
  \/ \E e \in Elements : Nameless(e)
  \/ \E y \in t : \E e \in Kids(y) : Nameless(e)
  \/ f = "league" /\ u # {}
  \/ "record" \in m

LEMMA WalkedNow ==
  ASSUME WalkInv, pc \in Saving
  PROVE  Walked(todo, unfit, tours, live, feed) /\ "record" \notin mishaps
BY DEF WalkInv, Walked, Saving, Printing

(* After a step that leaves the items as they are.                         *)
LEMMA WalkedOn ==
  ASSUME UNCHANGED items, pc' \notin Parsing,
         pc' \in Saving => Walked(todo', unfit', tours', live', feed'),
         pc' # "aborted" => "record" \notin mishaps'
  PROVE  WalkInv'
BY DEF WalkInv, Walked, Elements, Kids, Nameless

LEMMA AbortsOnIt ==
  ASSUME UNCHANGED items,
         pc' = "aborted" => Bad(unfit', tours', feed', mishaps') \/ "long" \in mishaps',
         pc' = "done" => ~Bad(unfit', tours', feed', mishaps')
  PROVE  AbortsOn'
BY DEF AbortsOn, Unsavable, Bad, Elements, Kids, Nameless

(* What is allocated beside the items.                                     *)
LEMMA LostIs ==
  /\ Lost \subseteq {"buffer", "tournaments"}
  /\ "buffer" \in Lost <=> "shrink" \in mishaps
  /\ "tournaments" \in Lost <=> tours # {}
BY DEF Lost

LEMMA SameLost ==
  ASSUME tours' = {} <=> tours = {}, "shrink" \in mishaps' <=> "shrink" \in mishaps
  PROVE  Lost' = Lost
BY DEF Lost

LEMMA HeapOn ==
  ASSUME pc' \in Saving \cup {"done", "aborted"},
         pc' \in Printing => cur' # 0,
         pc' \in {"first", "key", "named", "assign", "next", "close"} => frames' # << >>,
         pc' \notin Printing => buf' = NoBuf,
         pc' # "aborted" => heap' = Lost' \cup Strung',
         pc' = "done" => live' = {}
  PROVE  HeapInv' /\ OnlyKnownLeaks'
<1>1. pc' \in {"save", "done"} => heap' = Lost' /\ buf' = NoBuf
  BY DEF Strung, Printing
<1>2. pc' # "rejected"
  BY DEF Saving, Printing
<1> QED
  BY <1>1, <1>2 DEF HeapInv, OnlyKnownLeaks

(* What is true of each step of the walk.                                  *)
Stepped ==
  /\ UNCHANGED <<text, room, offset, depth, after, items, frames>>
  /\ pc' \in Saving \cup {"done", "aborted"}
  /\ live' \subseteq live /\ todo' \subseteq DOMAIN items /\ cur' \in 0 .. Len(items)
  /\ feed' \in {"any", "league", "market", "match"}
  /\ heap' \subseteq {"name", "odds", "buffer", "tournaments"}
  /\ unfit' \subseteq DOMAIN items /\ tours' \subseteq DOMAIN items
  /\ mishaps' \subseteq {"library", "shrink", "record", "long"}

Keeps == Stepped /\ WalkInv' /\ HeapInv' /\ OnlyKnownLeaks' /\ AbortsOn'

(* An element is visited.                                                  *)
LEMMA Visiting ==
  ASSUME TypeOK, WalkInv, HeapInv, ParserInv, pc = "save"
  PROVE  /\ DOMAIN items = 1 .. Len(items) /\ Len(items) \in Nat /\ live \subseteq DOMAIN items
         /\ cur \in 0 .. Len(items) /\ todo \subseteq DOMAIN items
         /\ RestTypes /\ items # << >>
         /\ Walked(todo, unfit, tours, live, feed) /\ "record" \notin mishaps
         /\ buf = NoBuf /\ heap = Lost
         /\ todo # {} => This \in todo /\ This \in Elements
         /\ todo # {} /\ ~Nameless(This) => Walked(todo \ {This}, unfit, tours, live, feed)
         /\ \A n \in Kids(This) : n \in 1 .. Len(items)
<1>1. /\ DOMAIN items = 1 .. Len(items) /\ Len(items) \in Nat /\ live \subseteq DOMAIN items
      /\ cur \in 0 .. Len(items) /\ todo \subseteq DOMAIN items
  BY DEF TypeOK
<1>2. pc \in Saving /\ pc \notin Printing
  BY DEF Saving, Printing
<1>3. Walked(todo, unfit, tours, live, feed) /\ "record" \notin mishaps
  BY <1>2, WalkedNow
<1>4. todo # {} => This \in todo
  <2>1. todo \subseteq Nat
    BY <1>1
  <2> QED
    BY <2>1, MinIs DEF This
<1>5. todo # {} => This \in Elements
  BY <1>3, <1>4 DEF Walked
<1>6. todo # {} /\ ~Nameless(This) => Walked(todo \ {This}, unfit, tours, live, feed)
  BY <1>3, <1>4 DEF Walked
<1>7. buf = NoBuf /\ heap = Lost
  BY <1>2 DEF HeapInv, Strung
<1>8. \A n \in Kids(This) : n \in 1 .. Len(items)
  BY <1>1 DEF Kids
<1>9. items # << >>
  BY DEF ParserInv
<1> QED
  BY <1>1, <1>3, <1>4, <1>5, <1>6, <1>7, <1>8, <1>9, TypedRest

(* The steps that neither allocate nor free.                               *)
LEMMA SaveAllKeeps ==
  ASSUME TypeOK, ParserInv, WalkInv, HeapInv, SaveAll
  PROVE  Keeps
<1>1. /\ UNCHANGED <<text, room, offset, depth, after, frames, items, live, cur, buf,
                     heap, unfit, tours, mishaps>>
      /\ pc = "accepted" /\ pc' = "save" /\ todo' = Elements
      /\ feed' \in {"league", "market", "match"}
  BY DEF SaveAll, parse, tree
<1>2. /\ DOMAIN items = 1 .. Len(items) /\ Len(items) \in Nat /\ live \subseteq DOMAIN items
      /\ cur \in 0 .. Len(items) /\ RestTypes
  BY TypedRest DEF TypeOK
<1>3. live = DOMAIN items /\ items # << >> /\ unfit = {} /\ tours = {} /\ "record" \notin mishaps
  BY <1>1 DEF ParserInv, WalkInv, Parsing
<1>4. Walked(todo', unfit', tours', live', feed')
  BY <1>1, <1>3 DEF Walked
<1>5. buf = NoBuf /\ heap = Lost /\ pc' \in Saving /\ pc' \notin Parsing \cup Printing
      /\ Strung' = {}
  BY <1>1 DEF HeapInv, Strung, Printing, Saving, Parsing, Reading
<1>6. Lost' = Lost
  BY <1>1, SameLost
<1>7. Elements \subseteq DOMAIN items
  BY <1>2, <1>3 DEF Elements, Kids
<1>8. Stepped
  BY <1>1, <1>2, <1>5, <1>7 DEF Stepped, RestTypes
<1>9. HeapInv' /\ OnlyKnownLeaks'
  <2>1. /\ pc' \in Saving \cup {"done", "aborted"} /\ pc' \notin Printing /\ buf' = NoBuf
        /\ pc' = "save" /\ heap' = Lost' \cup Strung'
    BY <1>1, <1>5, <1>6
  <2> QED
    BY <2>1, HeapOn
<1>10. WalkInv'
  BY <1>1, <1>3, <1>4, <1>5, WalkedOn
<1>11. AbortsOn'
  BY <1>1, AbortsOnIt
<1> QED
  BY <1>8, <1>9, <1>10, <1>11 DEF Keeps

LEMMA AbortKeeps ==
  ASSUME TypeOK, ParserInv, WalkInv, HeapInv, pc \in Saving,
         UNCHANGED <<feed, text, room, offset, depth, after, frames, items, live>>,
         todo' \subseteq DOMAIN items, cur' \in 0 .. Len(items), buf' = NoBuf,
         RestTypes', pc' = "aborted",
         Bad(unfit', tours', feed', mishaps') \/ "long" \in mishaps'
  PROVE  Stepped /\ WalkInv' /\ HeapInv' /\ OnlyKnownLeaks' /\ AbortsOn'
<1>1. pc' \notin Printing \cup Parsing \cup Saving
  BY DEF Printing, Parsing, Reading, Saving
<1>2. Stepped
  BY DEF Stepped, RestTypes
<1>3. WalkInv'
  BY <1>1, WalkedOn
<1>4. pc' \notin {"first", "key", "named", "assign", "next", "close"}
  OBVIOUS
<1>5. HeapInv' /\ OnlyKnownLeaks'
  BY <1>1, <1>4, HeapOn
<1>6. AbortsOn'
  BY AbortsOnIt
<1> QED
  BY <1>2, <1>3, <1>5, <1>6

(* Once more for a step of the walk that goes on with it: what is left is  *)
(* walked, and the heap has what is lost and the strings of a market.      *)
LEMMA GoesOn ==
  ASSUME TypeOK, ParserInv, UNCHANGED <<feed, text, room, offset, depth, after, frames, items>>,
         live' \subseteq live, todo' \subseteq DOMAIN items, cur' \in 0 .. Len(items), RestTypes',
         pc' \in {"save", "print", "unprinted"},
         pc' = "print" => cur' # 0, pc' # "print" => buf' = NoBuf,
         heap' = Lost' \cup Strung', "record" \notin mishaps',
         Walked(todo', unfit', tours', live', feed')
  PROVE  Keeps
<1>1. pc' \in Saving /\ pc' \notin Parsing /\ pc' \notin {"done", "aborted"}
  BY DEF Printing, Parsing, Reading, Saving
<1>2. /\ pc' \in Printing => cur' # 0
      /\ pc' \notin Printing => buf' = NoBuf
      /\ pc' \notin {"first", "key", "named", "assign", "next", "close"}
  BY DEF Printing
<1>3. Stepped
  BY <1>1 DEF Stepped, RestTypes
<1>4. WalkInv'
  BY <1>1, WalkedOn
<1>5. HeapInv' /\ OnlyKnownLeaks'
  BY <1>1, <1>2, HeapOn
<1>6. AbortsOn'
  BY <1>1, AbortsOnIt
<1> QED
  BY <1>3, <1>4, <1>5, <1>6 DEF Keeps

LEMMA LookUpKeeps ==
  ASSUME TypeOK, ParserInv, WalkInv, HeapInv, LookUpInArray \/ Overwritten
  PROVE  Keeps
<1>1. /\ UNCHANGED <<feed, heap, unfit, tours, text, room, offset, depth, after, frames, items,
                     live, todo, cur, buf, mishaps>>
      /\ pc = "save" /\ pc' = "aborted"
      /\ (todo # {} /\ Nameless(This)) \/ "long" \in mishaps
  BY DEF LookUpInArray, Overwritten, record, parse, tree
<1>2. Bad(unfit', tours', feed', mishaps') \/ "long" \in mishaps'
  BY <1>1, Visiting DEF Bad
<1>3. RestTypes'
  BY <1>1, Visiting DEF RestTypes
<1>4. todo' \subseteq DOMAIN items /\ cur' \in 0 .. Len(items) /\ buf' = NoBuf /\ pc \in Saving
  BY <1>1, Visiting DEF Saving
<1> QED
  BY <1>1, <1>2, <1>3, <1>4, AbortKeeps DEF Keeps

LEMMA NoIdKeeps ==
  ASSUME TypeOK, ParserInv, WalkInv, HeapInv, NoId
  PROVE  Keeps
<1>1. /\ UNCHANGED <<feed, heap, tours, text, room, offset, depth, after, frames, items,
                     pc, cur, buf, mishaps>>
      /\ pc = "save" /\ todo # {} /\ ~Nameless(This) /\ todo' = todo \ {This}
      /\ \/ UNCHANGED <<live, unfit>>
         \/ \E n \in Kids(This) : /\ unfit' = unfit \cup {n}
                                  /\ live' = IF feed = "league" THEN live \ Deleted(n) ELSE live
  BY DEF NoId, parse
<1>2. /\ DOMAIN items = 1 .. Len(items) /\ Len(items) \in Nat /\ live \subseteq DOMAIN items
      /\ cur \in 0 .. Len(items) /\ todo \subseteq DOMAIN items /\ RestTypes
      /\ Walked(todo \ {This}, unfit, tours, live, feed) /\ "record" \notin mishaps
      /\ buf = NoBuf /\ heap = Lost
      /\ \A n \in Kids(This) : n \in 1 .. Len(items)
  BY <1>1, Visiting
<1>3. \A n \in 1 .. Len(items) : n \in Deleted(n)
  BY <1>2 DEF Deleted
<1>4. /\ Walked(todo', unfit', tours', live', feed')
      /\ live' \subseteq live /\ unfit' \subseteq DOMAIN items
  <2>1. CASE UNCHANGED <<live, unfit>>
    BY <1>1, <1>2, <2>1 DEF RestTypes
  <2>2. CASE \E n \in Kids(This) : /\ unfit' = unfit \cup {n}
                                  /\ live' = IF feed = "league" THEN live \ Deleted(n) ELSE live
    <3>1. PICK n \in Kids(This) : /\ unfit' = unfit \cup {n}
                                 /\ live' = IF feed = "league" THEN live \ Deleted(n) ELSE live
      BY <2>2
    <3>2. n \in 1 .. Len(items) /\ n \in Deleted(n)
      BY <1>2, <1>3
    <3>3. Walked(todo \ {This}, unfit \cup {n}, tours, live', feed)
      BY <1>2, <3>1, <3>2 DEF Walked
    <3> QED
      BY <1>1, <1>2, <3>1, <3>2, <3>3 DEF RestTypes
  <2> QED
    BY <1>1, <2>1, <2>2
<1>5. RestTypes'
  BY <1>1, <1>2, <1>4 DEF RestTypes
<1>6. Lost' = Lost /\ Strung' = {}
  BY <1>1, SameLost DEF Strung, Printing
<1>7. heap' = Lost' \cup Strung' /\ todo' \subseteq DOMAIN items
  BY <1>1, <1>2, <1>6
<1> QED
  BY <1>1, <1>2, <1>4, <1>5, <1>7, GoesOn

LEMMA SaveFieldsKeeps ==
  ASSUME TypeOK, ParserInv, WalkInv, HeapInv, SaveFields
  PROVE  Keeps
<1>1. /\ UNCHANGED <<feed, heap, unfit, tours, text, room, offset, depth, after, frames, items,
                     live, pc, cur, buf>>
      /\ pc = "save" /\ todo # {} /\ todo' = todo \ {This} /\ Named(This)
      /\ mishaps' = mishaps \/ mishaps' = mishaps \cup {"long"}
  BY DEF SaveFields, HasId, Copied, record, parse, tree
<1>2. ~Nameless(This)
  BY <1>1 DEF Named, Nameless
<1>3. /\ live \subseteq DOMAIN items /\ cur \in 0 .. Len(items) /\ todo \subseteq DOMAIN items
      /\ RestTypes /\ Walked(todo \ {This}, unfit, tours, live, feed) /\ "record" \notin mishaps
      /\ buf = NoBuf /\ heap = Lost
  BY <1>1, <1>2, Visiting
<1>4. RestTypes' /\ "record" \notin mishaps'
  BY <1>1, <1>3 DEF RestTypes
<1>5. Lost' = Lost /\ Strung' = {}
  BY <1>1, SameLost DEF Strung, Printing
<1>6. /\ heap' = Lost' \cup Strung' /\ todo' \subseteq DOMAIN items
      /\ Walked(todo', unfit', tours', live', feed')
  BY <1>1, <1>3, <1>5
<1> QED
  BY <1>1, <1>3, <1>4, <1>6, GoesOn

LEMMA SaveTournamentsKeeps ==
  ASSUME TypeOK, ParserInv, WalkInv, HeapInv, SaveTournaments
  PROVE  Keeps
<1>1. /\ UNCHANGED <<feed, unfit, text, room, offset, depth, after, frames, items, live, cur, buf>>
      /\ pc = "save" /\ todo # {} /\ todo' = todo \ {This}
  BY DEF SaveTournaments, parse, tree
<1>2. PICK t \in Kids(This) :
        /\ Named(This) /\ tours' = tours \cup {t}
        /\ \/ /\ \A e \in Kids(t) : ~Nameless(e)
              /\ mishaps' = mishaps \/ mishaps' = mishaps \cup {"long"}
              /\ heap' = heap \cup {"tournaments"} /\ pc' = "save"
           \/ /\ \E e \in Kids(t) : Nameless(e)
              /\ pc' = "aborted" /\ heap' = heap /\ mishaps' = mishaps
           \/ pc' = "aborted" /\ heap' = heap /\ mishaps' = mishaps \cup {"record"}
  BY DEF SaveTournaments, HasId, Copied
<1>3. ~Nameless(This)
  BY <1>2 DEF Named, Nameless
<1>4. /\ DOMAIN items = 1 .. Len(items) /\ live \subseteq DOMAIN items
      /\ cur \in 0 .. Len(items) /\ todo \subseteq DOMAIN items
      /\ RestTypes /\ Walked(todo \ {This}, unfit, tours, live, feed) /\ "record" \notin mishaps
      /\ buf = NoBuf /\ heap = Lost /\ t \in 1 .. Len(items)
  BY <1>1, <1>3, Visiting
<1>5. RestTypes'
  BY <1>1, <1>2, <1>4 DEF RestTypes
<1>6. CASE pc' = "save"
  <2>1. Walked(todo', unfit', tours', live', feed')
    BY <1>1, <1>2, <1>4, <1>6 DEF Walked
  <2>2. /\ Lost' \subseteq {"buffer", "tournaments"}
        /\ "buffer" \in Lost' <=> "shrink" \in mishaps'
        /\ "tournaments" \in Lost' <=> tours' # {}
    BY DEF Lost
  <2>3. /\ tours' # {}
        /\ "shrink" \in mishaps' <=> "shrink" \in mishaps
        /\ heap' = Lost \cup {"tournaments"}
    BY <1>2, <1>4, <1>6
  <2>4. heap' = Lost'
    <3>1. heap' \subseteq Lost' /\ Lost' \subseteq heap'
      BY <2>2, <2>3, LostIs
    <3> QED
      BY <3>1
  <2>5. Strung' = {} /\ "record" \notin mishaps'
    BY <1>2, <1>4, <1>6 DEF Strung, Printing
  <2>6. heap' = Lost' \cup Strung' /\ todo' \subseteq DOMAIN items
    BY <1>1, <1>4, <2>4, <2>5
  <2> QED
    BY <1>1, <1>4, <1>5, <1>6, <2>1, <2>5, <2>6, GoesOn
<1>7. CASE pc' = "aborted"
  <2>1. Bad(unfit', tours', feed', mishaps')
    BY <1>2, <1>7 DEF Bad
  <2>2. todo' \subseteq DOMAIN items /\ pc \in Saving
    BY <1>1, <1>4 DEF Saving
  <2> QED
    BY <1>1, <1>4, <1>5, <1>7, <2>1, <2>2, AbortKeeps DEF Keeps
<1> QED
  BY <1>2, <1>6, <1>7

LEMMA SaveMarketKeeps ==
  ASSUME TypeOK, ParserInv, WalkInv, HeapInv, SaveMarket
  PROVE  Keeps
<1>1. /\ UNCHANGED <<feed, unfit, tours, text, room, offset, depth, after, frames, items, live>>
      /\ pc = "save" /\ todo # {} /\ todo' = todo \ {This} /\ Named(This)
      /\ \/ /\ heap' = heap \cup {"name"}
            /\ \/ cur' \in Kids(This) /\ pc' = "print" /\ mishaps' = mishaps
               \/ /\ cur' \in Kids(This) /\ pc' = "unprinted" /\ buf' = NoBuf
                  /\ mishaps' = mishaps \cup {"library"}
               \/ cur' = cur /\ pc' = "unprinted" /\ buf' = buf /\ mishaps' = mishaps
         \/ /\ pc' = "aborted" /\ mishaps' = mishaps \cup {"record"}
            /\ UNCHANGED <<heap, cur, buf>>
  BY DEF SaveMarket, HasId, PrintBuffer, parse, tree
<1>2. ~Nameless(This)
  BY <1>1 DEF Named, Nameless
<1>3. /\ live \subseteq DOMAIN items /\ cur \in 0 .. Len(items) /\ todo \subseteq DOMAIN items
      /\ Len(items) \in Nat
      /\ RestTypes /\ Walked(todo \ {This}, unfit, tours, live, feed) /\ "record" \notin mishaps
      /\ buf = NoBuf /\ heap = Lost /\ \A n \in Kids(This) : n \in 1 .. Len(items)
  BY <1>1, <1>2, Visiting
<1>4. RestTypes'
  BY <1>1, <1>3 DEF RestTypes
<1>5. /\ cur' \in 0 .. Len(items) /\ (pc' = "print" => cur' # 0)
      /\ pc' # "print" => buf' = NoBuf
      /\ todo' \subseteq DOMAIN items
  BY <1>1, <1>3
<1>6. CASE pc' # "aborted"
  <2>1. "shrink" \in mishaps' <=> "shrink" \in mishaps
    BY <1>1
  <2>2. Lost' = Lost
    BY <1>1, <2>1, SameLost
  <2>3. Strung' = {"name"}
    BY <1>1, <1>6 DEF Strung, Printing
  <2>4. heap' = Lost' \cup Strung' /\ "record" \notin mishaps' /\ pc' \in {"print", "unprinted"}
    BY <1>1, <1>3, <1>6, <2>2, <2>3
  <2>5. Walked(todo', unfit', tours', live', feed')
    BY <1>1, <1>3
  <2> QED
    BY <1>1, <1>4, <1>5, <2>4, <2>5, GoesOn
<1>7. CASE pc' = "aborted"
  <2>1. Bad(unfit', tours', feed', mishaps') /\ buf' = NoBuf /\ pc \in Saving
    BY <1>1, <1>3, <1>7 DEF Bad, Saving
  <2> QED
    BY <1>1, <1>4, <1>5, <1>7, <2>1, AbortKeeps DEF Keeps
<1> QED
  BY <1>6, <1>7

LEMMA FreeMarketKeeps ==
  ASSUME TypeOK, ParserInv, WalkInv, HeapInv, FreeMarket
  PROVE  Keeps
<1>1. /\ UNCHANGED <<feed, unfit, tours, text, room, offset, depth, after, frames, items, live,
                     todo, cur, buf, mishaps>>
      /\ pc = "record" /\ pc' = "save" /\ heap' = heap \ {"name", "odds"}
  BY DEF FreeMarket, parse, tree
<1>2. pc \in Saving /\ pc \notin Printing
  BY <1>1 DEF Saving, Printing
<1>3. Walked(todo, unfit, tours, live, feed) /\ "record" \notin mishaps
  BY <1>2, WalkedNow
<1>4. heap = Lost \cup {"name", "odds"} /\ buf = NoBuf
  BY <1>1, <1>2 DEF HeapInv, Strung
<1>5. "name" \notin Lost /\ "odds" \notin Lost
  BY LostIs
<1>6. Lost' = Lost /\ Strung' = {}
  BY <1>1, SameLost DEF Strung, Printing
<1>7. heap' = Lost' \cup Strung'
  BY <1>1, <1>4, <1>5, <1>6
<1>8. RestTypes /\ todo \subseteq DOMAIN items /\ cur \in 0 .. Len(items)
  BY TypedRest DEF TypeOK
<1>9. RestTypes'
  BY <1>1, <1>8 DEF RestTypes
<1>10. Walked(todo', unfit', tours', live', feed')
  BY <1>1, <1>3
<1> QED
  BY <1>1, <1>3, <1>4, <1>7, <1>8, <1>9, <1>10, GoesOn

(* cJSON_Delete meets a freed item exactly when a league's Id was deleted. *)
LEMMA DeleteAllKeeps ==
  ASSUME TypeOK, ParserInv, WalkInv, HeapInv, DeleteAll
  PROVE  Keeps
<1>1. /\ UNCHANGED <<feed, heap, unfit, tours, text, room, offset, depth, after, frames, items,
                     todo, cur, buf, mishaps>>
      /\ pc = "save" /\ todo = {} /\ live' = {}
      /\ pc' = IF Deleted(1) \subseteq live THEN "done" ELSE "aborted"
  BY DEF DeleteAll, record, parse
<1>2. /\ DOMAIN items = 1 .. Len(items) /\ Len(items) \in Nat /\ live \subseteq DOMAIN items
      /\ cur \in 0 .. Len(items) /\ RestTypes /\ items # << >>
      /\ Walked(todo, unfit, tours, live, feed) /\ "record" \notin mishaps
      /\ buf = NoBuf /\ heap = Lost
  BY <1>1, Visiting
<1>3. Deleted(1) = DOMAIN items
  <2>1. 1 \in DOMAIN items
    BY <1>2
  <2>2. \A k \in DOMAIN items : items[k].parent \in Nat /\ items[k].parent < k
    <3>1. items \in Seq(ItemType) /\ \A k \in DOMAIN items : items[k].parent < k
      BY DEF TypeOK, ItemType
    <3>2. \A k \in DOMAIN items : items[k] \in ItemType
      BY <3>1
    <3> QED
      BY <3>1, <3>2 DEF ItemType
  <2>3. items[1].parent = 0
    BY <2>1, <2>2
  <2> QED
    BY <1>2, <2>2, <2>3 DEF Deleted
<1>4. pc' = "done" => ~Bad(unfit', tours', feed', mishaps')
  <2>1. ASSUME pc' = "done" PROVE live = DOMAIN items
    BY <1>1, <1>2, <1>3, <2>1
  <2> QED
    BY <1>1, <1>2, <2>1 DEF Bad, Walked, RestTypes
<1>5. pc' = "aborted" => Bad(unfit', tours', feed', mishaps')
  BY <1>1, <1>2, <1>3 DEF Bad, Walked
<1>6. pc' \in {"done", "aborted"} /\ pc' \notin Parsing \cup Saving \cup Printing /\ Strung' = {}
  BY <1>1 DEF Parsing, Reading, Saving, Printing, Strung
<1>7. Lost' = Lost
  BY <1>1, SameLost
<1>8. Stepped
  BY <1>1, <1>2, <1>6 DEF Stepped, RestTypes, TypeOK
<1>9. WalkInv'
  BY <1>1, <1>2, <1>6, WalkedOn
<1>10. HeapInv' /\ OnlyKnownLeaks'
  <2>1. /\ pc' \in Saving \cup {"done", "aborted"} /\ pc' \notin Printing
        /\ pc' \notin {"first", "key", "named", "assign", "next", "close"}
        /\ buf' = NoBuf /\ live' = {} /\ heap' = Lost' \cup Strung'
    BY <1>1, <1>2, <1>6, <1>7
  <2> QED
    BY <2>1, HeapOn
<1>11. AbortsOn'
  BY <1>1, <1>4, <1>5, AbortsOnIt
<1> QED
  BY <1>8, <1>9, <1>10, <1>11 DEF Keeps

LEMMA UseTree ==
  ASSUME TypeOK, ParserInv, WalkInv, HeapInv, Use
  PROVE  Keeps
BY SaveAllKeeps, LookUpKeeps, NoIdKeeps, SaveFieldsKeeps, SaveTournamentsKeeps,
   SaveMarketKeeps, FreeMarketKeeps, DeleteAllKeeps DEF Use

(* The printer.  What memory it lacked.                                    *)
OnlyLibrary == mishaps' = mishaps \/ mishaps' = mishaps \cup {"library"}

LEMMA PieceTo ==
  ASSUME NEW asked, NEW x, NEW n, NEW k, NEW next, Piece(asked, x, n, k, next)
  PROVE  (pc' = next \/ (pc' = "unprinted" /\ buf' = NoBuf)) /\ OnlyLibrary
BY DEF Piece, OnlyLibrary

LEMMA GoToIn ==
  ASSUME NEW S, S \subseteq DOMAIN items, items \in Seq(ItemType), S # {}, GoTo(Min(S))
  PROVE  cur' \in 1 .. Len(items) /\ pc' \in {"print", "key"}
<1>1. S \subseteq Nat /\ DOMAIN items = 1 .. Len(items)
  OBVIOUS
<1>2. Min(S) \in 1 .. Len(items)
  BY <1>1, MinIs
<1> QED
  BY <1>2 DEF GoTo

(* What the printer leaves as it is, and what becomes of its text.         *)
still == <<feed, unfit, tours, parse, tree, todo>>

Goes == heap' = heap /\ OnlyLibrary
Cut ==
  /\ buf' = NoBuf /\ pc' = "unprinted"
  /\ heap' = heap \cup {"buffer"} /\ mishaps' = mishaps \cup {"shrink"}
Copies ==
  /\ buf' = NoBuf /\ pc' = "record"
  /\ heap' = heap \cup {"odds"} /\ mishaps' = mishaps
CopiesNot ==
  /\ buf' = NoBuf /\ pc' = "aborted"
  /\ heap' = heap /\ mishaps' = mishaps \cup {"record"}

LEMMA PrintTree ==
  ASSUME TypeOK, ParserInv, HeapInv, PrintOdds
  PROVE  /\ UNCHANGED still
         /\ pc \in Printing \cup {"unprinted"}
         /\ frames' \in Seq(DOMAIN items) /\ cur' \in 0 .. Len(items)
         /\ pc' \in Printing => cur' # 0
         /\ pc' \in {"first", "key", "named", "assign", "next", "close"} => frames' # << >>
         /\ \/ pc' \in Printing /\ Goes
            \/ pc' = "unprinted" /\ buf' = NoBuf /\ Goes
            \/ Cut \/ Copies \/ CopiesNot
<1>0. /\ DOMAIN items = 1 .. Len(items) /\ Len(items) \in Nat /\ items \in Seq(ItemType)
      /\ cur \in 0 .. Len(items) /\ frames \in Seq(DOMAIN items)
  BY DEF TypeOK, ItemType
<1>1. /\ pc \in Printing => cur \in 1 .. Len(items)
      /\ pc \in {"first", "key", "named", "assign", "next", "close"} => frames # << >>
  BY <1>0 DEF HeapInv
<1>12. UNCHANGED walk => UNCHANGED still /\ heap' = heap
  BY Zenon DEF walk, still, record
<1>2. CASE PrintWord \/ PrintNumber \/ PrintString
  <2>1. UNCHANGED walk /\ UNCHANGED <<frames, cur>> /\ pc = "print"
    BY <1>2 DEF PrintWord, PrintNumber, PrintString
  <2>2. (pc' = "printed" \/ (pc' = "unprinted" /\ buf' = NoBuf)) /\ OnlyLibrary
    BY <1>2, PieceTo DEF PrintWord, PrintNumber, PrintString
  <2> QED
    BY <1>0, <1>1, <1>12, <2>1, <2>2 DEF Printing, Goes
<1>3. CASE PrintOpen
  <2>1. UNCHANGED walk /\ frames' = Append(frames, cur) /\ cur' = cur /\ pc = "print"
    BY <1>3 DEF PrintOpen
  <2>2. (pc' = "first" \/ (pc' = "unprinted" /\ buf' = NoBuf)) /\ OnlyLibrary
    BY <1>3, PieceTo DEF PrintOpen
  <2>3. cur \in DOMAIN items
    BY <1>0, <1>1, <2>1 DEF Printing
  <2>4. frames' \in Seq(DOMAIN items) /\ frames' # << >>
    BY <1>0, <2>1, <2>3
  <2> QED
    BY <1>0, <1>1, <1>12, <2>1, <2>2, <2>4 DEF Printing, Goes
<1>4. CASE PrintFirst
  <2>1. UNCHANGED walk /\ UNCHANGED <<frames, buf, mishaps>> /\ pc = "first"
    BY <1>4 DEF PrintFirst
  <2> DEFINE S == Kids(Last(frames))
  <2>2. S \subseteq DOMAIN items
    BY DEF Kids
  <2>3. (S = {} /\ pc' = "close" /\ cur' = cur) \/ (S # {} /\ GoTo(Min(S)))
    BY <1>4 DEF PrintFirst
  <2> HIDE DEF S
  <2>4. S # {} /\ GoTo(Min(S)) => cur' \in 1 .. Len(items) /\ pc' \in {"print", "key"}
    BY <1>0, <2>2, GoToIn
  <2> QED
    BY <1>0, <1>1, <1>12, <2>1, <2>3, <2>4 DEF Printing, Goes, OnlyLibrary
<1>5. CASE PrintKey \/ PrintColon
  <2>1. UNCHANGED walk /\ UNCHANGED <<frames, cur>> /\ pc \in {"key", "assign"}
    BY <1>5 DEF PrintKey, PrintColon
  <2>2. (pc' \in {"named", "print"} \/ (pc' = "unprinted" /\ buf' = NoBuf)) /\ OnlyLibrary
    BY <1>5, PieceTo DEF PrintKey, PrintColon
  <2> QED
    BY <1>0, <1>1, <1>12, <2>1, <2>2 DEF Printing, Goes
<1>6. CASE Count
  <2>1. UNCHANGED walk /\ UNCHANGED <<frames, cur, mishaps>> /\ pc \in {"named", "printed"}
    BY <1>6 DEF Count
  <2>2. pc' \in {"assign", "next", "odds"} /\ (pc' \in {"assign", "next"} => frames # << >>)
    BY <1>1, <1>6, <2>1 DEF Count
  <2> QED
    BY <1>0, <1>1, <1>12, <2>1, <2>2 DEF Printing, Goes, OnlyLibrary
<1>7. CASE PrintNext
  <2>1. UNCHANGED walk /\ UNCHANGED frames /\ pc = "next" /\ Siblings(cur) # {}
    BY <1>7 DEF PrintNext
  <2> DEFINE S == Siblings(cur)
  <2>2. S \subseteq DOMAIN items
    BY DEF Siblings, Kids
  <2>3. /\ (pc' = "unprinted" /\ buf' = NoBuf /\ cur' = cur) \/ (S # {} /\ GoTo(Min(S)))
        /\ OnlyLibrary
    BY <1>7 DEF PrintNext, OnlyLibrary
  <2> HIDE DEF S
  <2>4. S # {} /\ GoTo(Min(S)) => cur' \in 1 .. Len(items) /\ pc' \in {"print", "key"}
    BY <1>0, <2>2, GoToIn
  <2> QED
    BY <1>0, <1>1, <1>12, <2>1, <2>3, <2>4 DEF Printing, Goes
<1>8. CASE PrintLast
  <2>1. UNCHANGED walk /\ UNCHANGED <<frames, cur>> /\ pc = "next"
    BY <1>8 DEF PrintLast
  <2>2. (pc' = "close" \/ (pc' = "unprinted" /\ buf' = NoBuf)) /\ OnlyLibrary
    BY <1>8 DEF PrintLast, OnlyLibrary
  <2> QED
    BY <1>0, <1>1, <1>12, <2>1, <2>2 DEF Printing, Goes
<1>9. CASE PrintClose
  <2>1. UNCHANGED walk /\ cur' = Last(frames) /\ frames' = Front(frames) /\ pc = "close"
    BY <1>9 DEF PrintClose
  <2>2. (pc' = "printed" \/ (pc' = "unprinted" /\ buf' = NoBuf)) /\ OnlyLibrary
    BY <1>9, PieceTo DEF PrintClose
  <2>3. Last(frames) \in 1 .. Len(items) /\ Front(frames) \in Seq(DOMAIN items)
    BY <1>1, <2>1, FramesIn
  <2> QED
    BY <1>0, <1>12, <2>1, <2>2, <2>3 DEF Printing, Goes
<1>10. CASE Printed
  <2>1. UNCHANGED still /\ UNCHANGED <<frames, cur>> /\ pc = "odds"
    BY <1>10 DEF Printed, still
  <2>2. (pc' = "text" /\ Goes) \/ Cut
    BY <1>10 DEF Printed, Goes, OnlyLibrary, Cut
  <2> QED
    BY <1>0, <1>1, <2>1, <2>2 DEF Printing, Cut
<1>11. CASE CopyOdds
  <2>1. /\ UNCHANGED still /\ pc \in {"text", "unprinted"} /\ frames' = << >> /\ cur' = 0
        /\ Copies \/ CopiesNot
    BY <1>11 DEF CopyOdds, still, Copies, CopiesNot
  <2>2. << >> \in Seq(DOMAIN items)
    OBVIOUS
  <2> QED
    BY <1>0, <2>1, <2>2 DEF Printing, Copies, CopiesNot
<1> QED
  BY <1>2, <1>3, <1>4, <1>5, <1>6, <1>7, <1>8, <1>9, <1>10, <1>11 DEF PrintOdds

(* The walk is kept over the printing, and what is allocated is known.     *)
LEMMA PrintKeeps ==
  ASSUME TypeOK, ParserInv, WalkInv, HeapInv, PrintOdds
  PROVE  /\ UNCHANGED <<text, room, offset, depth, after, items, live, todo>>
         /\ frames' \in Seq(DOMAIN items) /\ cur' \in 0 .. Len(items) /\ RestTypes'
         /\ pc' \in Saving \cup {"aborted"}
         /\ WalkInv' /\ HeapInv' /\ OnlyKnownLeaks' /\ AbortsOn'
<1>1. /\ UNCHANGED still
      /\ pc \in Printing \cup {"unprinted"}
      /\ frames' \in Seq(DOMAIN items) /\ cur' \in 0 .. Len(items)
      /\ pc' \in Printing => cur' # 0
      /\ pc' \in {"first", "key", "named", "assign", "next", "close"} => frames' # << >>
      /\ \/ pc' \in Printing /\ Goes
         \/ pc' = "unprinted" /\ buf' = NoBuf /\ Goes
         \/ Cut \/ Copies \/ CopiesNot
  BY PrintTree
<1>2. UNCHANGED <<text, room, offset, depth, after, items, live, todo, feed, unfit, tours>>
  BY <1>1 DEF still, parse, tree
<1>3. pc \in Saving /\ pc # "aborted"
  BY <1>1 DEF Saving, Printing
<1>4. Walked(todo, unfit, tours, live, feed) /\ "record" \notin mishaps
  BY <1>3, WalkedNow
<1>5. heap = Lost \cup {"name"}
  BY <1>1, <1>3 DEF HeapInv, Strung, Printing
<1>6. /\ pc' \in Saving \cup {"aborted"} /\ pc' \notin Parsing \cup {"done"}
      /\ pc' \notin Printing => buf' = NoBuf
  BY <1>1 DEF Saving, Printing, Parsing, Reading, Cut, Copies, CopiesNot
<1>7. RestTypes'
  BY <1>1, <1>2, TypedRest DEF RestTypes, Goes, OnlyLibrary, Cut, Copies, CopiesNot
<1>8. pc' # "aborted" => "record" \notin mishaps' /\ heap' = Lost' \cup Strung'
  <2>1. CASE (pc' \in Printing \cup {"unprinted"}) /\ Goes
    <3>1. "shrink" \in mishaps' <=> "shrink" \in mishaps
      BY <2>1 DEF Goes, OnlyLibrary
    <3>2. Lost' = Lost
      BY <1>2, <3>1, SameLost
    <3>3. Strung' = {"name"}
      BY <2>1 DEF Strung, Printing
    <3> QED
      BY <1>4, <1>5, <2>1, <3>2, <3>3 DEF Goes, OnlyLibrary
  <2>2. CASE Cut
    <3>1. /\ Lost' \subseteq {"buffer", "tournaments"}
          /\ "buffer" \in Lost' <=> "shrink" \in mishaps'
          /\ "tournaments" \in Lost' <=> tours' # {}
      BY DEF Lost
    <3>2. heap' = Lost \cup {"name"} \cup {"buffer"} /\ "shrink" \in mishaps'
      BY <1>5, <2>2 DEF Cut
    <3>3. Lost' \subseteq Lost \cup {"buffer"} /\ Lost \cup {"buffer"} \subseteq Lost'
      BY <1>2, <3>1, <3>2, LostIs
    <3>4. Strung' = {"name"}
      BY <2>2 DEF Strung, Cut
    <3>5. heap' = Lost' \cup Strung'
      BY <3>2, <3>3, <3>4
    <3> QED
      BY <1>4, <2>2, <3>5 DEF Cut
  <2>3. CASE Copies
    <3>1. Lost' = Lost
      BY <1>2, <2>3, SameLost DEF Copies
    <3>2. Strung' = {"name", "odds"}
      BY <2>3 DEF Strung, Copies, Printing
    <3> QED
      BY <1>4, <1>5, <2>3, <3>1, <3>2 DEF Copies
  <2> QED
    BY <1>1, <2>1, <2>2, <2>3 DEF CopiesNot
<1>9. pc' = "aborted" => Bad(unfit', tours', feed', mishaps')
  BY <1>1 DEF Bad, CopiesNot, Cut, Copies, Printing
<1>10. WalkInv'
  <2>1. Walked(todo', unfit', tours', live', feed')
    BY <1>2, <1>4
  <2> QED
    BY <1>2, <1>6, <1>8, <2>1, WalkedOn
<1>11. HeapInv' /\ OnlyKnownLeaks'
  BY <1>1, <1>6, <1>8, HeapOn
<1>12. AbortsOn'
  BY <1>2, <1>6, <1>9, AbortsOnIt
<1> QED
  BY <1>1, <1>2, <1>6, <1>7, <1>10, <1>11, <1>12

(* What the parser leaves alone, and where it stays.                       *)
LEMMA ParseRest ==
  ASSUME TypeOK, Parse
  PROVE  /\ UNCHANGED <<record, buf>> /\ room' \in Nat /\ OnlyLibrary
         /\ pc \in Parsing \cup {"fail"} /\ pc' \in Parsing \cup {"fail", "rejected"}
         /\ pc = "fail" => items' = items /\ pc' \in {"fail", "rejected"}
<1>0. /\ room \in Nat
      /\ after \in {"value", "opened", "name", "colon", "more"}
  BY DEF TypeOK
<1> USE DEF Parsing, Reading, OnlyLibrary
<1>1. CASE Look
  BY <1>0, <1>1 DEF Look
<1>2. CASE Start \/ NextItem
  BY <1>0, <1>2 DEF Start, NextItem, Unallocated, SkipTo, parse
<1>3. CASE SkipBom \/ SkipOver \/ SkipDone
  BY <1>0, <1>3 DEF SkipBom, SkipOver, SkipDone, SkipTo
<1>4. CASE ParseWord \/ ParseNumber \/ ParseString \/ ParseOpen
  BY <1>0, <1>4 DEF ParseWord, ParseNumber, ParseString, ParseAs, ParseOpen, SkipTo
<1>5. CASE ParseStringFails \/ ParseNothing
  BY <1>0, <1>5 DEF ParseStringFails, ParseNothing, Unallocated, parse
<1>6. CASE Opened \/ More
  BY <1>0, <1>6 DEF Opened, More, Close
<1>7. CASE ParseName \/ ParseColon \/ Parsed
  BY <1>0, <1>7 DEF ParseName, ParseColon, Parsed, SkipTo
<1>8. CASE Fail
  BY <1>0, <1>8 DEF Fail, parse
<1> QED
  BY <1>1, <1>2, <1>3, <1>4, <1>5, <1>6, <1>7, <1>8 DEF Parse

(* Nothing has been walked or lost while the text is parsed.               *)
LEMMA ParseKeeps ==
  ASSUME TypeOK, ReadInv, ParserInv, WalkInv, HeapInv, Parse
  PROVE  TreeTypes' /\ RestTypes' /\ room' \in Nat /\ ParserInv' /\ WalkInv' /\ HeapInv'
         /\ OnlyKnownLeaks' /\ AbortsOn'
<1>1. TreeTypes' /\ ParserInv' /\ (pc' = "rejected" => live' = {})
  BY ParseTree
<1>2. /\ UNCHANGED <<record, buf>> /\ room' \in Nat /\ OnlyLibrary
      /\ pc \in Parsing \cup {"fail"} /\ pc' \in Parsing \cup {"fail", "rejected"}
      /\ pc = "fail" => items' = items /\ pc' \in {"fail", "rejected"}
  BY ParseRest
<1>3. UNCHANGED <<feed, heap, unfit, tours>>
  BY <1>2 DEF record
<1>4. \A x \in Parsing \cup {"fail", "rejected"} : x \notin Saving \cup Printing \cup {"done", "aborted", "record", "unprinted", "save"}
  BY DEF Parsing, Reading, Saving, Printing
<1>5. "fail" \notin Parsing /\ "rejected" \notin Parsing
  BY DEF Parsing, Reading
<1>6. RestTypes'
  <2>1. pc \in Parsing => unfit = {} /\ tours = {}
    BY DEF WalkInv
  <2> QED
    BY <1>2, <1>3, <2>1, TypedRest DEF RestTypes, OnlyLibrary
<1>7. buf = NoBuf /\ heap = Lost /\ "record" \notin mishaps
  BY <1>2, <1>4 DEF HeapInv, WalkInv, Strung
<1>8. "shrink" \in mishaps' <=> "shrink" \in mishaps
  BY <1>2 DEF OnlyLibrary
<1>9. Lost' = Lost /\ Strung' = {}
  BY <1>2, <1>3, <1>4, <1>8, SameLost DEF Strung
<1>10. WalkInv'
  <2>1. pc' \in Parsing => pc \in Parsing
    BY <1>2, <1>5
  <2>2. "record" \notin mishaps'
    BY <1>2, <1>7 DEF OnlyLibrary
  <2> QED
    BY <1>2, <1>3, <1>4, <2>1, <2>2 DEF WalkInv
<1>11. HeapInv'
  <2>1. pc' \notin {"first", "key", "named", "assign", "next", "close"}
    BY <1>2, <1>4 DEF Printing
  <2> QED
    BY <1>2, <1>3, <1>4, <1>7, <1>9, <2>1 DEF HeapInv
<1>12. OnlyKnownLeaks' /\ AbortsOn'
  BY <1>1, <1>2, <1>3, <1>4, <1>7, <1>9 DEF OnlyKnownLeaks, AbortsOn
<1> QED
  BY <1>1, <1>2, <1>6, <1>10, <1>11, <1>12

LEMMA TreeInit == Init => TreeInv
<1> SUFFICES ASSUME Init PROVE TreeInv
  OBVIOUS
<1>1. ReadInv
  BY ReadInit
<1>2. PICK b \in Beginning : text = b.text /\ room = b.room
  BY DEF Init
<1>3. room \in Nat
  BY <1>2, BeginningAssumption
<1>4. << >> \in Seq(ItemType) /\ DOMAIN << >> = {} /\ Len(<< >>) = 0
  OBVIOUS
<1>5. TypeOK
  <2>1. /\ room \in Nat /\ RestTypes
        /\ depth \in 0 .. NestLimit /\ cur \in 0 .. Len(items)
        /\ live \subseteq DOMAIN items /\ todo \subseteq DOMAIN items
    <3>1. RestTypes /\ live = {} /\ todo = {}
      BY DEF Init, RestTypes
    <3>2. depth = 0 /\ cur = 0 /\ Len(items) = 0
      BY <1>4 DEF Init
    <3>3. depth \in 0 .. NestLimit /\ cur \in 0 .. Len(items)
      BY <3>2
    <3> QED
      BY <1>3, <3>1, <3>3
  <2>2. items \in Seq(ItemType) /\ frames \in Seq(DOMAIN items)
        /\ \A k \in DOMAIN items : items[k].parent < k
    BY <1>4 DEF Init
  <2> QED
    BY <1>1, <2>1, <2>2 DEF TypeOK, ReadInv, ItemType, RestTypes
<1>6. ParserInv
  BY <1>4 DEF Init, ParserInv, Inside, Parsing, Reading
<1>7. pc = "start" /\ pc \notin Saving \cup Printing
  BY DEF Init, Saving, Printing
<1>8. WalkInv /\ OnlyKnownLeaks /\ AbortsOn
  BY <1>7 DEF Init, WalkInv, OnlyKnownLeaks, AbortsOn
<1>9. HeapInv
  <2>1. Lost = {} /\ Strung = {}
    BY <1>7, LostIs DEF Init, Strung
  <2> QED
    BY <1>7, <2>1 DEF Init, HeapInv
<1> QED
  BY <1>1, <1>5, <1>6, <1>8, <1>9 DEF TreeInv

LEMMA TreeNext == TreeInv /\ [Next]_vars => TreeInv'
<1> SUFFICES ASSUME TreeInv, [Next]_vars PROVE TreeInv'
  OBVIOUS
<1>0. ReadInv /\ TypeOK /\ ParserInv /\ WalkInv /\ HeapInv /\ OnlyKnownLeaks /\ AbortsOn
  BY DEF TreeInv
<1>1. ReadInv'
  BY <1>0, ReadNext
<1>2. /\ DOMAIN items = 1 .. Len(items) /\ Len(items) \in Nat /\ TreeTypes
      /\ room \in Nat
  BY <1>0, TypedTree DEF TypeOK
<1>3. CASE Parse
  BY <1>0, <1>1, <1>3, ParseKeeps, TypesNext DEF TreeInv
<1>4. CASE Use
  <2>1. Keeps
    BY <1>0, <1>4, UseTree
  <2>2. TreeTypes' /\ RestTypes' /\ room' \in Nat
    BY <1>2, <2>1 DEF Keeps, Stepped, TreeTypes, RestTypes
  <2>3. TypeOK'
    BY <1>1, <2>2, TypesNext
  <2>4. items' # << >> /\ pc' \in Saving \cup {"done", "aborted"} /\ UNCHANGED <<items, frames>>
    <3>1. pc # "start" /\ pc # "fail" /\ pc # "rejected"
      BY <1>4 DEF Use, SaveAll, LookUpInArray, NoId, SaveFields, SaveTournaments, Overwritten,
           SaveMarket, FreeMarket, DeleteAll
    <3> QED
      BY <1>0, <2>1, <3>1 DEF Keeps, Stepped, ParserInv
  <2>5. ParserInv'
    BY <2>4 DEF ParserInv, Parsing, Reading, Inside, Saving, Printing
  <2> QED
    BY <1>1, <2>1, <2>3, <2>5 DEF TreeInv, Keeps
<1>5. CASE PrintOdds
  <2>1. /\ UNCHANGED <<text, room, offset, depth, after, items, live, todo>>
        /\ frames' \in Seq(DOMAIN items) /\ cur' \in 0 .. Len(items) /\ RestTypes'
        /\ pc' \in Saving \cup {"aborted"}
        /\ WalkInv' /\ HeapInv' /\ OnlyKnownLeaks' /\ AbortsOn'
    BY <1>0, <1>5, PrintKeeps
  <2>2. TypeOK'
    <3>1. TreeTypes' /\ room' \in Nat
      BY <1>2, <2>1 DEF TreeTypes
    <3> QED
      BY <1>1, <2>1, <3>1, TypesNext
  <2>3. items # << >>
    <3>1. pc \in Printing \cup {"unprinted"}
      BY <1>0, <1>5, PrintTree
    <3> QED
      BY <1>0, <3>1 DEF ParserInv, Printing
  <2>4. ParserInv'
    BY <2>1, <2>3 DEF ParserInv, Parsing, Reading, Inside, Saving, Printing
  <2> QED
    BY <1>1, <2>1, <2>2, <2>4 DEF TreeInv
<1>6. CASE UNCHANGED vars
  <2>1. TypeOK' /\ ParserInv'
    BY <1>0, <1>6, SMTT(30) DEF vars, record, parse, tree, TypeOK, ParserInv, Inside
  <2>2. WalkInv' /\ HeapInv' /\ OnlyKnownLeaks' /\ AbortsOn'
    BY <1>0, <1>6 DEF vars, record, parse, tree, WalkInv, HeapInv, Strung, Lost, OnlyKnownLeaks,
         AbortsOn, Unsavable, Elements, Kids, Nameless
  <2> QED
    BY <1>1, <2>1, <2>2 DEF TreeInv
<1> QED
  BY <1>3, <1>4, <1>5, <1>6 DEF Next

LEMMA TreeAlways == Spec => []TreeInv
BY TreeInit, TreeNext, PTL DEF Spec

(* The frames and what is left to visit are items that were made, an       *)
(* item's parent was made before it, and the nesting never exceeds the     *)
(* limit, whatever the text: parse_array and parse_object give a level     *)
(* back on every way out.                                                  *)
THEOREM JsonTypes == Spec => []TypeOK
<1>1. TreeInv => TypeOK
  BY DEF TreeInv
<1> QED
  BY <1>1, TreeAlways, PTL

(* Every item of a file that was refused or saved has been freed, and the  *)
(* printer's buffer and a market's strings with them, wherever the library *)
(* ran out of memory: each container that gives up deletes what was made   *)
(* after it.  What is left is the text of odds that print could not cut,   *)
(* and a league's tournaments.                                             *)
THEOREM LeaksAreKnown == Spec => []OnlyKnownLeaks
<1>1. TreeInv => OnlyKnownLeaks
  BY DEF TreeInv
<1> QED
  BY <1>1, TreeAlways, PTL

(* Saving aborts on a file with a nested array where a record or a         *)
(* tournament belongs, on a league whose Id save_league_to_db has deleted, *)
(* where a record's own malloc fails, it may on a string that is too long, *)
(* and nowhere else.                                                       *)
THEOREM AbortsAreKnown == Spec => []AbortsOn
<1>1. TreeInv => AbortsOn
  BY DEF TreeInv
<1> QED
  BY <1>1, TreeAlways, PTL
-----------------------------------------------------------------------------
(* Where the items lie in the text.                                        *)

(* Texts and items as they are: r lies in s.                               *)
Tree(s, r) ==
  /\ s \in Seq(Token) /\ r \in Seq(ItemType)
  /\ \A k \in DOMAIN r : r[k].parent < k

LEMMA TreeItem ==
  ASSUME NEW s, NEW r, Tree(s, r)
  PROVE  /\ Len(s) \in Nat /\ Len(r) \in Nat /\ DOMAIN r = 1 .. Len(r)
         /\ \A k \in 1 .. Len(r) :
              /\ r[k].parent \in Nat /\ r[k].parent < k
              /\ r[k].from \in Nat /\ r[k].to \in Nat
              /\ r[k].type \in Scalar \cup {"array", "object", "none"}
              /\ r[k].parent # 0 => r[k].parent \in 1 .. Len(r)
<1>1. /\ Len(s) \in Nat /\ Len(r) \in Nat /\ DOMAIN r = 1 .. Len(r)
      /\ \A k \in 1 .. Len(r) : r[k] \in ItemType
  BY DEF Tree
<1>2. \A x \in ItemType : /\ x.parent \in Nat /\ x.from \in Nat /\ x.to \in Nat
                         /\ x.type \in Scalar \cup {"array", "object", "none"}
  BY DEF ItemType
<1>3. ASSUME NEW k \in 1 .. Len(r)
      PROVE  r[k].parent < k /\ (r[k].parent # 0 => r[k].parent \in 1 .. Len(r))
  <2>1. r[k].parent \in Nat /\ r[k].parent < k
    BY <1>1, <1>2 DEF Tree
  <2> QED
    BY <1>1, <2>1
<1> QED
  BY <1>1, <1>2, <1>3

(* A text s that goes on as q, items r with those of v behind them.        *)
Longer(s, q) == q \in Seq(Token) /\ Len(s) <= Len(q) /\ \A i \in 1 .. Len(s) : q[i] = s[i]
Later(r, v) ==
  /\ v \in Seq(ItemType) /\ Len(r) <= Len(v)
  /\ \A k \in 1 .. Len(r) : v[k].parent = r[k].parent

LEMMA UptoKeeps ==
  ASSUME NEW s, NEW r, Tree(s, r), NEW q, Longer(s, q), NEW v,
         NEW S, S \subseteq DOMAIN r, NEW c \in DOMAIN r, NEW b \in Nat, b <= Len(s),
         v[c].from = r[c].from, \A j \in S : v[j].to = r[j].to,
         NEW first, NEW more, Upto(s, r, S, c, b, first, more)
  PROVE  Upto(q, v, S, c, b, first, more)
<1>1. /\ r[c].from \in Nat /\ r[c].from + 1 <= b
      /\ \A j \in S : r[j].to \in Nat
  BY TreeItem DEF Upto
<1>2. Spelled(q, r[c].from + 1, b) = Spelled(s, r[c].from + 1, b)
  BY <1>1, SpelledSame DEF Tree, Longer
<1>3. \A j \in S : r[j].to <= b => Spelled(q, r[j].to, b) = Spelled(s, r[j].to, b)
  BY <1>1, SpelledSame DEF Tree, Longer
<1> QED
  BY <1>2, <1>3 DEF Upto

LEMMA ElderIn ==
  ASSUME NEW s, NEW r, Tree(s, r), NEW v, Later(r, v), NEW k \in DOMAIN r
  PROVE  Elder(v, k) = Elder(r, k) /\ Elder(r, k) \subseteq DOMAIN r
<1>1. DOMAIN r = 1 .. Len(r) /\ Len(r) \in Nat /\ DOMAIN v = 1 .. Len(v) /\ Len(v) \in Nat
  BY TreeItem DEF Later
<1>2. ASSUME NEW i \in DOMAIN v, i < k PROVE i \in DOMAIN r /\ v[i].parent = r[i].parent
  BY <1>1, <1>2 DEF Later
<1>3. v[k].parent = r[k].parent
  BY <1>1 DEF Later
<1>4. DOMAIN r \subseteq DOMAIN v
  BY <1>1 DEF Later
<1> QED
  BY <1>2, <1>3, <1>4 DEF Elder, Below

(* What is not touched stays as it is.                                     *)
LEMMA BegunKeeps ==
  ASSUME NEW s, NEW r, Tree(s, r), NEW q, Longer(s, q), NEW v, Later(r, v),
         NEW k \in DOMAIN r, v[k].type = r[k].type, v[k].from = r[k].from,
         r[k].parent # 0 =>
           v[r[k].parent].from = r[r[k].parent].from /\ v[r[k].parent].type = r[r[k].parent].type,
         \A j \in Elder(r, k) : v[j].to = r[j].to,
         Begun(s, r, k)
  PROVE  Begun(q, v, k)
<1>1. /\ r[k].from \in Nat /\ r[k].from < Len(s) /\ Len(s) \in Nat
      /\ r[k].parent # 0 => r[k].parent \in DOMAIN r
      /\ v[k].parent = r[k].parent
  BY TreeItem DEF Begun, Later
<1>2. Spelled(q, r[k].from, r[k].from + 1) = Spelled(s, r[k].from, r[k].from + 1)
  <2>1. r[k].from + 1 \in Nat /\ r[k].from <= r[k].from + 1 /\ r[k].from + 1 <= Len(s)
    BY <1>1
  <2> QED
    BY <1>1, <2>1, SpelledSame DEF Tree, Longer
<1>3. Elder(v, k) = Elder(r, k) /\ Elder(r, k) \subseteq DOMAIN r
  BY ElderIn
<1>4. r[k].parent # 0 => Lead(v, r[k].parent) = Lead(r, r[k].parent)
  BY DEF Lead
<1>5. ASSUME r[k].parent # 0
      PROVE  Upto(q, v, Elder(r, k), r[k].parent, r[k].from, Lead(r, r[k].parent),
                  <<",">> \o Lead(r, r[k].parent))
  <2> DEFINE c == r[k].parent
             S == Elder(r, k)
             b == r[k].from
             l == Lead(r, c)
  <2>1. Upto(s, r, S, c, b, l, <<",">> \o l)
    BY <1>5 DEF Begun, Behind
  <2>2. c \in DOMAIN r /\ b \in Nat /\ b <= Len(s) /\ v[c].from = r[c].from
    BY <1>1, <1>5
  <2>3. S \subseteq DOMAIN r /\ \A j \in S : v[j].to = r[j].to
    BY <1>3
  <2> HIDE DEF c, S, b, l
  <2>4. Upto(q, v, S, c, b, l, <<",">> \o l)
    BY <2>1, <2>2, <2>3, UptoKeeps
  <2> QED
    BY <2>4 DEF c, S, b, l
<1>6. Behind(q, v, k, v[k].from, Lead(v, v[k].parent))
  BY <1>1, <1>3, <1>4, <1>5 DEF Behind
<1>7. v[k].from < Len(q) /\ Spelled(q, v[k].from, v[k].from + 1) = <<First(v[k].type)>>
  <2>1. Len(q) \in Nat
    BY DEF Longer
  <2> QED
    BY <1>1, <1>2, <2>1 DEF Begun, Longer
<1> QED
  BY <1>6, <1>7 DEF Begun

LEMMA CompleteKeeps ==
  ASSUME NEW s, NEW r, Tree(s, r), NEW q, Longer(s, q), NEW v, Later(r, v),
         NEW k \in DOMAIN r, v[k] = r[k],
         r[k].parent # 0 =>
           v[r[k].parent].from = r[r[k].parent].from /\ v[r[k].parent].type = r[r[k].parent].type,
         \A j \in Elder(r, k) : v[j].to = r[j].to,
         Below(v, k) = Below(r, k), \A j \in Below(r, k) : v[j].to = r[j].to,
         Complete(s, r, k)
  PROVE  Complete(q, v, k)
<1>1. Begun(q, v, k)
  BY BegunKeeps DEF Complete
<1>2. v[k].to <= Len(q)
  <2>1. r[k].to \in Nat /\ Len(s) \in Nat /\ Len(q) \in Nat
    BY TreeItem DEF Longer
  <2> QED
    BY <2>1 DEF Complete, Longer
<1>3. ASSUME r[k].type \in Container PROVE Closed(q, v, k)
  <2> DEFINE close == <<Closing[r[k].type]>>
  <2>1. Upto(s, r, Below(r, k), k, r[k].to, close, close)
    BY <1>3 DEF Complete, Closed
  <2>2. Below(r, k) \subseteq DOMAIN r /\ r[k].to \in Nat /\ r[k].to <= Len(s)
    BY TreeItem DEF Below, Complete
  <2> HIDE DEF close
  <2>3. Upto(q, v, Below(r, k), k, r[k].to, close, close)
    BY <2>1, <2>2, UptoKeeps
  <2> QED
    BY <2>3 DEF Closed, close
<1> QED
  BY <1>1, <1>2, <1>3 DEF Complete

LEMMA CommaThen ==
  ASSUME NEW lead \in Seq(Token)
  PROVE  <<",">> \in Seq(Token) /\ <<",">> \o lead \in Seq(Token)
<1>1. ASSUME NEW x \in Token PROVE <<x>> \in Seq(Token)
  BY <1>1
<1>2. "," \in Token
  BY DEF Token
<1>3. <<",">> \in Seq(Token)
  BY <1>1, <1>2
<1>4. ASSUME NEW u \in Seq(Token) PROVE u \o lead \in Seq(Token)
  OBVIOUS
<1> QED
  BY <1>3, <1>4, Zenon

(* One token more, in a container.                                         *)
LEMMA UptoStep ==
  ASSUME NEW s, NEW r, Tree(s, r), NEW S, S \subseteq DOMAIN r, NEW c \in DOMAIN r,
         NEW b \in Nat, b < Len(s), NEW first \in Seq(Token), NEW more \in Seq(Token),
         Upto(s, r, S, c, b, first, more)
  PROVE  IF s[b + 1] = "ws" THEN Upto(s, r, S, c, b + 1, first, more)
         ELSE Upto(s, r, S, c, b + 1, Append(first, Shown(s[b + 1])), Append(more, Shown(s[b + 1])))
<1>1. /\ r[c].from \in Nat /\ r[c].from + 1 \in Nat /\ r[c].from + 1 <= b /\ r[c].from < b + 1
      /\ \A j \in S : r[j].to \in Nat
      /\ s \in Seq(Token)
  BY TreeItem DEF Upto, Tree
<1>2. Spelled(s, r[c].from + 1, b + 1) =
        IF s[b + 1] = "ws" THEN Spelled(s, r[c].from + 1, b)
        ELSE Append(Spelled(s, r[c].from + 1, b), Shown(s[b + 1]))
  BY <1>1, SpelledStep
<1>3. \A j \in S : r[j].to <= b =>
        /\ r[j].to <= b + 1
        /\ Spelled(s, r[j].to, b + 1) =
             IF s[b + 1] = "ws" THEN Spelled(s, r[j].to, b)
             ELSE Append(Spelled(s, r[j].to, b), Shown(s[b + 1]))
  BY <1>1, SpelledStep
<1> QED
  BY <1>1, <1>2, <1>3 DEF Upto

LEMMA BehindStep ==
  ASSUME NEW s, NEW r, Tree(s, r), NEW k \in DOMAIN r, r[k].parent # 0,
         NEW b \in Nat, b < Len(s), NEW lead \in Seq(Token), Behind(s, r, k, b, lead)
  PROVE  IF s[b + 1] = "ws" THEN Behind(s, r, k, b + 1, lead)
         ELSE Behind(s, r, k, b + 1, Append(lead, Shown(s[b + 1])))
<1> DEFINE S == Elder(r, k)
           c == r[k].parent
           more == <<",">> \o lead
<1>1. c \in DOMAIN r /\ S \subseteq DOMAIN r
  BY TreeItem DEF Elder, Below
<1>2. Upto(s, r, S, c, b, lead, more)
  BY DEF Behind
<1>3. <<",">> \in Seq(Token) /\ more \in Seq(Token)
  BY CommaThen
<1>4. s[b + 1] \in Token
  <2>1. b + 1 \in 1 .. Len(s) /\ s \in Seq(Token)
    BY TreeItem DEF Tree
  <2> QED
    BY <2>1
<1>5. Append(more, Shown(s[b + 1])) = <<",">> \o Append(lead, Shown(s[b + 1]))
  BY <1>3, <1>4, TokenShown, ConcatAppend
<1> HIDE DEF S, c, more
<1>6. IF s[b + 1] = "ws" THEN Upto(s, r, S, c, b + 1, lead, more)
      ELSE Upto(s, r, S, c, b + 1, Append(lead, Shown(s[b + 1])), Append(more, Shown(s[b + 1])))
  BY <1>1, <1>2, <1>3, UptoStep
<1> QED
  BY <1>5, <1>6 DEF Behind, S, c, more

(* The frames and the items below them.                                    *)
LEMMA FrameIn ==
  ASSUME NEW s, NEW r, Tree(s, r), NEW f \in Seq(DOMAIN r), f # << >>
  PROVE  /\ Last(f) \in DOMAIN r /\ Len(f) \in DOMAIN f /\ Last(f) = f[Len(f)]
         /\ Len(f) \in Nat \ {0} /\ DOMAIN f = 1 .. Len(f)
         /\ \A i \in DOMAIN f : f[i] \in DOMAIN r
BY DEF Last

(* What the lists hold is not changed by a longer text.                    *)
LEMMA NestedMoves ==
  ASSUME NEW s, NEW r, Tree(s, r), NEW f \in Seq(DOMAIN r), NEW p \in Nat, NEW g,
         Nested(s, r, f, p, g),
         NEW q, Longer(s, q), NEW n \in Nat, NEW h, p <= n, n <= Len(q),
         q # << >> /\ Last(q) = "end" => n < Len(q), Pending(h) <=> Pending(g)
  PROVE  Nested(q, r, f, n, h)
<1>1. Later(r, r) /\ DOMAIN r = 1 .. Len(r) /\ Len(r) \in Nat
  BY TreeItem DEF Later, Tree
<1>2. ASSUME NEW k \in DOMAIN r, Begun(s, r, k) PROVE Begun(q, r, k)
  BY <1>1, <1>2, BegunKeeps
<1>3. ASSUME NEW k \in DOMAIN r, Complete(s, r, k) PROVE Complete(q, r, k)
  BY <1>1, <1>3, CompleteKeeps
<1>4. \A k \in DOMAIN r : r[k].from \in Nat /\ r[k].to \in Nat
  BY <1>1, TreeItem
<1>5. \A i \in DOMAIN f : f[i] \in DOMAIN r
  OBVIOUS
<1>6. \A k \in DOMAIN r : r[k].from <= n /\ r[k].to <= n
  BY <1>4 DEF Nested
<1>7. \A i \in DOMAIN f :
       /\ r[f[i]].type \in Container /\ Begun(q, r, f[i]) /\ r[f[i]].from < n
       /\ \A j \in DOMAIN f : i < j => f[i] < f[j]
       /\ \A k \in DOMAIN r : f[i] < k => f[i] <= r[k].parent
       /\ r[f[i]].parent = IF i = 1 THEN 0 ELSE f[i - 1]
  BY <1>2, <1>4, <1>5 DEF Nested
<1>8. \A k \in DOMAIN r :
       Complete(q, r, k) \/ (\E i \in DOMAIN f : f[i] = k) \/ (Pending(h) /\ k = Len(r))
  BY <1>3 DEF Nested
<1>9. Pending(h) =>
       /\ r[Len(r)].parent = IF f = << >> THEN 0 ELSE Last(f)
       /\ \A i \in DOMAIN f : f[i] < Len(r)
  BY DEF Nested
<1> HIDE DEF Pending
<1> QED
  BY <1>6, <1>7, <1>8, <1>9 DEF Nested

(* A scalar has been parsed ...                                            *)
LEMMA PendingBegun ==
  ASSUME NEW s, NEW r, Tree(s, r), NEW f \in Seq(DOMAIN r), NEW p \in Nat, NEW k \in DOMAIN r,
         Laid(s, r, f, p, "value"), k = Len(r), p < Len(s), s[p + 1] # "ws",
         NEW v, Later(r, v), Len(v) = Len(r), \A j \in DOMAIN r \ {k} : v[j] = r[j],
         v[k].from = p, First(v[k].type) = Shown(s[p + 1])
  PROVE  Begun(s, v, k)
<1>1. /\ Pending("value") /\ Len(r) \in Nat /\ DOMAIN r = 1 .. Len(r)
      /\ v[k].parent = r[k].parent /\ r[k].parent \in Nat /\ r[k].parent < k
  BY TreeItem DEF Pending, Later
<1>2. r[k].parent = IF f = << >> THEN 0 ELSE Last(f)
  BY <1>1 DEF Laid, Nested
<1>3. Elder(v, k) = Elder(r, k) /\ Elder(r, k) \subseteq DOMAIN r /\ k \notin Elder(r, k)
  <2>1. k \notin Elder(r, k)
    BY <1>1 DEF Elder
  <2> QED
    BY <2>1, ElderIn
<1>4. ASSUME r[k].parent # 0 PROVE Behind(s, v, k, p, Lead(v, v[k].parent))
  <2> DEFINE c == r[k].parent
             S == Elder(r, k)
             l == Lead(r, c)
  <2>1. c \in DOMAIN r /\ c # k /\ v[c] = r[c] /\ c = Last(f) /\ f # << >>
    BY <1>1, <1>2, <1>4
  <2>2. Here(s, r, c, p, "value")
    BY <2>1 DEF Laid
  <2>3. Behind(s, r, k, p, l)
    BY <2>2 DEF Here
  <2>4. Upto(s, r, S, c, p, l, <<",">> \o l)
    BY <1>4, <2>3 DEF Behind
  <2>5. Lead(v, c) = l
    BY <2>1 DEF Lead
  <2>6. S \subseteq DOMAIN r /\ (\A j \in S : v[j].to = r[j].to) /\ v[c].from = r[c].from
        /\ Elder(v, k) = S /\ v[k].parent = c
    BY <1>1, <1>3, <2>1
  <2>7. Longer(s, s) /\ p <= Len(s) /\ Len(s) \in Nat
    BY TreeItem DEF Longer, Tree
  <2> DEFINE m == <<",">> \o l
  <2>8. Upto(s, r, S, c, p, l, m)
    BY <2>4
  <2> HIDE DEF c, S, l, m
  <2>9. Upto(s, v, S, c, p, l, m)
    BY <2>1, <2>6, <2>7, <2>8, UptoKeeps
  <2> QED
    BY <2>5, <2>6, <2>9 DEF Behind, m
<1>5. Spelled(s, p, p + 1) = <<First(v[k].type)>>
  <2>1. s \in Seq(Token) /\ p <= p
    BY DEF Tree
  <2>2. Spelled(s, p, p + 1) = Append(Spelled(s, p, p), Shown(s[p + 1]))
    BY <2>1, SpelledStep
  <2>3. Spelled(s, p, p) = << >>
    BY SpelledNone
  <2> QED
    BY <2>2, <2>3
<1>6. Behind(s, v, k, p, Lead(v, v[k].parent))
  BY <1>1, <1>4 DEF Behind
<1> QED
  BY <1>5, <1>6 DEF Begun

(* Another item than the pending one stays what it is, filled in or not.   *)
Rest(s, r, f, k, v) ==
  /\ \A j \in DOMAIN r : j = k \/ Complete(s, v, j) \/ \E i \in DOMAIN f : f[i] = j
  /\ \A i \in DOMAIN f : Begun(s, v, f[i]) /\ f[i] # k /\ v[f[i]] = r[f[i]]

LEMMA PendingKeeps ==
  ASSUME NEW s, NEW r, Tree(s, r), NEW f \in Seq(DOMAIN r), NEW p \in Nat,
         Nested(s, r, f, p, "value"), NEW k \in DOMAIN r, k = Len(r),
         NEW v, Later(r, v), Len(v) = Len(r), \A j \in DOMAIN r \ {k} : v[j] = r[j]
  PROVE  Rest(s, r, f, k, v)
<1>0. /\ Len(r) \in Nat /\ DOMAIN r = 1 .. Len(r) /\ Len(s) \in Nat
      /\ \A j \in DOMAIN r : r[j].parent \in Nat /\ r[j].parent < j
      /\ \A j \in DOMAIN r : r[j].parent # 0 => r[j].parent \in DOMAIN r
  BY TreeItem
<1>1. /\ Len(r) \in Nat /\ DOMAIN r = 1 .. Len(r) /\ DOMAIN v = DOMAIN r /\ Longer(s, s)
      /\ \A j \in DOMAIN r : v[j].parent = r[j].parent /\ r[j].parent \in Nat /\ r[j].parent < j
      /\ \A j \in DOMAIN r : r[j].parent # 0 => r[j].parent \in DOMAIN r
  <2>1. DOMAIN v = DOMAIN r /\ \A j \in DOMAIN r : v[j].parent = r[j].parent
    BY <1>0 DEF Later
  <2>2. Longer(s, s)
    BY <1>0 DEF Tree, Longer
  <2> QED
    BY <1>0, <2>1, <2>2
<1>2. \A j \in DOMAIN r : k \notin Elder(r, j) /\ Elder(r, j) \subseteq DOMAIN r
                           /\ Below(v, j) = Below(r, j) /\ Below(r, j) \subseteq DOMAIN r
  BY <1>1 DEF Elder, Below
<1>3. \A j \in DOMAIN r : r[j].parent # 0 =>
         v[r[j].parent].from = r[r[j].parent].from /\ v[r[j].parent].type = r[r[j].parent].type
  <2>1. \A j \in DOMAIN r : r[j].parent # k
    BY <1>1
  <2> QED
    BY <1>1, <2>1
<1>4. \A i \in DOMAIN f : f[i] \in DOMAIN r /\ Begun(s, r, f[i]) /\ f[i] # k
  BY <1>1 DEF Nested, Pending
<1>5. ASSUME NEW j \in DOMAIN r, j # k, Begun(s, r, j) PROVE Begun(s, v, j)
  <2>1. \A i \in Elder(r, j) : v[i].to = r[i].to
    BY <1>2
  <2> QED
    BY <1>1, <1>3, <1>5, <2>1, BegunKeeps
<1>6. ASSUME NEW j \in DOMAIN r, j # k, \A i \in DOMAIN f : f[i] # j, Complete(s, r, j)
      PROVE  Complete(s, v, j)
  <2>1. \A i \in Elder(r, j) : v[i].to = r[i].to
    BY <1>2
  <2>2. r[k].parent # j
    <3>1. r[k].parent = IF f = << >> THEN 0 ELSE Last(f)
      BY DEF Nested, Pending
    <3>2. f # << >> => Len(f) \in DOMAIN f /\ Last(f) = f[Len(f)]
      BY FrameIn
    <3> QED
      BY <1>1, <1>6, <3>1, <3>2
  <2>3. \A i \in Below(r, j) : v[i].to = r[i].to
    BY <1>2, <2>2 DEF Below
  <2> QED
    BY <1>1, <1>2, <1>3, <1>6, <2>1, <2>3, CompleteKeeps
<1>7. ASSUME NEW j \in DOMAIN r, j # k, \A i \in DOMAIN f : f[i] # j PROVE Complete(s, r, j)
  BY <1>7 DEF Nested
<1> QED
  BY <1>4, <1>5, <1>6, <1>7 DEF Rest

(* The token that closes a container.                                      *)
LEMMA ClosingIs ==
  \A t \in Container : Closing[t] \in Token /\ Closing[t] # "ws" /\ Shown(Closing[t]) = Closing[t]
<1>1. Container = {"array", "object"}
  BY DEF Container, Opening
<1>2. Closing["array"] = "]" /\ Closing["object"] = "}"
  BY DEF Closing
<1> QED
  BY <1>1, <1>2 DEF Token, Shown

LEMMA UptoClosing ==
  ASSUME NEW s, NEW r, Tree(s, r), NEW c \in DOMAIN r, r[c].type \in Container,
         NEW p \in Nat, p < Len(s), s[p + 1] = Closing[r[c].type],
         Upto(s, r, Below(r, c), c, p, << >>, << >>)
  PROVE  Upto(s, r, Below(r, c), c, p + 1, <<Closing[r[c].type]>>, <<Closing[r[c].type]>>)
<1> DEFINE z == << >>
           S == Below(r, c)
           x == Closing[r[c].type]
           y == <<x>>
<1>1. z \in Seq(Token) /\ S \subseteq DOMAIN r
  BY DEF Below
<1>2. Upto(s, r, S, c, p, z, z)
  OBVIOUS
<1>3. x \in Token /\ x # "ws" /\ Shown(x) = x /\ s[p + 1] = x
  BY ClosingIs
<1>4. Append(z, x) = y
  OBVIOUS
<1> HIDE DEF z, S, x, y
<1>5. IF s[p + 1] = "ws" THEN Upto(s, r, S, c, p + 1, z, z)
      ELSE Upto(s, r, S, c, p + 1, Append(z, Shown(s[p + 1])), Append(z, Shown(s[p + 1])))
  BY <1>1, <1>2, UptoStep
<1>6. Upto(s, r, S, c, p + 1, y, y)
  BY <1>3, <1>4, <1>5
<1> QED
  BY <1>6 DEF S, x, y

LEMMA LeadType ==
  /\ << >> \in Seq(Token) /\ <<"str">> \in Seq(Token) /\ <<"str", ":">> \in Seq(Token)
  /\ <<":">> \in Seq(Token) /\ \A r, c : Lead(r, c) \in Seq(Token)
<1>1. ASSUME NEW x \in Token PROVE <<x>> \in Seq(Token)
  BY <1>1
<1>2. ASSUME NEW x \in Token, NEW y \in Token PROVE <<x, y>> \in Seq(Token)
  BY <1>2
<1>3. "str" \in Token /\ ":" \in Token
  BY DEF Token, Scalar
<1>4. << >> \in Seq(Token)
  OBVIOUS
<1>5. <<"str">> \in Seq(Token) /\ <<":">> \in Seq(Token)
  BY <1>1, <1>3
<1>6. <<"str", ":">> \in Seq(Token)
  BY <1>2, <1>3
<1>7. \A r, c : Lead(r, c) \in Seq(Token)
  BY <1>4, <1>6, Zenon DEF Lead
<1> QED
  BY <1>4, <1>5, <1>6, <1>7

(* ... or a scalar has been parsed ...                                     *)
LEMMA ScalarLaid ==
  ASSUME NEW s, NEW r, Tree(s, r), NEW f \in Seq(DOMAIN r), NEW p \in Nat, NEW k \in DOMAIN r,
         Laid(s, r, f, p, "value"), k = Len(r), p < Len(s), s[p + 1] \in Scalar,
         s # << >> /\ Last(s) = "end" => p + 1 < Len(s),
         NEW v, Later(r, v), Len(v) = Len(r), \A j \in DOMAIN r \ {k} : v[j] = r[j],
         v[k].from = p, v[k].to = p + 1, v[k].type = s[p + 1]
  PROVE  Laid(s, v, f, p + 1, "parsed")
<1>1. /\ Pending("value") /\ ~Pending("parsed") /\ Len(r) \in Nat /\ DOMAIN r = 1 .. Len(r)
      /\ DOMAIN v = DOMAIN r /\ Len(s) \in Nat
      /\ \A j \in DOMAIN r : v[j].parent = r[j].parent /\ r[j].from \in Nat /\ r[j].to \in Nat
  BY TreeItem DEF Pending, Later
<1>2. Nested(s, r, f, p, "value")
  BY DEF Laid
<1>3. s[p + 1] # "ws" /\ s[p + 1] \notin Container /\ First(s[p + 1]) = Shown(s[p + 1])
  BY DEF Scalar, Word, Number, Container, Opening, First
<1>4. Begun(s, v, k)
  BY <1>3, PendingBegun
<1>5. Complete(s, v, k)
  BY <1>1, <1>3, <1>4 DEF Complete
<1>6. /\ \A j \in DOMAIN r : j = k \/ Complete(s, v, j) \/ \E i \in DOMAIN f : f[i] = j
      /\ \A i \in DOMAIN f : Begun(s, v, f[i]) /\ f[i] # k /\ v[f[i]] = r[f[i]]
  <2>1. Rest(s, r, f, k, v)
    BY <1>2, PendingKeeps
  <2> QED
    BY <2>1 DEF Rest
<1>7. \A j \in DOMAIN r : r[j].from <= p /\ r[j].to <= p
  BY <1>2 DEF Nested
<1>8. Nested(s, v, f, p + 1, "parsed")
  <2>1. \A j \in DOMAIN v : v[j].from <= p + 1 /\ v[j].to <= p + 1
    BY <1>1, <1>7
  <2>2. \A i \in DOMAIN f :
         /\ v[f[i]].type \in Container /\ Begun(s, v, f[i]) /\ v[f[i]].from < p + 1
         /\ \A j \in DOMAIN f : i < j => f[i] < f[j]
         /\ \A j \in DOMAIN v : f[i] < j => f[i] <= v[j].parent
         /\ v[f[i]].parent = IF i = 1 THEN 0 ELSE f[i - 1]
    <3>1. \A i \in DOMAIN f : f[i] \in DOMAIN r /\ v[f[i]] = r[f[i]]
      BY <1>6
    <3>2. \A i \in DOMAIN f : r[f[i]].from < p + 1
      BY <1>1, <1>7, <3>1
    <3> QED
      BY <1>1, <1>2, <1>6, <3>1, <3>2, SMTT(30) DEF Nested
  <2>3. \A j \in DOMAIN v :
         Complete(s, v, j) \/ (\E i \in DOMAIN f : f[i] = j) \/ (Pending("parsed") /\ j = Len(v))
    BY <1>1, <1>5, <1>6
  <2>4. p + 1 <= Len(s)
    BY <1>1
  <2> QED
    BY <1>1, <2>1, <2>2, <2>3, <2>4 DEF Nested
<1>9. ASSUME f # << >> PROVE Here(s, v, Last(f), p + 1, "parsed")
  <2> DEFINE c == Last(f)
             S == Below(v, c)
  <2>1. c \in DOMAIN r /\ c = f[Len(f)] /\ Len(f) \in DOMAIN f
    BY <1>9, FrameIn
  <2>2. c < k /\ r[k].parent = c /\ v[c] = r[c]
    BY <1>1, <1>2, <1>6, <1>9, <2>1 DEF Nested
  <2>3. k \in S /\ \A i \in S : i <= k
    BY <1>1, <2>2 DEF Below
  <2>4. \A j \in S : (\A i \in S : i <= j) => j = k
    BY <1>1, <2>3 DEF Below
  <2>5. Spelled(s, p + 1, p + 1) = << >>
    BY SpelledNone
  <2>6. v[c].from < p + 1
    BY <1>1, <1>7, <2>1, <2>2
  <2> HIDE DEF c, S
  <2>7. Upto(s, v, S, c, p + 1, << >>, << >>)
    BY <2>3, <2>4, <2>5, <2>6 DEF Upto
  <2> QED
    BY <2>3, <2>7 DEF Here, c, S
<1> QED
  BY <1>8, <1>9 DEF Laid

LEMMA OpenIs ==
  \A x \in Open : x # "ws" /\ KindOf[x] \in Container /\ First(KindOf[x]) = Shown(x)
<1>1. KindOf["["] = "array" /\ KindOf["{"] = "object"
  BY DEF KindOf, Open
<1>2. Container = {"array", "object"} /\ Opening["array"] = "[" /\ Opening["object"] = "{"
  BY DEF Container, Opening
<1> QED
  BY <1>1, <1>2 DEF Open, First, Shown

(* ... or a container has been opened ...                                  *)
LEMMA OpenLaid ==
  ASSUME NEW s, NEW r, Tree(s, r), NEW f \in Seq(DOMAIN r), NEW p \in Nat, NEW k \in DOMAIN r,
         Laid(s, r, f, p, "value"), k = Len(r), p < Len(s), s[p + 1] \in Open,
         s # << >> /\ Last(s) = "end" => p + 1 < Len(s),
         NEW v, Later(r, v), Len(v) = Len(r), \A j \in DOMAIN r \ {k} : v[j] = r[j],
         v[k].from = p, v[k].to = r[k].to, v[k].type = KindOf[s[p + 1]]
  PROVE  Laid(s, v, Append(f, k), p + 1, "opened")
<1>1. /\ Pending("value") /\ ~Pending("opened") /\ Len(r) \in Nat /\ DOMAIN r = 1 .. Len(r)
      /\ DOMAIN v = DOMAIN r /\ Len(s) \in Nat
      /\ \A j \in DOMAIN r : /\ v[j].parent = r[j].parent /\ r[j].from \in Nat /\ r[j].to \in Nat
                             /\ r[j].parent \in Nat /\ r[j].parent < j
  BY TreeItem DEF Pending, Later
<1>2. Nested(s, r, f, p, "value")
  BY DEF Laid
<1>3. s[p + 1] # "ws" /\ v[k].type \in Container /\ First(v[k].type) = Shown(s[p + 1])
  BY OpenIs
<1>4. Begun(s, v, k)
  BY <1>3, PendingBegun
<1>5. /\ \A j \in DOMAIN r : j = k \/ Complete(s, v, j) \/ \E i \in DOMAIN f : f[i] = j
      /\ \A i \in DOMAIN f : Begun(s, v, f[i]) /\ f[i] # k /\ v[f[i]] = r[f[i]]
  <2>1. Rest(s, r, f, k, v)
    BY <1>2, PendingKeeps
  <2> QED
    BY <2>1 DEF Rest
<1>6. \A j \in DOMAIN r : r[j].from <= p /\ r[j].to <= p
  BY <1>2 DEF Nested
<1> DEFINE g == Append(f, k)
<1>7. /\ DOMAIN g = 1 .. Len(f) + 1 /\ Len(f) \in Nat /\ DOMAIN f = 1 .. Len(f)
      /\ \A i \in DOMAIN f : g[i] = f[i]
      /\ g[Len(f) + 1] = k /\ g # << >> /\ Last(g) = k
  <2>1. Len(g) = Len(f) + 1 /\ DOMAIN g = 1 .. Len(f) + 1 /\ g[Len(f) + 1] = k
    OBVIOUS
  <2> QED
    BY <2>1 DEF Last
<1>8. r[k].parent = IF f = << >> THEN 0 ELSE Last(f)
  BY <1>1, <1>2 DEF Nested
<1>9. \A i \in DOMAIN f : f[i] \in DOMAIN r /\ f[i] < k
  BY <1>1, <1>2 DEF Nested
<1> HIDE DEF g
<1>10. \A i \in DOMAIN g :
         /\ v[g[i]].type \in Container /\ Begun(s, v, g[i]) /\ v[g[i]].from < p + 1
         /\ \A j \in DOMAIN g : i < j => g[i] < g[j]
         /\ \A j \in DOMAIN v : g[i] < j => g[i] <= v[j].parent
         /\ v[g[i]].parent = IF i = 1 THEN 0 ELSE g[i - 1]
  <2>1. ASSUME NEW i \in DOMAIN f
        PROVE  /\ v[g[i]].type \in Container /\ Begun(s, v, g[i]) /\ v[g[i]].from < p + 1
               /\ \A j \in DOMAIN g : i < j => g[i] < g[j]
               /\ \A j \in DOMAIN v : g[i] < j => g[i] <= v[j].parent
               /\ v[g[i]].parent = IF i = 1 THEN 0 ELSE g[i - 1]
    <3>1. /\ g[i] = f[i] /\ f[i] \in DOMAIN r /\ v[f[i]] = r[f[i]] /\ Begun(s, v, f[i])
          /\ i \in Nat /\ (i # 1 => g[i - 1] = f[i - 1])
      BY <1>5, <1>7, <1>9, SMTT(30)
    <3>2. /\ r[f[i]].type \in Container
          /\ \A j \in DOMAIN f : i < j => f[i] < f[j]
          /\ \A j \in DOMAIN r : f[i] < j => f[i] <= r[j].parent
          /\ r[f[i]].parent = IF i = 1 THEN 0 ELSE f[i - 1]
      BY <1>2 DEF Nested
    <3>3. \A j \in DOMAIN g : i < j => g[i] < g[j]
      <4>1. \A j \in DOMAIN g : j \in DOMAIN f \/ j = Len(f) + 1
        BY <1>7
      <4> QED
        BY <1>7, <1>9, <3>1, <3>2, <4>1
    <3>4. v[g[i]].from < p + 1
      BY <1>1, <1>6, <3>1
    <3> QED
      BY <1>1, <3>1, <3>2, <3>3, <3>4
  <2>2. ASSUME NEW i, i = Len(f) + 1
        PROVE  /\ v[g[i]].type \in Container /\ Begun(s, v, g[i]) /\ v[g[i]].from < p + 1
               /\ \A j \in DOMAIN g : i < j => g[i] < g[j]
               /\ \A j \in DOMAIN v : g[i] < j => g[i] <= v[j].parent
               /\ v[g[i]].parent = IF i = 1 THEN 0 ELSE g[i - 1]
    <3>1. g[i] = k /\ v[k].from < p + 1
      BY <1>7, <2>2
    <3>2. \A j \in DOMAIN g : ~(i < j)
      BY <1>7, <2>2
    <3>3. \A j \in DOMAIN v : ~(k < j)
      BY <1>1
    <3>4. v[k].parent = IF i = 1 THEN 0 ELSE g[i - 1]
      <4>1. CASE f = << >>
        BY <1>1, <1>7, <1>8, <2>2, <4>1
      <4>2. CASE f # << >>
        <5>1. Last(f) = f[Len(f)] /\ Len(f) \in DOMAIN f /\ Len(f) # 0
          BY <4>2, FrameIn
        <5>2. g[Len(f)] = Last(f) /\ i # 1 /\ i - 1 = Len(f)
          BY <1>7, <2>2, <5>1
        <5> QED
          BY <1>1, <1>8, <4>2, <5>2
      <4> QED
        BY <4>1, <4>2
    <3> QED
      BY <1>3, <1>4, <3>1, <3>2, <3>3, <3>4
  <2>3. \A i \in DOMAIN g : i \in DOMAIN f \/ i = Len(f) + 1
    BY <1>7, SMTT(30)
  <2> QED
    BY <2>1, <2>2, <2>3
<1>11. Nested(s, v, g, p + 1, "opened")
  <2>1. \A j \in DOMAIN v : v[j].from <= p + 1 /\ v[j].to <= p + 1
    BY <1>1, <1>6
  <2>2. \A j \in DOMAIN v :
         Complete(s, v, j) \/ (\E i \in DOMAIN g : g[i] = j) \/ (Pending("opened") /\ j = Len(v))
    <3>1. Len(f) + 1 \in DOMAIN g /\ (\A i \in DOMAIN f : i \in DOMAIN g /\ g[i] = f[i])
          /\ g[Len(f) + 1] = k
      BY <1>7
    <3>2. ASSUME NEW j \in DOMAIN r, ~Complete(s, v, j) PROVE \E i \in DOMAIN g : g[i] = j
      <4>1. CASE j = k
        BY <3>1, <4>1
      <4>2. CASE j # k
        <5>1. PICK i \in DOMAIN f : f[i] = j
          BY <1>5, <3>2, <4>2
        <5> QED
          BY <3>1, <5>1
      <4> QED
        BY <4>1, <4>2
    <3> QED
      BY <1>1, <3>2
  <2>3. p + 1 <= Len(s)
    BY <1>1
  <2> QED
    BY <1>1, <1>10, <2>1, <2>2, <2>3 DEF Nested
<1>12. Here(s, v, k, p + 1, "opened")
  <2>1. Below(v, k) = {}
    <3>1. \A j \in DOMAIN v : v[j].parent # k
      BY <1>1
    <3> QED
      BY <3>1 DEF Below
  <2>2. Spelled(s, p + 1, p + 1) = << >> /\ v[k].from < p + 1
    BY SpelledNone
  <2>3. ASSUME NEW S, S = {}
        PROVE  (\A j \in S : (\A i \in S : i <= j) => v[j].to <= p + 1 /\ Spelled(s, v[j].to, p + 1) = << >>)
    BY <2>3
  <2>4. Spelled(s, v[k].from + 1, p + 1) = << >>
    BY <2>2
  <2>5. Upto(s, v, {}, k, p + 1, << >>, << >>)
    BY <2>2, <2>3, <2>4 DEF Upto
  <2> QED
    BY <2>1, <2>5 DEF Here
<1> QED
  BY <1>7, <1>11, <1>12 DEF Laid, g

(* ... or the innermost container has been closed: it is the last of the   *)
(* one it is in ...                                                        *)
LEMMA CloseLaid ==
  ASSUME NEW s, NEW r, Tree(s, r), NEW f \in Seq(DOMAIN r), f # << >>, NEW p \in Nat,
         NEW g \in {"opened", "more"},
         Laid(s, r, f, p, g), p < Len(s), s[p + 1] = Closing[r[Last(f)].type],
         s # << >> /\ Last(s) = "end" => p + 1 < Len(s),
         NEW v, Later(r, v), Len(v) = Len(r), \A j \in DOMAIN r \ {Last(f)} : v[j] = r[j],
         v[Last(f)].from = r[Last(f)].from, v[Last(f)].type = r[Last(f)].type,
         v[Last(f)].to = p + 1
  PROVE  Laid(s, v, Front(f), p + 1, "parsed")
<1> DEFINE c == Last(f)
           e == Front(f)
<1>1. /\ ~Pending(g) /\ ~Pending("parsed") /\ Len(r) \in Nat /\ DOMAIN r = 1 .. Len(r)
      /\ DOMAIN v = DOMAIN r /\ Len(s) \in Nat
      /\ \A j \in DOMAIN r : /\ v[j].parent = r[j].parent /\ r[j].from \in Nat /\ r[j].to \in Nat
                             /\ r[j].parent \in Nat /\ r[j].parent < j
                             /\ r[j].parent # 0 => r[j].parent \in DOMAIN r
  BY TreeItem, SMTT(30) DEF Pending, Later
<1>2. Nested(s, r, f, p, g) /\ Here(s, r, c, p, g)
  BY DEF Laid
<1>3. /\ c \in DOMAIN r /\ c = f[Len(f)] /\ Len(f) \in DOMAIN f /\ DOMAIN f = 1 .. Len(f)
      /\ Len(f) \in Nat \ {0}
  BY FrameIn
<1>4. /\ DOMAIN e = 1 .. Len(f) - 1 /\ (e # << >> <=> Len(f) # 1)
      /\ e # << >> => Last(e) = f[Len(f) - 1] /\ Len(f) - 1 \in DOMAIN f
      /\ \A i \in DOMAIN e : e[i] = f[i] /\ i \in DOMAIN f /\ i < Len(f)
  <2>1. e \in Seq(DOMAIN r) /\ Len(e) = Len(f) - 1 /\ DOMAIN e = 1 .. Len(f) - 1
        /\ \A i \in 1 .. Len(f) - 1 : e[i] = f[i]
    BY <1>3, SMTT(30) DEF Front
  <2> HIDE DEF e, c
  <2>2. ASSUME NEW x \in Seq(DOMAIN r) PROVE x # << >> <=> Len(x) # 0
    OBVIOUS
  <2>3. e # << >> <=> Len(e) # 0
    BY <2>1, <2>2
  <2>4. e # << >> <=> Len(f) # 1
    BY <1>3, <2>1, <2>3, SMTT(30)
  <2>5. ASSUME e # << >> PROVE Last(e) = f[Len(f) - 1] /\ Len(f) - 1 \in DOMAIN f
    <3>1. Len(f) - 1 \in 1 .. Len(f) - 1 /\ Len(f) - 1 \in DOMAIN f
      BY <1>3, <2>4, <2>5
    <3> QED
      BY <2>1, <3>1 DEF Last
  <2>6. \A i \in 1 .. Len(f) - 1 : i \in DOMAIN f /\ i < Len(f)
    BY <1>3
  <2> QED
    BY <2>1, <2>4, <2>5, <2>6
<1>5. /\ r[c].type \in Container /\ Begun(s, r, c) /\ r[c].from < p
      /\ \A i \in DOMAIN e : f[i] < c
      /\ \A k \in DOMAIN r : c < k => c <= r[k].parent
      /\ r[c].parent = IF e = << >> THEN 0 ELSE Last(e)
  <2>1. /\ r[c].type \in Container /\ Begun(s, r, c) /\ r[c].from < p
        /\ \A k \in DOMAIN r : c < k => c <= r[k].parent
        /\ r[c].parent = IF Len(f) = 1 THEN 0 ELSE f[Len(f) - 1]
    <3> HIDE DEF c, e
    <3> QED
      BY <1>2, <1>3 DEF Nested
  <2>2. \A i \in DOMAIN f : i < Len(f) => f[i] < f[Len(f)]
    BY <1>2, <1>3 DEF Nested
  <2> HIDE DEF e
  <2> QED
    BY <1>3, <1>4, <2>1, <2>2
<1> HIDE DEF c, e
<1>6. /\ \A j \in DOMAIN r \ {c} : v[j] = r[j]
      /\ v[c].from = r[c].from /\ v[c].type = r[c].type /\ v[c].to = p + 1
      /\ s[p + 1] = Closing[r[c].type]
  BY DEF c
<1>7. \A j \in DOMAIN r : v[j].from = r[j].from /\ v[j].type = r[j].type
  BY <1>6
<1>8. \A j \in DOMAIN r : /\ Below(v, j) = Below(r, j) /\ Below(r, j) \subseteq DOMAIN r
                          /\ Elder(r, j) \subseteq DOMAIN r
  BY <1>1 DEF Below, Elder
<1>9. Longer(s, s)
  BY <1>1 DEF Longer, Tree
<1>10. ASSUME NEW j \in DOMAIN r, Begun(s, r, j), c \notin Elder(r, j) PROVE Begun(s, v, j)
  <2>1. \A i \in Elder(r, j) : v[i].to = r[i].to
    BY <1>6, <1>8, <1>10
  <2> QED
    BY <1>1, <1>7, <1>9, <1>10, <2>1, BegunKeeps
<1>11. \A j \in DOMAIN r : c \notin Elder(r, j)
  <2>1. ASSUME NEW j \in DOMAIN r, c \in Elder(r, j) PROVE FALSE
    <3>1. c < j /\ r[c].parent = r[j].parent
      BY <2>1 DEF Elder, Below
    <3> QED
      BY <1>1, <1>3, <1>5, <3>1
  <2> QED
    BY <2>1
<1>12. Complete(s, v, c)
  <2> DEFINE S == Below(r, c)
             y == <<Closing[r[c].type]>>
  <2>1. S \subseteq DOMAIN r /\ \A j \in S : v[j].to = r[j].to /\ j # c
    <3>1. \A j \in S : j \in DOMAIN r /\ j # c
      BY <1>1, <1>3 DEF Below
    <3> QED
      BY <1>6, <3>1
  <2>2. Upto(s, r, S, c, p, << >>, << >>)
    BY <1>2 DEF Here
  <2>3. Upto(s, r, S, c, p + 1, y, y)
    BY <1>3, <1>5, <1>6, <2>2, UptoClosing
  <2>6. p + 1 \in Nat /\ p + 1 <= Len(s)
    BY <1>1
  <2> HIDE DEF S, y
  <2>8. Upto(s, v, S, c, p + 1, y, y)
    BY <1>3, <1>6, <1>9, <2>1, <2>3, <2>6, UptoKeeps
  <2>9. Closed(s, v, c)
    BY <1>3, <1>6, <1>8, <2>8 DEF Closed, S, y
  <2>10. Begun(s, v, c)
    BY <1>3, <1>5, <1>10, <1>11
  <2> QED
    BY <1>5, <1>6, <2>6, <2>9, <2>10 DEF Complete
<1>13. ASSUME NEW j \in DOMAIN r, \A i \in DOMAIN f : f[i] # j, Complete(s, r, j)
       PROVE  Complete(s, v, j)
  <2>1. j # c /\ v[j] = r[j]
    BY <1>3, <1>6, <1>13
  <2>2. r[c].parent # j
    BY <1>1, <1>4, <1>5, <1>13
  <2>3. (\A i \in Elder(r, j) : v[i].to = r[i].to) /\ (\A i \in Below(r, j) : v[i].to = r[i].to)
    <3>1. c \notin Below(r, j)
      BY <2>2 DEF Below
    <3> QED
      BY <1>6, <1>8, <1>11, <3>1
  <2>4. r[j].parent # 0 =>
          v[r[j].parent].from = r[r[j].parent].from /\ v[r[j].parent].type = r[r[j].parent].type
    BY <1>1, <1>7
  <2>5. Below(v, j) = Below(r, j)
    BY <1>8
  <2> QED
    BY <1>9, <1>13, <2>1, <2>3, <2>4, <2>5, CompleteKeeps
<1>14. \A k \in DOMAIN r : r[k].from <= p /\ r[k].to <= p
  BY <1>2 DEF Nested
<1>15. Nested(s, v, e, p + 1, "parsed")
  <2>1. \A j \in DOMAIN v : v[j].from <= p + 1 /\ v[j].to <= p + 1
    <3>1. ASSUME NEW j \in DOMAIN r PROVE v[j].from <= p + 1 /\ v[j].to <= p + 1
      <4>1. v[j].from = r[j].from /\ r[j].from \in Nat /\ r[j].to \in Nat
        BY <1>1, <1>7
      <4>2. r[j].from <= p /\ r[j].to <= p
        BY <1>14
      <4>3. v[j].to = r[j].to \/ v[j].to = p + 1
        BY <1>6
      <4> QED
        BY <4>1, <4>2, <4>3, SMTT(30)
    <3> QED
      BY <1>1, <3>1
  <2>2. ASSUME NEW i \in DOMAIN e
        PROVE  /\ v[e[i]].type \in Container /\ Begun(s, v, e[i]) /\ v[e[i]].from < p + 1
               /\ \A j \in DOMAIN e : i < j => e[i] < e[j]
               /\ \A k \in DOMAIN v : e[i] < k => e[i] <= v[k].parent
               /\ v[e[i]].parent = IF i = 1 THEN 0 ELSE e[i - 1]
    <3>1. e[i] = f[i] /\ i \in DOMAIN f /\ f[i] \in DOMAIN r /\ i \in Nat
          /\ (i # 1 => e[i - 1] = f[i - 1])
      <4>1. i \in Nat /\ (i # 1 => i - 1 \in DOMAIN e)
        <5>1. DOMAIN e = 1 .. Len(f) - 1 /\ Len(f) \in Nat
          BY <1>3, <1>4
        <5> QED
          BY <5>1, SMTT(30)
      <4>2. \A m \in DOMAIN f : f[m] \in DOMAIN r
        BY FrameIn
      <4> QED
        BY <1>4, <4>1, <4>2
    <3>2. /\ r[f[i]].type \in Container /\ Begun(s, r, f[i])
          /\ \A j \in DOMAIN f : i < j => f[i] < f[j]
          /\ \A k \in DOMAIN r : f[i] < k => f[i] <= r[k].parent
          /\ r[f[i]].parent = IF i = 1 THEN 0 ELSE f[i - 1]
      BY <1>2, <3>1 DEF Nested
    <3>3. Begun(s, v, f[i])
      BY <1>10, <1>11, <3>1, <3>2
    <3>4. v[f[i]].from < p + 1
      BY <1>1, <1>7, <1>14, <3>1
    <3>5. \A j \in DOMAIN e : i < j => e[i] < e[j]
      BY <1>4, <3>1, <3>2
    <3> QED
      BY <1>1, <1>7, <3>1, <3>2, <3>3, <3>4, <3>5
  <2>3. \A j \in DOMAIN v :
         Complete(s, v, j) \/ (\E i \in DOMAIN e : e[i] = j) \/ (Pending("parsed") /\ j = Len(v))
    <3>1. ASSUME NEW j \in DOMAIN r PROVE Complete(s, v, j) \/ \E i \in DOMAIN e : e[i] = j
      <4>1. CASE \A i \in DOMAIN f : f[i] # j
        <5>1. Complete(s, r, j)
          BY <1>1, <1>2, <4>1 DEF Nested
        <5> QED
          BY <1>13, <4>1, <5>1
      <4>2. CASE j = c
        BY <1>12, <4>2
      <4>3. ASSUME NEW i \in DOMAIN f, f[i] = j, j # c PROVE \E m \in DOMAIN e : e[m] = j
        <5>1. i \in DOMAIN e
          BY <1>3, <1>4, <4>3
        <5> QED
          BY <1>4, <4>3, <5>1
      <4> QED
        BY <4>1, <4>2, <4>3
    <3> QED
      BY <1>1, <3>1
  <2>4. p + 1 <= Len(s)
    BY <1>1
  <2> QED
    BY <1>1, <2>1, <2>2, <2>3, <2>4 DEF Nested
<1>16. ASSUME e # << >> PROVE Here(s, v, Last(e), p + 1, "parsed")
  <2> DEFINE d == Last(e)
             S == Below(v, d)
  <2>1. d \in DOMAIN r /\ d = r[c].parent
    BY <1>4, <1>5, <1>16
  <2>2. c \in S /\ d < c
    BY <1>1, <1>3, <2>1 DEF Below
  <2>3. \A j \in S : j \in DOMAIN r /\ r[j].parent = d
    BY <1>1 DEF Below
  <2> HIDE DEF d, S
  <2>4. \A j \in S : (\A i \in S : i <= j) => j = c
    <3>1. c \in Nat /\ \A j \in S : j \in Nat
      BY <1>1, <1>3, <2>3
    <3>2. d \in Nat /\ \A j \in S : c < j => c <= d
      <4>1. ASSUME NEW j \in S, c < j PROVE c <= d
        <5>1. c <= r[j].parent
          BY <1>5, <2>3, <4>1
        <5> QED
          BY <2>3, <5>1
      <4> QED
        BY <1>1, <2>1, <4>1
    <3> QED
      BY <2>2, <3>1, <3>2
  <2>5. Spelled(s, p + 1, p + 1) = << >>
    BY SpelledNone
  <2>6. v[d].from < p + 1
    <3>1. v[d].from = r[d].from /\ r[d].from \in Nat
      BY <1>1, <1>7, <2>1
    <3>2. r[d].from <= p
      BY <1>14, <2>1
    <3> QED
      BY <3>1, <3>2
  <2>7. Upto(s, v, S, d, p + 1, << >>, << >>)
    BY <1>6, <2>2, <2>4, <2>5, <2>6 DEF Upto
  <2> QED
    BY <2>2, <2>7 DEF Here, d, S
<1> QED
  BY <1>15, <1>16 DEF Laid, e

(* ... or a new item is in front of the parser.                            *)
LEMMA NewLaid ==
  ASSUME NEW s, NEW r, Tree(s, r), NEW f \in Seq(DOMAIN r), f # << >>, NEW p \in Nat,
         Laid(s, r, f, p, "item"), NEW e \in ItemType, e.parent = Last(f), e.from <= p, e.to <= p,
         NEW g, g = IF r[Last(f)].type = "array" THEN "value" ELSE "name"
  PROVE  Laid(s, Append(r, e), f, p, g)
<1> DEFINE c == Last(f)
           v == Append(r, e)
           k == Len(r) + 1
<1>1. /\ ~Pending("item") /\ Pending(g) /\ Len(r) \in Nat /\ DOMAIN r = 1 .. Len(r)
      /\ \A j \in DOMAIN r : /\ r[j].parent \in Nat /\ r[j].parent < j
                             /\ r[j].from \in Nat /\ r[j].to \in Nat
                             /\ r[j].parent # 0 => r[j].parent \in DOMAIN r
  BY TreeItem DEF Pending
<1>2. /\ v \in Seq(ItemType) /\ Len(v) = k /\ DOMAIN v = 1 .. k /\ v[k] = e
      /\ \A j \in DOMAIN r : v[j] = r[j]
      /\ Later(r, v)
  <2>1. /\ v \in Seq(ItemType) /\ Len(v) = k /\ DOMAIN v = 1 .. k /\ v[k] = e
        /\ \A j \in DOMAIN r : v[j] = r[j]
    BY <1>1 DEF Tree
  <2> HIDE DEF v, c
  <2> QED
    BY <1>1, <2>1 DEF Later
<1>3. Nested(s, r, f, p, "item") /\ Here(s, r, c, p, "item")
  BY DEF Laid
<1>4. /\ c \in DOMAIN r /\ c = f[Len(f)] /\ Len(f) \in DOMAIN f /\ DOMAIN f = 1 .. Len(f)
      /\ Len(f) \in Nat \ {0} /\ \A i \in DOMAIN f : f[i] \in DOMAIN r
  BY FrameIn
<1>5. r[c].type \in Container
  <2> HIDE DEF c
  <2> QED
    BY <1>3, <1>4 DEF Nested
<1>6. e.parent = c /\ e.from <= p /\ e.to <= p /\ e.from \in Nat /\ e.to \in Nat
  BY DEF ItemType
<1>7. g = IF r[c].type = "array" THEN "value" ELSE "name"
  OBVIOUS
<1> HIDE DEF c, v
<1>8. Longer(s, s) /\ Len(s) \in Nat
  BY TreeItem DEF Longer, Tree
<1>9. \A j \in DOMAIN v : j \in DOMAIN r \/ j = k
  BY <1>1, <1>2
<1>10. \A j \in DOMAIN r : /\ Elder(r, j) \subseteq DOMAIN r /\ Below(r, j) \subseteq DOMAIN r
                           /\ j # c => Below(v, j) = Below(r, j)
  <2>1. \A j \in DOMAIN r : j # c => Below(v, j) = Below(r, j)
    <3>1. DOMAIN r \subseteq DOMAIN v
      BY <1>1, <1>2
    <3> QED
      BY <1>2, <1>6, <1>9, <3>1 DEF Below
  <2> QED
    BY <2>1 DEF Elder, Below
<1>11. ASSUME NEW j \in DOMAIN r, Begun(s, r, j) PROVE Begun(s, v, j)
  <2>1. /\ \A i \in Elder(r, j) : v[i].to = r[i].to
        /\ r[j].parent # 0 => v[r[j].parent] = r[r[j].parent]
    BY <1>1, <1>2, <1>10
  <2> QED
    BY <1>2, <1>8, <1>11, <2>1, BegunKeeps
<1>12. ASSUME NEW j \in DOMAIN r, j # c, Complete(s, r, j) PROVE Complete(s, v, j)
  <2>1. /\ \A i \in Elder(r, j) : v[i].to = r[i].to
        /\ \A i \in Below(r, j) : v[i].to = r[i].to
        /\ r[j].parent # 0 => v[r[j].parent] = r[r[j].parent]
        /\ Below(v, j) = Below(r, j) /\ v[j] = r[j]
    BY <1>1, <1>2, <1>10, <1>12
  <2> QED
    BY <1>2, <1>8, <1>12, <2>1, CompleteKeeps
<1>13. Nested(s, v, f, p, g)
  <2>1. \A j \in DOMAIN v : v[j].from <= p /\ v[j].to <= p
    BY <1>2, <1>3, <1>6, <1>9 DEF Nested
  <2>2. \A i \in DOMAIN f : f[i] <= c
    <3>1. \A i \in DOMAIN f : i = Len(f) \/ i < Len(f)
      BY <1>4
    <3>2. \A i \in DOMAIN f : i < Len(f) => f[i] < f[Len(f)]
      BY <1>3, <1>4 DEF Nested
    <3>3. \A i \in DOMAIN f : f[i] \in Nat
      BY <1>1, <1>4
    <3> QED
      BY <1>4, <3>1, <3>2, <3>3
  <2>3. ASSUME NEW i \in DOMAIN f
        PROVE  /\ v[f[i]].type \in Container /\ Begun(s, v, f[i]) /\ v[f[i]].from < p
               /\ \A j \in DOMAIN f : i < j => f[i] < f[j]
               /\ \A j \in DOMAIN v : f[i] < j => f[i] <= v[j].parent
               /\ v[f[i]].parent = IF i = 1 THEN 0 ELSE f[i - 1]
    <3>1. /\ r[f[i]].type \in Container /\ Begun(s, r, f[i]) /\ r[f[i]].from < p
          /\ \A j \in DOMAIN f : i < j => f[i] < f[j]
          /\ \A j \in DOMAIN r : f[i] < j => f[i] <= r[j].parent
          /\ r[f[i]].parent = IF i = 1 THEN 0 ELSE f[i - 1]
      BY <1>3 DEF Nested
    <3>2. f[i] \in DOMAIN r /\ v[f[i]] = r[f[i]] /\ Begun(s, v, f[i])
      BY <1>2, <1>4, <1>11, <3>1
    <3>3. \A j \in DOMAIN v : f[i] < j => f[i] <= v[j].parent
      BY <1>2, <1>6, <1>9, <2>2, <3>1
    <3> QED
      BY <3>1, <3>2, <3>3
  <2>4. ASSUME NEW j \in DOMAIN v, ~(Pending(g) /\ j = Len(v)), ~Complete(s, v, j)
        PROVE  \E i \in DOMAIN f : f[i] = j
    <3>1. j \in DOMAIN r
      BY <1>1, <1>2, <1>9, <2>4
    <3>2. CASE j = c
      BY <1>4, <3>2
    <3>3. CASE j # c
      BY <1>1, <1>3, <1>12, <2>4, <3>1, <3>3 DEF Nested
    <3> QED
      BY <3>2, <3>3
  <2>5. /\ v[Len(v)].parent = IF f = << >> THEN 0 ELSE Last(f)
        /\ \A i \in DOMAIN f : f[i] < Len(v)
    <3>1. v[Len(v)].parent = c /\ c = Last(f)
      BY <1>2, <1>6 DEF c
    <3> QED
      BY <1>1, <1>2, <1>4, <3>1
  <2>6. p <= Len(s) /\ (s # << >> /\ Last(s) = "end" => p < Len(s))
    BY <1>3 DEF Nested
  <2> QED
    BY <2>1, <2>3, <2>4, <2>5, <2>6 DEF Nested
<1>14. Here(s, v, c, p, g)
  <2> DEFINE S == Below(r, c)
             m == <<",">> \o << >>
             z == << >>
  <2>1. Elder(v, k) = S /\ v[k].parent = c /\ S \subseteq DOMAIN r
    <3>1. \A j \in DOMAIN v : j < k => j \in DOMAIN r
      BY <1>1, <1>9
    <3>2. \A j \in DOMAIN r : j \in DOMAIN v /\ j < k
      BY <1>1, <1>2
    <3> QED
      BY <1>2, <1>6, <3>1, <3>2 DEF Elder, Below
  <2>2. Upto(s, r, S, c, p, z, m)
    <3>1. m = <<",">>
      OBVIOUS
    <3> QED
      BY <1>3, <3>1 DEF Here
  <2>3. v[c].from = r[c].from /\ v[c].type = r[c].type /\ \A j \in S : v[j].to = r[j].to
    BY <1>2, <1>4, <2>1
  <2>4. p <= Len(s)
    BY <1>3 DEF Nested
  <2> HIDE DEF S, m, z
  <2>5. Upto(s, v, S, c, p, z, m)
    BY <1>4, <1>8, <2>1, <2>2, <2>3, <2>4, UptoKeeps
  <2>6. Behind(s, v, Len(v), p, z)
    BY <1>2, <2>1, <2>5 DEF Behind, m, z
  <2>7. r[c].type = "array" => Lead(v, c) = z
    BY <2>3 DEF Lead, z
  <2>8. r[c].type # "array" => v[c].type = "object"
    BY <1>5, <2>3 DEF Container, Opening
  <2> QED
    BY <1>7, <2>6, <2>7, <2>8 DEF Here, z
<1> QED
  BY <1>13, <1>14 DEF Laid, c, v

(* The first item is made.                                                 *)
LEMMA RootLaid ==
  ASSUME NEW s \in Seq(Token), NEW e, e.parent = 0, e.from = 0, e.to = 0
  PROVE  Laid(s, <<e>>, << >>, 0, "bom")
<1> DEFINE r == <<e>>
<1>1. DOMAIN r = {1} /\ Len(r) = 1 /\ r[1] = e
  OBVIOUS
<1>2. Len(s) \in Nat /\ (s # << >> => 0 < Len(s))
  OBVIOUS
<1>3. DOMAIN << >> = {}
  OBVIOUS
<1> HIDE DEF r
<1>4. Nested(s, r, << >>, 0, "bom")
  BY <1>1, <1>2, <1>3 DEF Nested, Pending
<1> QED
  BY <1>4 DEF Laid, r

-----------------------------------------------------------------------------
(* The parser goes on.                                                     *)

LEMMA BehindKeeps ==
  ASSUME NEW s, NEW r, Tree(s, r), NEW q, Longer(s, q), NEW k \in DOMAIN r,
         NEW b \in Nat, b <= Len(s), NEW lead, Behind(s, r, k, b, lead)
  PROVE  Behind(q, r, k, b, lead)
<1> DEFINE S == Elder(r, k)
           c == r[k].parent
           m == <<",">> \o lead
<1>1. S \subseteq DOMAIN r /\ (c # 0 => c \in DOMAIN r)
  BY TreeItem DEF Elder, Below
<1>2. c # 0 => Upto(s, r, S, c, b, lead, m)
  BY DEF Behind
<1> HIDE DEF S, c, m
<1>3. c # 0 => Upto(q, r, S, c, b, lead, m)
  BY <1>1, <1>2, UptoKeeps
<1> QED
  BY <1>3 DEF Behind, S, c, m

(* The text is read on.                                                    *)
LEMMA LookLaid ==
  ASSUME NEW s, NEW r, Tree(s, r), NEW f \in Seq(DOMAIN r), NEW p \in Nat, NEW g,
         Laid(s, r, f, p, g), NEW q, Longer(s, q), Len(s) < Len(q)
  PROVE  Laid(q, r, f, p, g)
<1>1. Nested(s, r, f, p, g) /\ p <= Len(s) /\ Len(s) \in Nat /\ Len(q) \in Nat
      /\ Len(r) \in Nat /\ DOMAIN r = 1 .. Len(r)
  BY TreeItem DEF Laid, Nested, Longer
<1>2. Nested(q, r, f, p, g)
  BY <1>1, NestedMoves
<1>3. ASSUME f # << >> PROVE Here(q, r, Last(f), p, g)
  <2> DEFINE c == Last(f)
  <2>1. c \in DOMAIN r /\ Here(s, r, c, p, g) /\ Len(r) \in DOMAIN r
    <3>1. c \in DOMAIN r
      BY <1>3, FrameIn
    <3> QED
      BY <1>1, <1>3, <3>1 DEF Laid
  <2> HIDE DEF c
  <2>2. Below(r, c) \subseteq DOMAIN r
    BY DEF Below
  <2>3. \A a, b : Upto(s, r, Below(r, c), c, p, a, b) => Upto(q, r, Below(r, c), c, p, a, b)
    BY <1>1, <2>1, <2>2, UptoKeeps
  <2>4. \A l : Behind(s, r, Len(r), p, l) => Behind(q, r, Len(r), p, l)
    BY <1>1, <2>1, BehindKeeps
  <2>5. Here(q, r, c, p, g)
    BY <2>1, <2>3, <2>4 DEF Here
  <2> QED
    BY <2>5 DEF c
<1> QED
  BY <1>2, <1>3 DEF Laid

(* White space is passed over.                                             *)
LEMMA BlankLaid ==
  ASSUME NEW s, NEW r, Tree(s, r), NEW f \in Seq(DOMAIN r), NEW p \in Nat, NEW g,
         Laid(s, r, f, p, g), p < Len(s), s[p + 1] = "ws",
         s # << >> /\ Last(s) = "end" => p + 1 < Len(s)
  PROVE  Laid(s, r, f, p + 1, g)
<1>1. Nested(s, r, f, p, g) /\ p + 1 <= Len(s) /\ Len(s) \in Nat /\ Longer(s, s)
      /\ Len(r) \in Nat /\ DOMAIN r = 1 .. Len(r) /\ p + 1 \in Nat
  BY TreeItem DEF Laid, Longer, Tree
<1>2. Nested(s, r, f, p + 1, g)
  BY <1>1, NestedMoves
<1>3. ASSUME f # << >> PROVE Here(s, r, Last(f), p + 1, g)
  <2> DEFINE c == Last(f)
  <2>1. c \in DOMAIN r /\ Here(s, r, c, p, g) /\ Len(r) \in DOMAIN r
    <3>1. c \in DOMAIN r
      BY <1>3, FrameIn
    <3> QED
      BY <1>1, <1>3, <3>1 DEF Laid
  <2>2. r[c].type = "array" \/ r[c].type = "object" \/ r[c].type \notin Container
    BY DEF Container, Opening
  <2> HIDE DEF c
  <2>3. Below(r, c) \subseteq DOMAIN r
    BY DEF Below
  <2>4. \A a, b \in Seq(Token) :
          Upto(s, r, Below(r, c), c, p, a, b) => Upto(s, r, Below(r, c), c, p + 1, a, b)
    BY <2>1, <2>3, UptoStep
  <2>5. \A l \in Seq(Token) : Behind(s, r, Len(r), p, l) => Behind(s, r, Len(r), p + 1, l)
    <3>1. r[Len(r)].parent = 0 => \A l : Behind(s, r, Len(r), p + 1, l)
      BY DEF Behind
    <3>2. r[Len(r)].parent # 0 =>
            \A l \in Seq(Token) : Behind(s, r, Len(r), p, l) => Behind(s, r, Len(r), p + 1, l)
      BY <2>1, BehindStep
    <3> QED
      BY <3>1, <3>2
  <2>6. << >> \in Seq(Token) /\ <<",">> \in Seq(Token) /\ <<"str">> \in Seq(Token)
        /\ Lead(r, c) \in Seq(Token)
    BY LeadType, CommaThen
  <2>7. Here(s, r, c, p + 1, g)
    BY <2>1, <2>4, <2>5, <2>6 DEF Here
  <2> QED
    BY <2>7 DEF c
<1> QED
  BY <1>2, <1>3 DEF Laid

(* The tokens between values and behind names, named: in a proof "," is    *)
(* not for every prover.                                                   *)
Comma == ","
Colon == ":"
LEMMA Signs ==
  /\ "str" \in Token /\ Comma \in Token /\ Colon \in Token
  /\ Shown(Comma) = Comma /\ Comma # "ws" /\ Shown(Colon) = Colon /\ Colon # "ws"
<1>1. Comma # "ws" /\ Comma # "inf" /\ Colon # "ws" /\ Colon # "inf"
  BY Zenon DEF Comma, Colon
<1>2. "str" \in Token /\ Comma \in Token /\ Colon \in Token
  BY Zenon DEF Comma, Colon, Token, Scalar
<1> QED
  BY <1>1, <1>2 DEF Shown

LEMMA PairIs ==
  ASSUME NEW x \in Token, NEW y \in Token
  PROVE  /\ Append(<<x>>, y) = <<x, y>> /\ <<x>> \o <<y>> = <<x, y>>
         /\ <<x>> \in Seq(Token) /\ <<x, y>> \in Seq(Token)
<1>1. <<x>> \in Seq(Token) /\ <<x, y>> \in Seq(Token)
  OBVIOUS
<1> DEFINE a == Append(<<x>>, y)
<1>2. a \in Seq(Token) /\ Len(a) = 2 /\ a[1] = x /\ a[2] = y
  OBVIOUS
<1>3. <<x>> \o <<y>> = a
  BY <1>1, ST!AppendIsConcat
<1> HIDE DEF a
<1>4. a = [i \in 1 .. 2 |-> a[i]]
  BY <1>2
<1>5. <<x, y>> = [i \in 1 .. 2 |-> a[i]]
  BY <1>2
<1> QED
  BY <1>1, <1>3, <1>4, <1>5 DEF a

(* The byte order mark.                                                    *)
LEMMA BomLaid ==
  ASSUME NEW s, NEW r, Tree(s, r), NEW f \in Seq(DOMAIN r), NEW p \in Nat,
         Laid(s, r, f, p, "bom"), NEW n \in Nat, p <= n, n <= Len(s),
         s # << >> /\ Last(s) = "end" => n < Len(s)
  PROVE  Laid(s, r, f, n, "value")
<1>1. Nested(s, r, f, p, "bom") /\ f = << >> /\ Longer(s, s)
      /\ Pending("bom") /\ Pending("value")
  BY TreeItem DEF Laid, Here, Longer, Tree, Pending
<1>2. Nested(s, r, f, n, "value")
  BY <1>1, NestedMoves
<1> QED
  BY <1>1, <1>2 DEF Laid

(* The name of a member ...                                                *)
LEMMA NameLaid ==
  ASSUME NEW s, NEW r, Tree(s, r), NEW f \in Seq(DOMAIN r), f # << >>, NEW p \in Nat,
         Laid(s, r, f, p, "name"), p < Len(s), s[p + 1] = "str",
         s # << >> /\ Last(s) = "end" => p + 1 < Len(s)
  PROVE  Laid(s, r, f, p + 1, "colon")
<1>1. Nested(s, r, f, p, "name") /\ p + 1 <= Len(s) /\ Len(s) \in Nat /\ Longer(s, s)
      /\ Len(r) \in Nat /\ DOMAIN r = 1 .. Len(r) /\ p + 1 \in Nat
      /\ Pending("name") /\ Pending("colon")
  BY TreeItem DEF Laid, Longer, Tree, Pending
<1>2. Nested(s, r, f, p + 1, "colon")
  BY <1>1, NestedMoves
<1>3. Here(s, r, Last(f), p + 1, "colon")
  <2> DEFINE c == Last(f)
             z == << >>
  <2>1. c \in DOMAIN r /\ Here(s, r, c, p, "name")
    BY FrameIn DEF Laid
  <2> HIDE DEF c
  <2>2. r[c].type = "object" /\ Behind(s, r, Len(r), p, z) /\ z \in Seq(Token)
    BY <2>1 DEF Here
  <2>3. Len(r) \in DOMAIN r
    BY <1>1, <2>1
  <2>4. Append(z, Shown("str")) = <<"str">> /\ "str" # "ws"
    BY DEF Shown
  <2> HIDE DEF z
  <2>5. r[Len(r)].parent # 0 => Behind(s, r, Len(r), p + 1, Append(z, Shown("str")))
    BY <2>2, <2>3, <2>4, BehindStep
  <2>6. Behind(s, r, Len(r), p + 1, <<"str">>)
    BY <2>4, <2>5 DEF Behind
  <2> QED
    BY <2>2, <2>6 DEF Here, c
<1> QED
  BY <1>2, <1>3 DEF Laid

(* ... the colon behind it ...                                             *)
LEMMA ColonLaid ==
  ASSUME NEW s, NEW r, Tree(s, r), NEW f \in Seq(DOMAIN r), f # << >>, NEW p \in Nat,
         Laid(s, r, f, p, "colon"), p < Len(s), s[p + 1] = Colon,
         s # << >> /\ Last(s) = "end" => p + 1 < Len(s)
  PROVE  Laid(s, r, f, p + 1, "value")
<1>1. Nested(s, r, f, p, "colon") /\ p + 1 <= Len(s) /\ Len(s) \in Nat /\ Longer(s, s)
      /\ Len(r) \in Nat /\ DOMAIN r = 1 .. Len(r) /\ p + 1 \in Nat
      /\ Pending("colon") /\ Pending("value")
  BY TreeItem DEF Laid, Longer, Tree, Pending
<1>2. Nested(s, r, f, p + 1, "value")
  BY <1>1, NestedMoves
<1>3. Here(s, r, Last(f), p + 1, "value")
  <2> DEFINE c == Last(f)
             z == <<"str">>
  <2>1. c \in DOMAIN r /\ Here(s, r, c, p, "colon")
    BY FrameIn DEF Laid
  <2> HIDE DEF c
  <2>2. r[c].type = "object" /\ Behind(s, r, Len(r), p, z) /\ z \in Seq(Token)
    BY <2>1, LeadType DEF Here
  <2>3. Len(r) \in DOMAIN r
    BY <1>1, <2>1
  <2>4. Append(z, Shown(Colon)) = <<"str", Colon>> /\ Colon # "ws"
    <3>1. Shown(Colon) = Colon /\ Colon # "ws"
      BY Signs
    <3>2. Append(<<"str">>, Colon) = <<"str", Colon>>
      BY PairIs, Signs
    <3> QED
      BY <3>1, <3>2, Zenon
  <2> HIDE DEF z
  <2>5. r[Len(r)].parent # 0 => Behind(s, r, Len(r), p + 1, Append(z, Shown(Colon)))
    BY <2>2, <2>3, <2>4, BehindStep
  <2>6. Lead(r, c) = <<"str", Colon>>
    BY <2>2, Zenon DEF Lead, Colon
  <2>7. Behind(s, r, Len(r), p + 1, Lead(r, c))
    BY <2>4, <2>5, <2>6 DEF Behind
  <2> QED
    BY <2>7 DEF Here, c
<1> QED
  BY <1>2, <1>3 DEF Laid

(* ... the comma behind a value ...                                        *)
LEMMA CommaLaid ==
  ASSUME NEW s, NEW r, Tree(s, r), NEW f \in Seq(DOMAIN r), f # << >>, NEW p \in Nat,
         Laid(s, r, f, p, "more"), p < Len(s), s[p + 1] = Comma,
         s # << >> /\ Last(s) = "end" => p + 1 < Len(s)
  PROVE  Laid(s, r, f, p + 1, "item")
<1>1. Nested(s, r, f, p, "more") /\ p + 1 <= Len(s) /\ Len(s) \in Nat /\ Longer(s, s)
      /\ p + 1 \in Nat /\ ~Pending("more") /\ ~Pending("item")
  BY TreeItem DEF Laid, Longer, Tree, Pending
<1>2. Nested(s, r, f, p + 1, "item")
  BY <1>1, NestedMoves
<1>3. Here(s, r, Last(f), p + 1, "item")
  <2> DEFINE c == Last(f)
             S == Below(r, c)
             z == << >>
  <2>1. c \in DOMAIN r /\ Here(s, r, c, p, "more")
    BY FrameIn DEF Laid
  <2> HIDE DEF c
  <2>2. S # {} /\ Upto(s, r, S, c, p, z, z) /\ z \in Seq(Token) /\ S \subseteq DOMAIN r
    <3>1. S # {} /\ Upto(s, r, S, c, p, z, z)
      BY <2>1, Zenon DEF Here
    <3> QED
      BY <3>1 DEF Below
  <2>3. Append(z, Shown(Comma)) = <<Comma>> /\ Comma # "ws"
    <3>1. Shown(Comma) = Comma /\ Comma # "ws"
      BY Signs
    <3> QED
      BY <3>1
  <2> HIDE DEF z, S
  <2>4. Upto(s, r, S, c, p + 1, Append(z, Shown(Comma)), Append(z, Shown(Comma)))
    BY <2>1, <2>2, <2>3, UptoStep
  <2>5. Upto(s, r, S, c, p + 1, z, <<Comma>>)
    BY <2>2, <2>3, <2>4 DEF Upto
  <2> QED
    BY <2>5, Zenon DEF Here, c, S, z, Comma
<1> QED
  BY <1>2, <1>3 DEF Laid

(* ... or none in front of the first, and what follows a value.            *)
LEMMA FirstLaid ==
  ASSUME NEW s, NEW r, Tree(s, r), NEW f \in Seq(DOMAIN r), NEW p \in Nat,
         Laid(s, r, f, p, "opened")
  PROVE  Laid(s, r, f, p, "item")
<1>1. /\ Nested(s, r, f, p, "opened") /\ Longer(s, s) /\ p <= Len(s)
      /\ s # << >> /\ Last(s) = "end" => p < Len(s)
      /\ ~Pending("opened") /\ ~Pending("item")
  BY TreeItem DEF Laid, Nested, Longer, Tree, Pending
<1>2. Nested(s, r, f, p, "item")
  BY <1>1, NestedMoves
<1>3. ASSUME f # << >> PROVE Here(s, r, Last(f), p, "item")
  <2> DEFINE c == Last(f)
             S == Below(r, c)
  <2>1. Here(s, r, c, p, "opened")
    BY <1>3 DEF Laid
  <2> HIDE DEF c
  <2>2. S = {} /\ Upto(s, r, S, c, p, << >>, << >>)
    BY <2>1 DEF Here
  <2> HIDE DEF S
  <2>3. Upto(s, r, S, c, p, << >>, <<",">>)
    BY <2>2 DEF Upto
  <2> QED
    BY <2>3 DEF Here, c, S
<1> QED
  BY <1>2, <1>3 DEF Laid

LEMMA ParsedLaid ==
  ASSUME NEW s, NEW r, Tree(s, r), NEW f \in Seq(DOMAIN r), NEW p \in Nat,
         Laid(s, r, f, p, "parsed")
  PROVE  /\ f # << >> => Laid(s, r, f, p, "more")
         /\ f = << >> => Laid(s, r, f, p, "accepted") /\ \A k \in DOMAIN r : Complete(s, r, k)
<1>1. /\ Nested(s, r, f, p, "parsed") /\ Longer(s, s) /\ p <= Len(s)
      /\ s # << >> /\ Last(s) = "end" => p < Len(s)
      /\ ~Pending("parsed") /\ ~Pending("more") /\ ~Pending("accepted")
  BY TreeItem DEF Laid, Nested, Longer, Tree, Pending
<1>2. Nested(s, r, f, p, "more") /\ Nested(s, r, f, p, "accepted")
  BY <1>1, NestedMoves
<1>3. f # << >> => Here(s, r, Last(f), p, "more")
  BY DEF Laid, Here
<1>4. f = << >> => \A k \in DOMAIN r : Complete(s, r, k)
  <2>1. DOMAIN << >> = {}
    OBVIOUS
  <2> QED
    BY <1>1, <2>1 DEF Nested
<1> QED
  BY <1>2, <1>3, <1>4 DEF Laid

-----------------------------------------------------------------------------
(* The steps of the parser.                                                *)

LEMMA TreeIs == TypeOK => Tree(text, items) /\ frames \in Seq(DOMAIN items)
BY DEF TypeOK, Tree, ItemType

(* The parser takes the token it is at.                                    *)
LEMMA AtToken ==
  ASSUME ReadInv, Accessible
  PROVE  /\ offset \in Nat /\ offset < Len(text) /\ Len(text) \in Nat /\ text[offset + 1] = At
         /\ At \in Token
         /\ text # << >> /\ Last(text) = "end" =>
              offset < Len(text) /\ (At # "end" => offset + 1 < Len(text))
         /\ At = "end" => offset + 1 = Len(text) /\ Ended
<1>1. /\ At \in Token /\ offset + 1 \in 1 .. Len(text) /\ offset \in Nat /\ Len(text) \in Nat
      /\ Ended /\ At # "end" => offset + 1 < Len(text)
  <2>1. text \in Seq(Token) /\ offset \in 0 .. Len(text)
    BY DEF ReadInv
  <2> QED
    BY <2>1, TokenAt
<1>2. At = "end" => offset + 1 = Len(text)
  <2>1. offset + 1 = Len(text) \/ offset + 1 \in 1 .. Len(text) - 1
    BY <1>1
  <2> QED
    BY <2>1 DEF ReadInv, At
<1>3. At = "end" => Ended
  <2>1. At = "end" => text # << >> /\ Last(text) = "end"
    BY <1>1, <1>2 DEF At, Last, ReadInv
  <2> QED
    BY <2>1 DEF Ended
<1> QED
  BY <1>1, <1>2, <1>3 DEF At, Ended

(* Where it is, and where it is behind a token that is not the zero.       *)
LEMMA PosIs ==
  ASSUME ReadInv
  PROVE  /\ Pos \in Nat /\ (pc # "item" /\ Accessible => Pos = offset)
         /\ (pc \notin {"item", "skip"} => Pos = offset)
         /\ (pc = "item" => Pos = offset + 1)
<1>1. text \in Seq(Token) /\ offset \in 0 .. Len(text) /\ offset \in Nat
  BY DEF ReadInv
<1>2. Ended /\ ~Accessible => offset - 1 \in Nat
  <2>1. text # << >> => Len(text) # 0
    BY <1>1
  <2> QED
    BY <1>1, <2>1 DEF Ended, Accessible
<1>3. pc = "item" => offset + 1 \in Nat
  BY <1>1
<1> QED
  BY <1>1, <1>2, <1>3 DEF Pos

LEMMA PosNext ==
  ASSUME ReadInv, UNCHANGED text, offset' \in Nat,
         text # << >> /\ Last(text) = "end" => offset' < Len(text), pc' # "item"
  PROVE  Pos' = offset'
<1>1. text \in Seq(Token) /\ Len(text) \in Nat
  BY DEF ReadInv
<1>2. Ended' => Accessible'
  BY <1>1 DEF Ended, Accessible
<1> QED
  BY <1>2 DEF Pos

LEMMA LookStep ==
  ASSUME ReadInv, TypeOK, Look, Laid(text, items, frames, Pos, Going)
  PROVE  Laid(text', items', frames', Pos', Going')
<1>1. PICK x \in Token : text' = Append(text, x)
  BY DEF Look, Token, Scalar, Word, Number
<1>2. /\ UNCHANGED <<pc, after, items, frames, offset>> /\ ~Accessible /\ ~Ended
      /\ pc # "item"
  BY DEF Look, tree, Reading
<1>3. text \in Seq(Token) /\ offset \in 0 .. Len(text) /\ Len(text) \in Nat
  BY DEF ReadInv
<1>4. /\ text' \in Seq(Token) /\ Len(text') = Len(text) + 1
      /\ \A i \in 1 .. Len(text) : text'[i] = text[i]
  BY <1>1, <1>3
<1>5. Longer(text, text') /\ Len(text) < Len(text')
  BY <1>3, <1>4 DEF Longer
<1>6. Pos' = Pos
  <2>1. Accessible'
    BY <1>2, <1>3, <1>4 DEF Accessible
  <2>2. Pos' = offset' /\ Pos = offset
    BY <1>2, <2>1 DEF Pos
  <2> QED
    BY <1>2, <2>2
<1>7. Going' = Going /\ Pos \in Nat
  BY <1>2, PosIs DEF Going
<1>8. Laid(text', items, frames, Pos, Going)
  BY <1>5, <1>7, TreeIs, LookLaid
<1> QED
  BY <1>2, <1>6, <1>7, <1>8

LEMMA StartStep ==
  ASSUME ReadInv, TypeOK, ParserInv, Start, pc' # "fail"
  PROVE  Laid(text', items', frames', Pos', Going')
<1>1. /\ Allocate(0) /\ pc' = "bom" /\ pc = "start"
      /\ UNCHANGED <<text, offset, after, frames>>
  BY DEF Start, Unallocated, parse
<1>2. items = << >> /\ frames = << >> /\ offset = 0 /\ text \in Seq(Token)
  BY <1>1 DEF ParserInv, ReadInv
<1>3. items' = <<NewItem(0)>>
  BY <1>1, <1>2 DEF Allocate
<1>4. NewItem(0).parent = 0 /\ NewItem(0).from = 0 /\ NewItem(0).to = 0
  BY <1>2 DEF NewItem
<1>5. Pos' = 0 /\ Going' = "bom"
  BY <1>1, <1>2 DEF Pos, Going
<1>6. Laid(text, <<NewItem(0)>>, << >>, 0, "bom")
  BY <1>2, <1>4, RootLaid
<1> QED
  BY <1>1, <1>2, <1>3, <1>5, <1>6

LEMMA BomStep ==
  ASSUME ReadInv, TypeOK, SkipBom, Laid(text, items, frames, Pos, Going)
  PROVE  Laid(text', items', frames', Pos', Going')
<1>1. /\ pc = "bom" /\ Accessible /\ pc' = "skip" /\ after' = "value"
      /\ UNCHANGED <<text, items, frames>>
      /\ offset' = IF At = "bom" THEN offset + 1 ELSE offset
  BY DEF SkipBom, SkipTo, tree
<1>2. Pos = offset /\ Going = "bom" /\ Going' = "value" /\ Pos \in Nat
  BY <1>1, PosIs DEF Going
<1>3. /\ offset \in Nat /\ Len(text) \in Nat /\ offset < Len(text)
      /\ text # << >> /\ Last(text) = "end" => offset' < Len(text)
  BY <1>1, AtToken
<1>4. offset' \in Nat /\ offset <= offset' /\ offset' <= Len(text)
  BY <1>1, <1>3
<1>5. Pos' = offset'
  BY <1>1, <1>3, <1>4, PosNext
<1> DEFINE n == offset'
<1>6. n \in Nat /\ Pos <= n /\ n <= Len(text) /\ (text # << >> /\ Last(text) = "end" => n < Len(text))
  BY <1>2, <1>3, <1>4
<1> HIDE DEF n
<1>7. Laid(text, items, frames, n, "value")
  BY <1>2, <1>6, TreeIs, BomLaid
<1> QED
  BY <1>1, <1>2, <1>5, <1>7 DEF n

LEMMA OverStep ==
  ASSUME ReadInv, TypeOK, SkipOver, Laid(text, items, frames, Pos, Going)
  PROVE  Laid(text', items', frames', Pos', Going')
<1>1. /\ pc = "skip" /\ Accessible /\ At \in {"ws", "end"} /\ offset' = offset + 1
      /\ UNCHANGED <<text, items, frames, pc, after>>
  BY DEF SkipOver, tree
<1>2. Pos = offset /\ Going' = Going /\ Pos \in Nat
  BY <1>1, PosIs DEF Going
<1>3. /\ offset \in Nat /\ Len(text) \in Nat /\ offset < Len(text) /\ text[offset + 1] = At
      /\ text # << >> /\ Last(text) = "end" => (At # "end" => offset + 1 < Len(text))
      /\ At = "end" => offset + 1 = Len(text) /\ Ended
  BY <1>1, AtToken
<1>4. CASE At = "end"
  <2>1. ~Accessible' /\ Ended' /\ offset' - 1 = offset
    BY <1>1, <1>3, <1>4 DEF Accessible, Ended
  <2>2. Pos' = offset
    BY <1>1, <2>1 DEF Pos
  <2> QED
    BY <1>1, <1>2, <2>2
<1>5. CASE At = "ws"
  <2>1. text # << >> /\ Last(text) = "end" => offset + 1 < Len(text)
    BY <1>3, <1>5
  <2>2. offset' \in Nat /\ (text # << >> /\ Last(text) = "end" => offset' < Len(text))
    BY <1>1, <1>3, <2>1
  <2>3. Pos' = offset + 1
    BY <1>1, <2>2, PosNext
  <2>4. Laid(text, items, frames, Pos + 1, Going)
    BY <1>2, <1>3, <1>5, <2>1, TreeIs, BlankLaid
  <2> QED
    BY <1>1, <1>2, <2>3, <2>4
<1> QED
  BY <1>1, <1>4, <1>5

LEMMA DoneStep ==
  ASSUME ReadInv, TypeOK, SkipDone, Laid(text, items, frames, Pos, Going)
  PROVE  Laid(text', items', frames', Pos', Going')
<1>1. /\ pc = "skip" /\ pc' = after /\ (Accessible \/ Ended)
      /\ offset' = IF Accessible THEN offset ELSE offset - 1
      /\ UNCHANGED <<text, items, frames, after>>
  BY DEF SkipDone, tree
<1>2. after \notin {"skip", "item"}
  BY DEF ReadInv
<1>3. Pos' = Pos /\ Going' = Going
  BY <1>1, <1>2 DEF Pos, Going
<1> QED
  BY <1>1, <1>3

(* The items behind a change of one.                                       *)
LEMMA FilledAs ==
  ASSUME NEW r \in Seq(ItemType), NEW k \in 1 .. Len(r), NEW v, Grown(r, v), Len(v) = Len(r),
         \A j \in 1 .. Len(r) : j # k => v[j] = r[j]
  PROVE  Later(r, v) /\ \A j \in DOMAIN r \ {k} : v[j] = r[j]
<1>1. DOMAIN r = 1 .. Len(r) /\ Len(r) \in Nat
  OBVIOUS
<1> QED
  BY <1>1 DEF Grown, Later

LEMMA ValueStep ==
  ASSUME ReadInv, TypeOK, ParserInv, ParseWord \/ ParseNumber \/ ParseString,
         Laid(text, items, frames, Pos, Going)
  PROVE  Laid(text', items', frames', Pos', Going')
<1>1. /\ pc = "value" /\ Accessible /\ At \in Scalar /\ offset' = offset + 1 /\ pc' = "parsed"
      /\ UNCHANGED <<text, frames>>
      /\ items' = [items EXCEPT ![Item].type = At, ![Item].from = offset, ![Item].to = offset + 1]
  BY DEF ParseWord, ParseNumber, ParseString, ParseAs, Scalar
<1>2. Pos = offset /\ Going = "value" /\ Going' = "parsed" /\ Pos \in Nat
  BY <1>1, PosIs DEF Going
<1>3. At # "end"
  BY <1>1 DEF Scalar, Word, Number
<1>4. /\ offset \in Nat /\ Len(text) \in Nat /\ offset < Len(text) /\ text[offset + 1] = At
      /\ text # << >> /\ Last(text) = "end" => offset + 1 < Len(text)
  BY <1>1, <1>3, AtToken
<1>5. Pos' = offset + 1
  BY <1>1, <1>4, PosNext
<1>6. /\ items \in Seq(ItemType) /\ DOMAIN items = 1 .. Len(items) /\ Len(items) \in Nat
      /\ items # << >>
  BY <1>1 DEF TypeOK, ItemType, ParserInv
<1>7. Item \in 1 .. Len(items) /\ Item = Len(items)
  BY <1>6 DEF Item
<1> DEFINE k == Item
<1>8. /\ Grown(items, items') /\ Len(items') = Len(items)
      /\ \A j \in 1 .. Len(items) : j # k => items'[j] = items[j]
      /\ items'[k].type = At /\ items'[k].from = offset /\ items'[k].to = offset + 1
  <2>1. At \in Scalar \cup {"array", "object", "none"} /\ offset + 1 \in Nat
    BY <1>1, <1>4
  <2>2. Grown(items, items')
    BY <1>1, <1>4, <1>6, <1>7, <2>1, FilledIn, ZenonT(40)
  <2>3. items[k] \in ItemType /\ DOMAIN items[k] = {"type", "parent", "from", "to"}
    <3>1. items[k] \in ItemType
      BY <1>6, <1>7
    <3>2. \A x \in ItemType : DOMAIN x = {"type", "parent", "from", "to"}
      BY DEF ItemType
    <3> QED
      BY <3>1, <3>2
  <2>4. items'[k] = [items[k] EXCEPT !.type = At, !.from = offset, !.to = offset + 1]
    BY <1>1, <1>6, <1>7
  <2> QED
    BY <1>1, <1>6, <1>7, <2>2, <2>3, <2>4
<1> HIDE DEF k
<1> DEFINE v == items'
<1>9. /\ Later(items, v) /\ \A j \in DOMAIN items \ {k} : v[j] = items[j]
      /\ Len(v) = Len(items) /\ v[k].type = At /\ v[k].from = offset /\ v[k].to = offset + 1
      /\ k \in DOMAIN items /\ k = Len(items)
  BY <1>6, <1>7, <1>8, FilledAs DEF k
<1> HIDE DEF v
<1>10. Laid(text, v, frames, Pos + 1, "parsed")
  BY <1>1, <1>2, <1>4, <1>9, TreeIs, ScalarLaid
<1> QED
  BY <1>1, <1>2, <1>5, <1>10 DEF v

LEMMA OpenStep ==
  ASSUME ReadInv, TypeOK, ParserInv, ParseOpen, Laid(text, items, frames, Pos, Going)
  PROVE  Laid(text', items', frames', Pos', Going')
<1>1. /\ pc = "value" /\ Accessible /\ At \in Open /\ offset' = offset + 1
      /\ pc' = "skip" /\ after' = "opened" /\ text' = text
      /\ frames' = Append(frames, Item)
      /\ items' = [items EXCEPT ![Item].type = KindOf[At], ![Item].from = offset]
  BY DEF ParseOpen, SkipTo
<1>2. Pos = offset /\ Going = "value" /\ Going' = "opened" /\ Pos \in Nat
  BY <1>1, PosIs DEF Going
<1>3. At # "end" /\ KindOf[At] \in Container
  BY <1>1, OpenIs DEF Open
<1>4. /\ offset \in Nat /\ Len(text) \in Nat /\ offset < Len(text) /\ text[offset + 1] = At
      /\ text # << >> /\ Last(text) = "end" => offset + 1 < Len(text)
  BY <1>1, <1>3, AtToken
<1>5. Pos' = offset + 1
  BY <1>1, <1>4, PosNext
<1>6. /\ items \in Seq(ItemType) /\ DOMAIN items = 1 .. Len(items) /\ Len(items) \in Nat
      /\ items # << >>
  BY <1>1 DEF TypeOK, ItemType, ParserInv
<1>7. Item \in 1 .. Len(items) /\ Item = Len(items)
  BY <1>6 DEF Item
<1> DEFINE k == Item
           u == KindOf[At]
<1>8. /\ Grown(items, items') /\ Len(items') = Len(items)
      /\ \A j \in 1 .. Len(items) : j # k => items'[j] = items[j]
      /\ items'[k].type = u /\ items'[k].from = offset /\ items'[k].to = items[k].to
  <2>1. u \in Scalar \cup {"array", "object", "none"}
    BY <1>3, SMTT(30) DEF Container, Opening
  <2> HIDE DEF u
  <2>2. Grown(items, items')
    BY <1>1, <1>4, <1>6, <1>7, <2>1, FilledIn DEF u
  <2>3. items[k] \in ItemType /\ DOMAIN items[k] = {"type", "parent", "from", "to"}
    <3>1. items[k] \in ItemType
      BY <1>6, <1>7
    <3>2. \A x \in ItemType : DOMAIN x = {"type", "parent", "from", "to"}
      BY DEF ItemType
    <3> QED
      BY <3>1, <3>2
  <2>4. items'[k] = [items[k] EXCEPT !.type = u, !.from = offset]
    BY <1>1, <1>6, <1>7 DEF u
  <2>5. Len(items') = Len(items) /\ \A j \in 1 .. Len(items) : j # k => items'[j] = items[j]
    BY <1>1, <1>6, <1>7, SMTT(30)
  <2> QED
    BY <2>2, <2>3, <2>4, <2>5
<1> HIDE DEF k, u
<1> DEFINE v == items'
<1>9. /\ Later(items, v) /\ \A j \in DOMAIN items \ {k} : v[j] = items[j]
      /\ Len(v) = Len(items) /\ v[k].type = u /\ v[k].from = offset /\ v[k].to = items[k].to
      /\ k \in DOMAIN items /\ k = Len(items)
  BY <1>6, <1>7, <1>8, FilledAs DEF k
<1> HIDE DEF v
<1>10. Laid(text, v, Append(frames, k), Pos + 1, "opened")
  <2>1. v[k].type = KindOf[text[Pos + 1]] /\ text[Pos + 1] \in Open
    BY <1>1, <1>2, <1>4, <1>9 DEF u
  <2> QED
    BY <1>2, <1>4, <1>9, <2>1, TreeIs, OpenLaid
<1> QED
  BY <1>1, <1>2, <1>5, <1>10 DEF v, k

LEMMA CloseStep ==
  ASSUME ReadInv, TypeOK, ParserInv, pc \in {"opened", "more"}, Accessible, At = Closing[Kind],
         Close, UNCHANGED text, Laid(text, items, frames, Pos, Going)
  PROVE  Laid(text', items', frames', Pos', Going')
<1>1. /\ offset' = offset + 1 /\ frames' = Front(frames) /\ pc' = "parsed"
      /\ items' = [items EXCEPT ![Last(frames)].to = offset + 1]
      /\ frames # << >>
  BY DEF Close, ParserInv, Inside
<1>2. Pos = offset /\ Going = pc /\ Going' = "parsed" /\ Pos \in Nat
  BY <1>1, PosIs DEF Going
<1> DEFINE c == Last(frames)
<1>3. /\ items \in Seq(ItemType) /\ DOMAIN items = 1 .. Len(items) /\ Len(items) \in Nat
      /\ c \in DOMAIN items /\ c \in 1 .. Len(items)
      /\ c = frames[Len(frames)] /\ Len(frames) \in DOMAIN frames
  <2>1. Tree(text, items) /\ frames \in Seq(DOMAIN items)
    BY TreeIs
  <2>2. Last(frames) \in DOMAIN items /\ Len(frames) \in DOMAIN frames /\ Last(frames) = frames[Len(frames)]
    BY <1>1, <2>1, FrameIn
  <2>3. items \in Seq(ItemType) /\ DOMAIN items = 1 .. Len(items) /\ Len(items) \in Nat
    BY DEF TypeOK, ItemType
  <2> QED
    BY <2>2, <2>3
<1>4. Kind = items[c].type
  BY DEF Kind
<1> HIDE DEF c
<1>5. items[c].type \in Container
  BY <1>3 DEF Laid, Nested
<1>6. At # "end"
  BY <1>4, <1>5, ClosingIs DEF Container, Opening, Closing
<1>7. /\ offset \in Nat /\ Len(text) \in Nat /\ offset < Len(text) /\ text[offset + 1] = At
      /\ text # << >> /\ Last(text) = "end" => offset + 1 < Len(text)
  BY <1>6, AtToken
<1>8. Pos' = offset + 1
  BY <1>1, <1>7, PosNext
<1>9. /\ Grown(items, items') /\ Len(items') = Len(items)
      /\ \A j \in 1 .. Len(items) : j # c => items'[j] = items[j]
      /\ items'[c].type = items[c].type /\ items'[c].from = items[c].from /\ items'[c].to = offset + 1
  <2>1. "none" \in Scalar \cup {"array", "object", "none"} /\ offset + 1 \in Nat /\ 0 \in Nat
    BY <1>7
  <2>2. items' = [items EXCEPT ![c].to = offset + 1]
    BY <1>1, SMTT(30) DEF c
  <2>3. Grown(items, items')
    BY <1>3, <2>1, <2>2, FilledIn
  <2>4. items[c] \in ItemType /\ DOMAIN items[c] = {"type", "parent", "from", "to"}
    <3>1. items[c] \in ItemType
      BY <1>3
    <3>2. \A x \in ItemType : DOMAIN x = {"type", "parent", "from", "to"}
      BY DEF ItemType
    <3> QED
      BY <3>1, <3>2
  <2>5. items'[c] = [items[c] EXCEPT !.to = offset + 1]
    BY <1>3, <2>2
  <2>6. Len(items') = Len(items) /\ \A j \in 1 .. Len(items) : j # c => items'[j] = items[j]
    BY <1>3, <2>2
  <2> QED
    BY <2>3, <2>4, <2>5, <2>6
<1> DEFINE v == items'
<1>10. /\ Later(items, v) /\ \A j \in DOMAIN items \ {c} : v[j] = items[j]
       /\ Len(v) = Len(items) /\ v[c].type = items[c].type /\ v[c].from = items[c].from
       /\ v[c].to = offset + 1
  BY <1>3, <1>9, FilledAs
<1> HIDE DEF v
<1>11. Laid(text, v, Front(frames), Pos + 1, "parsed")
  <2>1. Laid(text, items, frames, Pos, pc) /\ text[Pos + 1] = Closing[items[c].type]
    BY <1>2, <1>4, <1>7
  <2> QED
    BY <1>1, <1>2, <1>7, <1>10, <2>1, TreeIs, CloseLaid DEF c
<1> QED
  BY <1>1, <1>2, <1>8, <1>11 DEF v

LEMMA OpenedStep ==
  ASSUME ReadInv, TypeOK, ParserInv, Opened \/ More, pc' # "fail", Laid(text, items, frames, Pos, Going)
  PROVE  Laid(text', items', frames', Pos', Going')
<1>1. pc \in {"opened", "more"} /\ Accessible /\ text' = text
  BY DEF Opened, More
<1>2. CASE At = Closing[Kind] /\ Close
  BY <1>1, <1>2, CloseStep
<1>3. CASE ~(At = Closing[Kind] /\ Close)
  <2>1. /\ UNCHANGED <<frames, items>> /\ pc' = "item"
        /\ \/ pc = "opened" /\ offset' = offset - 1
           \/ pc = "more" /\ At = Comma /\ offset' = offset
    BY <1>3, Zenon DEF Opened, More, Comma
  <2>2. Pos = offset /\ Going = pc /\ Going' = "item" /\ Pos \in Nat /\ Pos' = offset' + 1
    BY <1>1, <2>1, PosIs DEF Going, Pos
  <2>3. CASE pc = "opened"
    <3>1. Laid(text, items, frames, Pos, "item")
      BY <2>2, <2>3, TreeIs, FirstLaid
    <3>2. Pos' = Pos
      BY <2>1, <2>2, <2>3
    <3> QED
      BY <1>1, <2>1, <2>2, <3>1, <3>2
  <2>4. CASE pc = "more"
    <3>1. At = Comma /\ offset' = offset /\ frames # << >>
      BY <2>1, <2>4 DEF ParserInv, Inside
    <3>2. At # "end"
      BY <3>1, Zenon DEF Comma
    <3>3. /\ offset \in Nat /\ Len(text) \in Nat /\ offset < Len(text) /\ text[offset + 1] = At
          /\ text # << >> /\ Last(text) = "end" => offset + 1 < Len(text)
      BY <1>1, <3>2, AtToken
    <3>4. Laid(text, items, frames, Pos + 1, "item")
      BY <2>2, <2>4, <3>1, <3>3, TreeIs, CommaLaid
    <3> QED
      BY <1>1, <2>1, <2>2, <3>1, <3>4
  <2> QED
    BY <1>1, <2>3, <2>4
<1> QED
  BY <1>2, <1>3

LEMMA ItemStep ==
  ASSUME ReadInv, TypeOK, ParserInv, NextItem, pc' # "fail", Laid(text, items, frames, Pos, Going)
  PROVE  Laid(text', items', frames', Pos', Going')
<1>1. /\ pc = "item" /\ Allocate(Last(frames)) /\ offset' = offset + 1 /\ pc' = "skip"
      /\ after' = IF Kind = "array" THEN "value" ELSE "name"
      /\ UNCHANGED <<text, frames>> /\ frames # << >>
  BY DEF NextItem, Unallocated, SkipTo, ParserInv, Inside
<1> DEFINE c == Last(frames)
<1>2. c \in DOMAIN items /\ c \in Nat
  <2>1. Tree(text, items) /\ frames \in Seq(DOMAIN items)
    BY TreeIs
  <2>2. Last(frames) \in DOMAIN items
    BY <1>1, <2>1, FrameIn
  <2>3. DOMAIN items = 1 .. Len(items) /\ Len(items) \in Nat
    BY DEF TypeOK
  <2> QED
    BY <2>2, <2>3
<1>3. Kind = items[c].type
  BY DEF Kind
<1>4. Pos = offset + 1 /\ Going = "item" /\ Going' = after' /\ Pos \in Nat
      /\ offset \in Nat /\ Len(text) \in Nat
  BY <1>1, PosIs DEF Going, ReadInv
<1>5. Pos' = Pos
  <2>1. text # << >> /\ Last(text) = "end" => offset' < Len(text)
    BY <1>1, <1>4 DEF Laid, Nested
  <2> QED
    BY <1>1, <1>4, <2>1, PosNext
<1> HIDE DEF c
<1> DEFINE e == NewItem(c)
           g == after'
<1>6. items' = Append(items, e)
  BY <1>1 DEF Allocate, c
<1>7. e \in ItemType /\ e.parent = c /\ e.from <= Pos /\ e.to <= Pos
  BY <1>2, <1>4 DEF NewItem, ItemType
<1>8. g = IF items[c].type = "array" THEN "value" ELSE "name"
  BY <1>1, <1>3
<1> HIDE DEF e, g
<1>9. Laid(text, Append(items, e), frames, Pos, g)
  BY <1>1, <1>4, <1>7, <1>8, TreeIs, NewLaid DEF c
<1> QED
  BY <1>1, <1>4, <1>5, <1>6, <1>9 DEF g

LEMMA MemberStep ==
  ASSUME ReadInv, TypeOK, ParserInv, ParseName \/ ParseColon, pc' # "fail",
         Laid(text, items, frames, Pos, Going)
  PROVE  Laid(text', items', frames', Pos', Going')
<1>1. /\ Accessible /\ offset' = offset + 1 /\ pc' = "skip"
      /\ UNCHANGED <<text, frames, items>>
      /\ \/ pc = "name" /\ At = "str" /\ after' = "colon"
         \/ pc = "colon" /\ At = Colon /\ after' = "value"
  BY Zenon DEF ParseName, ParseColon, SkipTo, tree, Colon
<1>2. Pos = offset /\ Going = pc /\ Going' = after' /\ Pos \in Nat /\ frames # << >>
  BY <1>1, PosIs DEF Going, ParserInv, Inside
<1>3. At # "end"
  <2>1. Colon # "end"
    BY Zenon DEF Colon
  <2> QED
    BY <1>1, <2>1
<1>4. /\ offset \in Nat /\ Len(text) \in Nat /\ offset < Len(text) /\ text[offset + 1] = At
      /\ text # << >> /\ Last(text) = "end" => offset + 1 < Len(text)
  BY <1>1, <1>3, AtToken
<1>5. Pos' = offset + 1
  BY <1>1, <1>4, PosNext
<1>6. CASE pc = "name" /\ At = "str" /\ after' = "colon"
  <2>1. Laid(text, items, frames, Pos + 1, "colon")
    BY <1>2, <1>4, <1>6, TreeIs, NameLaid
  <2> QED
    BY <1>1, <1>2, <1>5, <1>6, <2>1
<1>7. CASE pc = "colon" /\ At = Colon /\ after' = "value"
  <2>1. Laid(text, items, frames, Pos + 1, "value")
    BY <1>2, <1>4, <1>7, TreeIs, ColonLaid
  <2> QED
    BY <1>1, <1>2, <1>5, <1>7, <2>1
<1> QED
  BY <1>1, <1>6, <1>7

LEMMA ParsedStep ==
  ASSUME ReadInv, TypeOK, ParserInv, Parsed, Laid(text, items, frames, Pos, Going)
  PROVE  /\ Laid(text', items', frames', Pos', Going')
         /\ pc' = "accepted" => frames' = << >> /\ \A k \in DOMAIN items' : Complete(text', items', k)
<1>1. /\ pc = "parsed" /\ UNCHANGED <<text, offset, frames, items>>
      /\ IF frames = << >> THEN pc' = "accepted" ELSE pc' = "skip" /\ after' = "more"
  BY DEF Parsed, SkipTo, tree
<1>2. Pos = offset /\ Going = "parsed" /\ Pos \in Nat /\ offset \in Nat
  BY <1>1, PosIs DEF Going, ReadInv
<1>3. /\ frames # << >> => Laid(text, items, frames, Pos, "more")
      /\ frames = << >> =>
           /\ Laid(text, items, frames, Pos, "accepted")
           /\ \A k \in DOMAIN items : Complete(text, items, k)
  BY <1>2, TreeIs, ParsedLaid
<1>4. Pos' = Pos
  <2>1. text # << >> /\ Last(text) = "end" => offset' < Len(text)
    BY <1>1, <1>2 DEF Laid, Nested
  <2> QED
    BY <1>1, <1>2, <2>1, PosNext
<1>5. Going' = IF frames = << >> THEN "accepted" ELSE "more"
  BY <1>1 DEF Going
<1> QED
  BY <1>1, <1>3, <1>4, <1>5

(* A step of the parser keeps what is known of the places of the items.    *)
LEMMA ParseLaid ==
  ASSUME TreeInv, LayoutInv, Parse
  PROVE  /\ pc' \in Parsing \ {"start"} => Laid(text', items', frames', Pos', Going')
         /\ pc' = "accepted" => frames' = << >> /\ \A k \in DOMAIN items' : Complete(text', items', k)
<1>0. ReadInv /\ TypeOK /\ ParserInv
  BY DEF TreeInv
<1>1. pc \in Parsing \ {"start"} => Laid(text, items, frames, Pos, Going)
  BY DEF LayoutInv
<1> HIDE DEF Laid, Pos, Going
<1> USE DEF Parsing, Reading
<1>2. CASE Look
  <2>1. pc \in Parsing \ {"start"} /\ pc' # "accepted"
    BY <1>2 DEF Look
  <2> QED
    BY <1>0, <1>1, <1>2, <2>1, LookStep
<1>3. CASE Start
  <2>1. pc' \in {"bom", "fail"}
    BY <1>3 DEF Start, Unallocated
  <2> QED
    BY <1>0, <1>3, <2>1, StartStep
<1>4. CASE SkipBom
  <2>1. pc \in Parsing \ {"start"} /\ pc' = "skip"
    BY <1>4 DEF SkipBom, SkipTo
  <2> QED
    BY <1>0, <1>1, <1>4, <2>1, BomStep
<1>5. CASE SkipOver
  <2>1. pc \in Parsing \ {"start"} /\ pc' = "skip"
    BY <1>5 DEF SkipOver
  <2> QED
    BY <1>0, <1>1, <1>5, <2>1, OverStep
<1>6. CASE SkipDone
  <2>1. pc \in Parsing \ {"start"} /\ pc' # "accepted"
    BY <1>0, <1>6 DEF SkipDone, ReadInv
  <2> QED
    BY <1>0, <1>1, <1>6, <2>1, DoneStep
<1>7. CASE ParseWord \/ ParseNumber \/ ParseString
  <2>1. pc \in Parsing \ {"start"} /\ pc' = "parsed"
    BY <1>7 DEF ParseWord, ParseNumber, ParseString, ParseAs
  <2> QED
    BY <1>0, <1>1, <1>7, <2>1, ValueStep
<1>8. CASE ParseOpen
  <2>1. pc \in Parsing \ {"start"} /\ pc' = "skip"
    BY <1>8 DEF ParseOpen, SkipTo
  <2> QED
    BY <1>0, <1>1, <1>8, <2>1, OpenStep
<1>9. CASE ParseStringFails \/ ParseNothing \/ Fail
  <2>1. pc' \in {"fail", "rejected"}
    BY <1>9 DEF ParseStringFails, ParseNothing, Unallocated, Fail
  <2> QED
    BY <2>1
<1>10. CASE Opened \/ More
  <2>1. pc \in Parsing \ {"start"} /\ pc' \in {"parsed", "item", "fail"}
    BY <1>10 DEF Opened, More, Close
  <2> QED
    BY <1>0, <1>1, <1>10, <2>1, OpenedStep
<1>11. CASE NextItem
  <2>1. pc \in Parsing \ {"start"} /\ pc' \in {"skip", "fail"}
    BY <1>11 DEF NextItem, SkipTo, Unallocated
  <2> QED
    BY <1>0, <1>1, <1>11, <2>1, ItemStep
<1>12. CASE ParseName \/ ParseColon
  <2>1. pc \in Parsing \ {"start"} /\ pc' \in {"skip", "fail"}
    BY <1>12 DEF ParseName, ParseColon, SkipTo
  <2> QED
    BY <1>0, <1>1, <1>12, <2>1, MemberStep
<1>13. CASE Parsed
  <2>1. pc \in Parsing \ {"start"}
    BY <1>13 DEF Parsed
  <2> QED
    BY <1>0, <1>1, <1>13, <2>1, ParsedStep
<1> QED
  BY <1>2, <1>3, <1>4, <1>5, <1>6, <1>7, <1>8, <1>9, <1>10, <1>11, <1>12, <1>13 DEF Parse

-----------------------------------------------------------------------------
(* The printer follows the items through the text.                         *)

JoinedAt(s, a, b, c) == Spelled(s, a, c) = Spelled(s, a, b) \o Spelled(s, b, c)

LEMMA Joins ==
  ASSUME NEW s \in Seq(Token), NEW a \in Nat, NEW b \in Nat, NEW c \in Nat,
         a <= b, b <= c, c <= Len(s)
  PROVE  JoinedAt(s, a, b, c)
BY SpelledJoin, SMTT(30) DEF JoinedAt

(* What is printed, and what is to be printed next, as far as b ...        *)
Upon(s, a, b, out, rest) ==
  out \in Seq(Token) /\ rest \in Seq(Token) /\ out \o rest = Spelled(s, a, b)
Gap(s, b, c, x) == x \in Seq(Token) /\ Spelled(s, b, c) = x

(* ... and what follows that.                                              *)
LEMMA Follows ==
  ASSUME NEW s \in Seq(Token), NEW a \in Nat, NEW b \in Nat, NEW c \in Nat,
         a <= b, b <= c, c <= Len(s), NEW out, NEW rest,
         Upon(s, a, b, out, << >>), Gap(s, b, c, rest)
  PROVE  Upon(s, a, c, out, rest)
<1>1. JoinedAt(s, a, b, c)
  BY Joins
<1>2. out \o << >> = out
  BY DEF Upon
<1> DEFINE z == << >>
<1>3. out \o z = Spelled(s, a, b) /\ out \o z = out /\ out \in Seq(Token)
  BY <1>2, Zenon DEF Upon
<1> HIDE DEF z
<1> QED
  BY <1>1, <1>3, Zenon DEF Upon, Gap, JoinedAt

(* It is written.                                                          *)
LEMMA Writes ==
  ASSUME NEW s, NEW a, NEW b, NEW out, NEW x, NEW y, x \in Seq(Token), y \in Seq(Token),
         Upon(s, a, b, out, x \o y)
  PROVE  Upon(s, a, b, out \o x, y)
<1>1. out \in Seq(Token) /\ out \o (x \o y) = Spelled(s, a, b)
  BY Zenon DEF Upon
<1>2. (out \o x) \o y = out \o (x \o y) /\ out \o x \in Seq(Token)
  <2>1. out \in Seq(Token)
    BY <1>1
  <2> QED
    BY <2>1, ST!ConcatAssociative
<1> QED
  BY <1>1, <1>2, Zenon DEF Upon

LEMMA WritesAll ==
  ASSUME NEW s, NEW a, NEW b, NEW out, NEW x, Upon(s, a, b, out, x)
  PROVE  Upon(s, a, b, out \o x, << >>)
<1>1. out \in Seq(Token) /\ x \in Seq(Token) /\ << >> \in Seq(Token)
  BY DEF Upon
<1>2. x \o << >> = x
  BY <1>1
<1>3. Upon(s, a, b, out, x \o << >>)
  BY <1>2
<1> DEFINE z == << >>
<1>4. z \in Seq(Token) /\ Upon(s, a, b, out, x \o z)
  BY <1>1, <1>3
<1> HIDE DEF z
<1>5. Upon(s, a, b, out \o x, z)
  BY <1>1, <1>4, Writes
<1> QED
  BY <1>5 DEF z

LEMMA AppendIs ==
  ASSUME NEW out \in Seq(Token), NEW x \in Token
  PROVE  Append(out, x) = out \o <<x>> /\ <<x>> \in Seq(Token)
<1>1. <<x>> \in Seq(Token)
  OBVIOUS
<1> QED
  BY <1>1, ST!AppendIsConcat

(* An item that is complete.                                               *)
LEMMA CompleteSpan ==
  ASSUME NEW s, NEW r, Tree(s, r), NEW k \in DOMAIN r, Complete(s, r, k)
  PROVE  /\ r[k].from \in Nat /\ r[k].to \in Nat /\ Len(s) \in Nat
         /\ r[k].from + 1 <= r[k].to /\ r[k].to <= Len(s)
         /\ Spelled(s, r[k].from, r[k].from + 1) = <<First(r[k].type)>>
         /\ r[k].type \notin Container => r[k].to = r[k].from + 1
<1>1. r[k].from \in Nat /\ r[k].to \in Nat /\ Len(s) \in Nat
  BY TreeItem
<1>2. CASE r[k].type \in Container
  <2>1. Closed(s, r, k)
    BY <1>2 DEF Complete
  <2>2. r[k].from < r[k].to
    BY <2>1 DEF Closed, Upto
  <2> QED
    BY <1>1, <1>2, <2>2 DEF Complete, Begun
<1>3. CASE r[k].type \notin Container
  BY <1>1, <1>3 DEF Complete, Begun
<1> QED
  BY <1>2, <1>3

(* Between an item and the next one, and behind the last.                  *)
LEMMA FirstBelow ==
  ASSUME NEW s, NEW r, Tree(s, r), NEW c \in DOMAIN r, NEW k, k \in Below(r, c),
         \A j \in Below(r, c) : k <= j, Complete(s, r, k)
  PROVE  /\ r[c].from + 1 <= r[k].from
         /\ Spelled(s, r[c].from + 1, r[k].from) = Lead(r, c)
<1>1. k \in DOMAIN r /\ r[k].parent = c /\ c # 0 /\ r[c].from \in Nat /\ r[k].from \in Nat
  <2>1. DOMAIN r = 1 .. Len(r)
    BY TreeItem
  <2>2. k \in DOMAIN r /\ r[k].parent = c
    BY DEF Below
  <2> QED
    BY <2>1, <2>2, TreeItem
<1>2. Elder(r, k) = {}
  <2>1. DOMAIN r = 1 .. Len(r) /\ Len(r) \in Nat
    BY TreeItem
  <2> QED
    BY <1>1, <2>1 DEF Elder, Below
<1> DEFINE l == Lead(r, c)
           m == <<",">> \o l
           S == Elder(r, k)
<1>3. Upto(s, r, S, c, r[k].from, l, m)
  BY <1>1, Zenon DEF Complete, Begun, Behind
<1>4. S = {}
  BY <1>2
<1> HIDE DEF l, m, S
<1>5. r[c].from < r[k].from /\ Spelled(s, r[c].from + 1, r[k].from) = l
  BY <1>3, <1>4 DEF Upto
<1> QED
  BY <1>1, <1>5 DEF l

LEMMA NextBelow ==
  ASSUME NEW s, NEW r, Tree(s, r), NEW c \in DOMAIN r, NEW k, k \in Below(r, c),
         NEW j, j \in Below(r, c), j < k,
         \A i \in Below(r, c) : j < i => k <= i, Complete(s, r, k)
  PROVE  /\ r[j].to <= r[k].from
         /\ Spelled(s, r[j].to, r[k].from) = <<Comma>> \o Lead(r, c)
<1>1. /\ k \in DOMAIN r /\ r[k].parent = c /\ c # 0 /\ DOMAIN r = 1 .. Len(r) /\ Len(r) \in Nat
  <2>1. DOMAIN r = 1 .. Len(r) /\ Len(r) \in Nat
    BY TreeItem
  <2>2. k \in DOMAIN r /\ r[k].parent = c
    BY DEF Below
  <2> QED
    BY <2>1, <2>2
<1> DEFINE l == Lead(r, c)
           m == <<Comma>> \o l
           S == Elder(r, k)
<1>2. j \in S /\ \A i \in S : i <= j
  <2>1. \A i \in S : i \in Below(r, c) /\ i < k /\ i \in Nat
    BY <1>1 DEF Elder, Below
  <2>2. j \in S /\ j \in Nat
    BY <1>1 DEF Elder, Below
  <2> QED
    BY <1>1, <2>1, <2>2
<1>3. Upto(s, r, S, c, r[k].from, l, m)
  BY <1>1, Zenon DEF Complete, Begun, Behind, Comma
<1> HIDE DEF l, m, S
<1>4. r[j].to <= r[k].from /\ Spelled(s, r[j].to, r[k].from) = m
  BY <1>2, <1>3 DEF Upto
<1> QED
  BY <1>4 DEF l, m

LEMMA NoneBelow ==
  ASSUME NEW s, NEW r, Tree(s, r), NEW c \in DOMAIN r, Complete(s, r, c), r[c].type \in Container,
         Below(r, c) = {}
  PROVE  Spelled(s, r[c].from + 1, r[c].to) = <<Closing[r[c].type]>>
<1>1. Closed(s, r, c)
  BY DEF Complete
<1> QED
  BY <1>1 DEF Closed, Upto

LEMMA LastBelow ==
  ASSUME NEW s, NEW r, Tree(s, r), NEW c \in DOMAIN r, Complete(s, r, c), r[c].type \in Container,
         NEW j, j \in Below(r, c), \A i \in Below(r, c) : i <= j
  PROVE  r[j].to <= r[c].to /\ Spelled(s, r[j].to, r[c].to) = <<Closing[r[c].type]>>
<1>1. Closed(s, r, c)
  BY DEF Complete
<1> QED
  BY <1>1 DEF Closed, Upto

(* The odds and the containers around the item that is printed.            *)
LEMMA OddsIn ==
  ASSUME NEW s, NEW r, Tree(s, r), NEW f \in Seq(DOMAIN r), NEW k \in DOMAIN r
  PROVE  Odds(f, k) \in DOMAIN r
<1>1. f # << >> => 1 \in DOMAIN f
  OBVIOUS
<1> QED
  BY <1>1 DEF Odds

Whole(s, r) == Tree(s, r) /\ \A k \in DOMAIN r : Complete(s, r, k)

(* The printer at k in the frames f, going on with g.                      *)
Prints(s, r, f, k, out, pend, g) == Stacked(r, f, k, g) /\ Written(s, r, f, k, out, pend, g)

(* Where the odds begin, and what is behind that.                          *)
LEMMA Bounds ==
  ASSUME NEW s, NEW r, Whole(s, r), NEW f \in Seq(DOMAIN r), NEW k \in DOMAIN r, NEW g,
         Stacked(r, f, k, g)
  PROVE  /\ Tree(s, r) /\ s \in Seq(Token) /\ Len(s) \in Nat
         /\ r[Odds(f, k)].from \in Nat /\ r[k].from \in Nat /\ r[k].to \in Nat
         /\ r[Odds(f, k)].from <= r[k].from
         /\ r[k].from + 1 <= r[k].to /\ r[k].to <= Len(s)
         /\ f # << >> =>
              /\ Last(f) \in DOMAIN r /\ r[Last(f)].from \in Nat /\ r[Last(f)].to \in Nat
              /\ r[Last(f)].type \in Container /\ r[Odds(f, k)].from <= r[Last(f)].from
              /\ r[Last(f)].from + 1 <= r[Last(f)].to /\ r[Last(f)].to <= Len(s)
<1>1. Tree(s, r) /\ \A j \in DOMAIN r : Complete(s, r, j)
  BY DEF Whole
<1>2. s \in Seq(Token) /\ Len(s) \in Nat
  BY <1>1 DEF Tree
<1>3. Odds(f, k) \in DOMAIN r
  BY <1>1, OddsIn
<1>4. ASSUME NEW j \in DOMAIN r
      PROVE  r[j].from \in Nat /\ r[j].to \in Nat /\ r[j].from + 1 <= r[j].to /\ r[j].to <= Len(s)
  BY <1>1, CompleteSpan
<1>5. ASSUME f # << >>
      PROVE  /\ Last(f) \in DOMAIN r /\ r[Last(f)].type \in Container
             /\ r[Odds(f, k)].from <= r[Last(f)].from
  <2>1. Last(f) = f[Len(f)] /\ Len(f) \in DOMAIN f /\ Last(f) \in DOMAIN r
    BY <1>1, <1>5, FrameIn
  <2> QED
    BY <2>1 DEF Stacked
<1>6. r[Odds(f, k)].from <= r[k].from
  BY DEF Stacked
<1> QED
  BY <1>1, <1>2, <1>3, <1>4, <1>5, <1>6

(* The odds are about to be printed.                                       *)
LEMMA StartPrints ==
  ASSUME NEW s, NEW r, Whole(s, r), NEW k \in DOMAIN r
  PROVE  Prints(s, r, << >>, k, << >>, << >>, "print")
<1> DEFINE z == << >>
<1>1. z \in Seq(Token) /\ z \o z = z /\ DOMAIN z = {} /\ Odds(z, k) = k
  BY DEF Odds
<1>2. r[k].from \in Nat
  BY TreeItem DEF Whole
<1>3. Spelled(s, r[k].from, r[k].from) = z
  BY <1>2, SpelledNone
<1>4. r[k].from <= r[k].from
  BY <1>2
<1> HIDE DEF z
<1>5. Stacked(r, z, k, "print")
  <2>1. z = << >>
    BY DEF z
  <2> QED
    BY <1>1, <1>4, <2>1 DEF Stacked
<1>6. Written(s, r, z, k, z, z, "print")
  <2>1. z = << >>
    BY DEF z
  <2> QED
    BY <1>1, <1>3, <2>1, Zenon DEF Written
<1> QED
  BY <1>5, <1>6 DEF Prints, z

(* A scalar is printed.                                                    *)
LEMMA ScalarPrints ==
  ASSUME NEW s, NEW r, Whole(s, r), NEW f \in Seq(DOMAIN r), NEW k \in DOMAIN r,
         NEW out, NEW pend, Prints(s, r, f, k, out, pend, "print"),
         r[k].type \notin Container, NEW x \in Token, x = Shown(r[k].type)
  PROVE  /\ Prints(s, r, f, k, out, <<x>>, "printed")
         /\ Prints(s, r, f, k, out \o <<x>>, << >>, "printed")
<1>1. Stacked(r, f, k, "print") /\ Written(s, r, f, k, out, pend, "print")
  BY DEF Prints
<1> DEFINE a == r[Odds(f, k)].from
           y == <<x>>
           z == << >>
<1>2. /\ Tree(s, r) /\ s \in Seq(Token) /\ a \in Nat /\ r[k].from \in Nat /\ r[k].to \in Nat
      /\ a <= r[k].from /\ r[k].from <= r[k].to /\ r[k].to <= Len(s)
  <2>1. /\ Tree(s, r) /\ s \in Seq(Token) /\ a \in Nat /\ r[k].from \in Nat /\ r[k].to \in Nat
        /\ a <= r[k].from /\ r[k].from + 1 <= r[k].to /\ r[k].to <= Len(s)
    BY <1>1, Bounds
  <2> HIDE DEF a
  <2> QED
    BY <2>1
<1>3. Gap(s, r[k].from, r[k].to, y)
  <2>1. First(r[k].type) = x /\ Complete(s, r, k)
    BY DEF First, Whole
  <2>2. Spelled(s, r[k].from, r[k].from + 1) = <<First(r[k].type)>> /\ r[k].to = r[k].from + 1
    BY <1>2, <2>1, CompleteSpan
  <2>3. y \in Seq(Token)
    OBVIOUS
  <2> QED
    BY <2>1, <2>2, <2>3, Zenon DEF Gap
<1>4. z \in Seq(Token) /\ Upon(s, a, r[k].from, out, z)
  BY <1>1, Zenon DEF Written, Quiet, Upon
<1> HIDE DEF a, y
<1>5. Upon(s, a, r[k].to, out, y)
  BY <1>2, <1>3, <1>4, Follows
<1>6. Upon(s, a, r[k].to, out \o y, z)
  BY <1>5, WritesAll
<1> HIDE DEF z
<1>7. Written(s, r, f, k, out, y, "printed") /\ Written(s, r, f, k, out \o y, z, "printed")
  <2>1. z = << >>
    BY DEF z
  <2> QED
    BY <1>5, <1>6, <2>1, Zenon DEF Written, Quiet, Upon, a
<1>8. Stacked(r, f, k, "printed")
  BY <1>1, Zenon DEF Stacked
<1> QED
  BY <1>7, <1>8 DEF Prints, y, z

(* A container is opened.                                                  *)
Pushed(f, k, g) ==
  /\ DOMAIN g = 1 .. Len(f) + 1 /\ Len(f) \in Nat /\ DOMAIN f = 1 .. Len(f)
  /\ \A i \in DOMAIN f : g[i] = f[i]
  /\ g[Len(f) + 1] = k /\ g # << >> /\ Last(g) = k
  /\ Odds(g, k) = Odds(f, k)

LEMMA PushIs ==
  ASSUME NEW r, NEW f \in Seq(DOMAIN r), NEW k \in DOMAIN r
  PROVE  Pushed(f, k, Append(f, k))
<1> DEFINE g == Append(f, k)
<1>1. /\ Len(g) = Len(f) + 1 /\ DOMAIN g = 1 .. Len(f) + 1 /\ g[Len(f) + 1] = k
      /\ Len(f) \in Nat /\ DOMAIN f = 1 .. Len(f) /\ g \in Seq(DOMAIN r) /\ g # << >>
      /\ \A i \in DOMAIN f : g[i] = f[i]
  OBVIOUS
<1> HIDE DEF g
<1>2. Last(g) = k
  BY <1>1 DEF Last
<1>3. f = << >> => g[1] = k
  BY <1>1
<1>4. f # << >> => g[1] = f[1]
  BY <1>1
<1>5. Odds(g, k) = Odds(f, k)
  BY <1>1, <1>3, <1>4, Zenon DEF Odds
<1> QED
  BY <1>1, <1>2, <1>5 DEF Pushed, g

LEMMA OpenPrints ==
  ASSUME NEW s, NEW r, Whole(s, r), NEW f \in Seq(DOMAIN r), NEW k \in DOMAIN r,
         NEW out, NEW pend, Prints(s, r, f, k, out, pend, "print"),
         r[k].type \in Container, NEW x \in Token, x = First(r[k].type)
  PROVE  Prints(s, r, Append(f, k), k, out \o <<x>>, << >>, "first")
<1>1. Stacked(r, f, k, "print") /\ Written(s, r, f, k, out, pend, "print")
  BY DEF Prints
<1> DEFINE o == Odds(f, k)
           a == r[o].from
           y == <<x>>
           z == << >>
           g == Append(f, k)
           b == r[k].from + 1
<1>2. /\ Tree(s, r) /\ s \in Seq(Token) /\ a \in Nat /\ r[k].from \in Nat /\ b \in Nat
      /\ a <= r[k].from /\ r[k].from <= b /\ b <= Len(s)
  <2>1. /\ Tree(s, r) /\ s \in Seq(Token) /\ a \in Nat /\ r[k].from \in Nat /\ r[k].to \in Nat
        /\ a <= r[k].from /\ r[k].from + 1 <= r[k].to /\ r[k].to <= Len(s) /\ Len(s) \in Nat
    BY <1>1, Bounds
  <2> HIDE DEF a
  <2> QED
    BY <2>1
<1>3. Gap(s, r[k].from, b, y)
  <2>1. Complete(s, r, k)
    BY DEF Whole
  <2>2. Spelled(s, r[k].from, r[k].from + 1) = <<First(r[k].type)>>
    BY <1>2, <2>1, CompleteSpan
  <2>3. y \in Seq(Token)
    OBVIOUS
  <2> QED
    BY <2>2, <2>3, Zenon DEF Gap
<1>4. z \in Seq(Token) /\ Upon(s, a, r[k].from, out, z)
  BY <1>1, Zenon DEF Written, Quiet, Upon
<1>5. /\ DOMAIN g = 1 .. Len(f) + 1 /\ Len(f) \in Nat /\ DOMAIN f = 1 .. Len(f)
      /\ \A i \in DOMAIN f : g[i] = f[i]
      /\ g[Len(f) + 1] = k /\ g # << >> /\ Last(g) = k /\ Odds(g, k) = o
  <2>1. Pushed(f, k, g)
    BY PushIs
  <2> HIDE DEF g
  <2> QED
    BY <2>1 DEF Pushed
<1> HIDE DEF a, y, b, g, o
<1>6. Upon(s, a, b, out, y)
  BY <1>2, <1>3, <1>4, Follows
<1>7. Upon(s, a, b, out \o y, z)
  BY <1>6, WritesAll
<1>8. Written(s, r, g, k, out \o y, z, "first")
  <2>1. z = << >>
    OBVIOUS
  <2> HIDE DEF z
  <2> QED
    BY <1>5, <1>7, <2>1, Zenon DEF Written, Quiet, Upon, a, b
<1>9. Stacked(r, g, k, "first")
  <2>0. \A i \in DOMAIN f : /\ r[f[i]].type \in Container /\ a <= r[f[i]].from
                            /\ i > 1 => r[f[i]].parent = f[i - 1]
    BY <1>1 DEF Stacked, a, o
  <2>1. ASSUME NEW i \in DOMAIN g
        PROVE  /\ r[g[i]].type \in Container /\ a <= r[g[i]].from
               /\ i > 1 => r[g[i]].parent = g[i - 1]
    <3>1. CASE i \in DOMAIN f
      <4>1. g[i] = f[i] /\ (i > 1 => g[i - 1] = f[i - 1])
        BY <1>5, <3>1
      <4> QED
        BY <2>0, <3>1, <4>1
    <3>2. CASE i = Len(f) + 1
      <4>1. g[i] = k
        BY <1>5, <3>2
      <4>2. i > 1 => g[i - 1] = Last(f) /\ r[k].parent = Last(f)
        <5>1. ASSUME i > 1 PROVE f # << >> /\ Len(f) \in DOMAIN f /\ i - 1 = Len(f)
          BY <1>5, <3>2, <5>1
        <5>2. f # << >> => k \in Below(r, Last(f))
          BY <1>1 DEF Stacked
        <5> QED
          BY <1>5, <3>2, <5>1, <5>2 DEF Below, Last
      <4> QED
        BY <1>2, <4>1, <4>2
    <3> QED
      BY <1>5, <3>1, <3>2
  <2> QED
    BY <1>2, <1>5, <2>1, Zenon DEF Stacked, a
<1> QED
  BY <1>8, <1>9 DEF Prints, y, z, g

(* The first item in a container, or none.                                 *)
LEMMA FirstPrints ==
  ASSUME NEW s, NEW r, Whole(s, r), NEW f \in Seq(DOMAIN r), f # << >>, NEW k \in DOMAIN r,
         NEW out, NEW pend, Prints(s, r, f, k, out, pend, "first"),
         NEW j, j \in Below(r, Last(f)), \A i \in Below(r, Last(f)) : j <= i
  PROVE  Prints(s, r, f, j, out, << >>, IF r[Last(f)].type = "array" THEN "print" ELSE "key")
<1>1. Stacked(r, f, k, "first") /\ Written(s, r, f, k, out, pend, "first")
  BY DEF Prints
<1> DEFINE c == Last(f)
           a == r[Odds(f, k)].from
           b == r[c].from + 1
           z == << >>
           l == Lead(r, c)
<1>2. j \in DOMAIN r
  BY DEF Below
<1>3. /\ Tree(s, r) /\ s \in Seq(Token) /\ a \in Nat /\ b \in Nat /\ a <= b
      /\ c \in DOMAIN r /\ r[c].type \in Container
      /\ r[j].from \in Nat /\ b <= r[j].from /\ a <= r[j].from /\ r[j].from <= Len(s)
      /\ Complete(s, r, j) /\ Spelled(s, b, r[j].from) = l
  <2>1. /\ Tree(s, r) /\ s \in Seq(Token) /\ a \in Nat /\ Len(s) \in Nat
        /\ c \in DOMAIN r /\ r[c].type \in Container /\ r[c].from \in Nat /\ a <= r[c].from
    BY <1>1, Bounds
  <2>2. Complete(s, r, j)
    BY <1>2 DEF Whole
  <2>3. r[c].from + 1 <= r[j].from /\ Spelled(s, r[c].from + 1, r[j].from) = Lead(r, c)
    BY <2>1, <2>2, FirstBelow
  <2>4. r[j].from \in Nat /\ r[j].to \in Nat /\ r[j].from + 1 <= r[j].to /\ r[j].to <= Len(s)
    BY <1>2, <2>1, <2>2, CompleteSpan
  <2> HIDE DEF a, c
  <2> QED
    BY <2>1, <2>2, <2>3, <2>4
<1>4. z \in Seq(Token) /\ Upon(s, a, b, out, z)
  BY <1>1, Zenon DEF Written, Quiet, Upon
<1>5. Gap(s, b, r[j].from, l)
  <2>1. l \in Seq(Token)
    BY LeadType
  <2> QED
    BY <1>3, <2>1, Zenon DEF Gap
<1> HIDE DEF a, b, z, l
<1>6. Upon(s, a, r[j].from, out, l)
  BY <1>3, <1>4, <1>5, Follows DEF z
<1>7. Odds(f, j) = Odds(f, k)
  BY DEF Odds
<1>8. \A g \in {"print", "key"} : Stacked(r, f, j, g)
  BY <1>1, <1>3, <1>7, Zenon DEF Stacked, a
<1>9. CASE r[c].type = "array"
  <2>1. l = << >>
    BY <1>9 DEF Lead, l
  <2>2. Written(s, r, f, j, out, << >>, "print")
    BY <1>4, <1>6, <1>7, <2>1, Zenon DEF Written, Quiet, Upon, z, a
  <2> QED
    BY <1>8, <1>9, <2>2 DEF Prints
<1>10. CASE r[c].type # "array"
  <2>1. l = <<"str", ":">>
    BY <1>10 DEF Lead, l
  <2>2. Written(s, r, f, j, out, << >>, "key")
    BY <1>4, <1>6, <1>7, <2>1, Zenon DEF Written, Quiet, Upon, z, a
  <2> QED
    BY <1>8, <1>10, <2>2 DEF Prints
<1> QED
  BY <1>9, <1>10

LEMMA NonePrints ==
  ASSUME NEW s, NEW r, Whole(s, r), NEW f \in Seq(DOMAIN r), f # << >>, NEW k \in DOMAIN r,
         NEW out, NEW pend, Prints(s, r, f, k, out, pend, "first"), Below(r, Last(f)) = {}
  PROVE  Prints(s, r, f, k, out, << >>, "close")
<1>1. Stacked(r, f, k, "first") /\ Written(s, r, f, k, out, pend, "first")
  BY DEF Prints
<1> DEFINE c == Last(f)
           a == r[Odds(f, k)].from
           b == r[c].from + 1
           z == << >>
           y == <<Closing[r[c].type]>>
<1>2. /\ Tree(s, r) /\ s \in Seq(Token) /\ a \in Nat /\ b \in Nat /\ a <= b
      /\ c \in DOMAIN r /\ r[c].type \in Container
      /\ r[c].to \in Nat /\ b <= r[c].to /\ r[c].to <= Len(s) /\ Complete(s, r, c)
  <2>1. /\ Tree(s, r) /\ s \in Seq(Token) /\ a \in Nat /\ Len(s) \in Nat
        /\ c \in DOMAIN r /\ r[c].type \in Container /\ r[c].from \in Nat /\ a <= r[c].from
        /\ r[c].to \in Nat /\ r[c].from + 1 <= r[c].to /\ r[c].to <= Len(s)
    BY <1>1, Bounds
  <2>2. Complete(s, r, c)
    BY <2>1 DEF Whole
  <2> HIDE DEF a, c
  <2> QED
    BY <2>1, <2>2
<1>3. z \in Seq(Token) /\ Upon(s, a, b, out, z)
  BY <1>1, Zenon DEF Written, Quiet, Upon
<1>4. Gap(s, b, r[c].to, y)
  <2>1. y \in Seq(Token)
    BY <1>2, ClosingIs
  <2>2. Spelled(s, r[c].from + 1, r[c].to) = <<Closing[r[c].type]>>
    BY <1>2, NoneBelow
  <2> QED
    BY <2>1, <2>2, Zenon DEF Gap
<1> HIDE DEF a, b, z, y
<1>5. Upon(s, a, r[c].to, out, y)
  BY <1>2, <1>3, <1>4, Follows DEF z
<1>6. Stacked(r, f, k, "close")
  BY <1>1, Zenon DEF Stacked
<1>7. Written(s, r, f, k, out, << >>, "close")
  BY <1>3, <1>5, Zenon DEF Written, Quiet, Upon, z, a, y
<1> QED
  BY <1>6, <1>7 DEF Prints

(* The next item in a container, or none.                                  *)
LEMMA NextPrints ==
  ASSUME NEW s, NEW r, Whole(s, r), NEW f \in Seq(DOMAIN r), f # << >>, NEW k \in DOMAIN r,
         NEW out, NEW pend, Prints(s, r, f, k, out, pend, "next"),
         NEW j, j \in Below(r, Last(f)), k < j, \A i \in Below(r, Last(f)) : k < i => j <= i
  PROVE  Prints(s, r, f, j, out \o <<Comma>>, << >>,
                IF r[Last(f)].type = "array" THEN "print" ELSE "key")
<1>1. Stacked(r, f, k, "next") /\ Written(s, r, f, k, out, pend, "next")
  BY DEF Prints
<1> DEFINE c == Last(f)
           a == r[Odds(f, k)].from
           z == << >>
           y == <<Comma>>
           l == Lead(r, c)
<1>2. j \in DOMAIN r /\ k \in Below(r, c)
  BY <1>1, Zenon DEF Below, Stacked
<1>3. /\ Tree(s, r) /\ s \in Seq(Token) /\ a \in Nat /\ r[k].to \in Nat /\ a <= r[k].to
      /\ c \in DOMAIN r /\ r[c].type \in Container
      /\ r[j].from \in Nat /\ r[k].to <= r[j].from /\ a <= r[j].from /\ r[j].from <= Len(s)
      /\ Complete(s, r, j) /\ Spelled(s, r[k].to, r[j].from) = y \o l
  <2>1. /\ Tree(s, r) /\ s \in Seq(Token) /\ a \in Nat /\ Len(s) \in Nat
        /\ c \in DOMAIN r /\ r[c].type \in Container
        /\ a <= r[k].from /\ r[k].from \in Nat /\ r[k].to \in Nat /\ r[k].from + 1 <= r[k].to
    BY <1>1, Bounds
  <2>2. Complete(s, r, j)
    BY <1>2 DEF Whole
  <2>3. r[k].to <= r[j].from /\ Spelled(s, r[k].to, r[j].from) = y \o l
    BY <1>2, <2>1, <2>2, NextBelow
  <2>4. r[j].from \in Nat /\ r[j].to \in Nat /\ r[j].from + 1 <= r[j].to /\ r[j].to <= Len(s)
    BY <1>2, <2>1, <2>2, CompleteSpan
  <2> HIDE DEF a, c, y, l
  <2> QED
    BY <2>1, <2>2, <2>3, <2>4, SMTT(30)
<1>4. z \in Seq(Token) /\ Upon(s, a, r[k].to, out, z)
  BY <1>1, Zenon DEF Written, Quiet, Upon
<1>5. y \in Seq(Token) /\ l \in Seq(Token)
  BY LeadType, Signs
<1>6. Gap(s, r[k].to, r[j].from, y \o l)
  <2> HIDE DEF y, l
  <2>1. y \o l \in Seq(Token)
    BY <1>5
  <2> QED
    BY <1>3, <2>1, Zenon DEF Gap
<1> HIDE DEF a, z, y, l
<1>7. Upon(s, a, r[j].from, out, y \o l)
  BY <1>3, <1>4, <1>6, Follows DEF z
<1>8. Upon(s, a, r[j].from, out \o y, l)
  BY <1>5, <1>7, Writes
<1>9. Odds(f, j) = Odds(f, k)
  BY DEF Odds
<1>10. \A g \in {"print", "key"} : Stacked(r, f, j, g)
  BY <1>1, <1>3, <1>9, Zenon DEF Stacked, a
<1>11. CASE r[c].type = "array"
  <2>1. l = << >>
    BY <1>11 DEF Lead, l
  <2>2. Written(s, r, f, j, out \o y, << >>, "print")
    BY <1>4, <1>8, <1>9, <2>1, Zenon DEF Written, Quiet, Upon, z, a
  <2> QED
    BY <1>10, <1>11, <2>2 DEF Prints, y
<1>12. CASE r[c].type # "array"
  <2>1. l = <<"str", ":">>
    BY <1>12 DEF Lead, l
  <2>2. Written(s, r, f, j, out \o y, << >>, "key")
    BY <1>4, <1>8, <1>9, <2>1, Zenon DEF Written, Quiet, Upon, z, a
  <2> QED
    BY <1>10, <1>12, <2>2 DEF Prints, y
<1> QED
  BY <1>11, <1>12

LEMMA LastPrints ==
  ASSUME NEW s, NEW r, Whole(s, r), NEW f \in Seq(DOMAIN r), f # << >>, NEW k \in DOMAIN r,
         NEW out, NEW pend, Prints(s, r, f, k, out, pend, "next"),
         \A i \in Below(r, Last(f)) : i <= k
  PROVE  Prints(s, r, f, k, out, << >>, "close")
<1>1. Stacked(r, f, k, "next") /\ Written(s, r, f, k, out, pend, "next")
  BY DEF Prints
<1> DEFINE c == Last(f)
           a == r[Odds(f, k)].from
           z == << >>
           y == <<Closing[r[c].type]>>
<1>2. /\ Tree(s, r) /\ s \in Seq(Token) /\ a \in Nat /\ r[k].to \in Nat /\ a <= r[k].to
      /\ c \in DOMAIN r /\ r[c].type \in Container
      /\ r[c].to \in Nat /\ r[c].to <= Len(s) /\ Complete(s, r, c)
  <2>1. /\ Tree(s, r) /\ s \in Seq(Token) /\ a \in Nat /\ Len(s) \in Nat
        /\ c \in DOMAIN r /\ r[c].type \in Container /\ r[c].to \in Nat /\ r[c].to <= Len(s)
        /\ a <= r[k].from /\ r[k].from \in Nat /\ r[k].to \in Nat /\ r[k].from + 1 <= r[k].to
    BY <1>1, Bounds
  <2>2. Complete(s, r, c)
    BY <2>1 DEF Whole
  <2> HIDE DEF a, c
  <2> QED
    BY <2>1, <2>2
<1>3. z \in Seq(Token) /\ Upon(s, a, r[k].to, out, z)
  BY <1>1, Zenon DEF Written, Quiet, Upon
<1>4. r[k].to <= r[c].to /\ Gap(s, r[k].to, r[c].to, y)
  <2>1. y \in Seq(Token)
    BY <1>2, ClosingIs
  <2>2. k \in Below(r, c)
    BY <1>1, Zenon DEF Stacked
  <2>3. r[k].to <= r[c].to /\ Spelled(s, r[k].to, r[c].to) = <<Closing[r[c].type]>>
    BY <1>2, <2>2, LastBelow
  <2> QED
    BY <2>1, <2>3, Zenon DEF Gap
<1> HIDE DEF a, z, y
<1>5. Upon(s, a, r[c].to, out, y)
  BY <1>2, <1>3, <1>4, Follows DEF z
<1>6. Stacked(r, f, k, "close")
  BY <1>1, Zenon DEF Stacked
<1>7. Written(s, r, f, k, out, << >>, "close")
  BY <1>3, <1>5, Zenon DEF Written, Quiet, Upon, z, a, y
<1> QED
  BY <1>6, <1>7 DEF Prints

(* A name, and the colon behind it.                                        *)
LEMMA KeyPrints ==
  ASSUME NEW s, NEW r, NEW f, NEW k, NEW out, NEW pend, Prints(s, r, f, k, out, pend, "key")
  PROVE  Prints(s, r, f, k, out, <<"str">>, "named")
<1>1. Stacked(r, f, k, "key") /\ Written(s, r, f, k, out, pend, "key")
  BY DEF Prints
<1>2. <<"str">> \in Seq(Token)
  BY LeadType
<1>3. Stacked(r, f, k, "named")
  BY <1>1, Zenon DEF Stacked
<1>4. Written(s, r, f, k, out, <<"str">>, "named")
  BY <1>1, <1>2, Zenon DEF Written, Quiet
<1> QED
  BY <1>3, <1>4 DEF Prints

LEMMA NamedPrints ==
  ASSUME NEW s, NEW r, NEW f, NEW k, NEW out, NEW pend, Prints(s, r, f, k, out, pend, "named")
  PROVE  Prints(s, r, f, k, out \o pend, << >>, "assign")
<1>1. Stacked(r, f, k, "named") /\ Written(s, r, f, k, out, pend, "named")
  BY DEF Prints
<1> DEFINE a == r[Odds(f, k)].from
           b == r[k].from
           x == <<"str">>
           y == <<Colon>>
<1>2. x \in Seq(Token) /\ y \in Seq(Token) /\ x \o y = <<"str", Colon>> /\ << >> \in Seq(Token)
      /\ <<"str", Colon>> \in Seq(Token)
  BY PairIs, Signs
<1>3. pend = x
  BY <1>1, Zenon DEF Written
<1>4. Upon(s, a, b, out, x \o y)
  <2>1. Upon(s, a, b, out, <<"str", Colon>>)
    BY <1>1, <1>2, Zenon DEF Written, Upon, Colon
  <2> QED
    BY <1>2, <2>1, Zenon
<1> HIDE DEF a, b, x, y
<1>5. Upon(s, a, b, out \o x, y)
  BY <1>2, <1>4, Writes
<1>6. Written(s, r, f, k, out \o x, << >>, "assign")
  BY <1>2, <1>5, Zenon DEF Written, Quiet, Upon, a, b, y, Colon
<1>7. Stacked(r, f, k, "assign")
  BY <1>1, Zenon DEF Stacked
<1> QED
  BY <1>3, <1>6, <1>7 DEF Prints

LEMMA ColonPrints ==
  ASSUME NEW s, NEW r, NEW f, NEW k, NEW out, NEW pend, Prints(s, r, f, k, out, pend, "assign")
  PROVE  Prints(s, r, f, k, out \o <<":">>, << >>, "print")
<1>1. Stacked(r, f, k, "assign") /\ Written(s, r, f, k, out, pend, "assign")
  BY DEF Prints
<1> DEFINE a == r[Odds(f, k)].from
           b == r[k].from
           y == <<":">>
           z == << >>
<1>2. y \in Seq(Token) /\ z \in Seq(Token)
  BY LeadType
<1>3. Upon(s, a, b, out, y)
  BY <1>1, <1>2, Zenon DEF Written, Upon
<1> HIDE DEF a, b, y
<1>4. Upon(s, a, b, out \o y, z)
  BY <1>3, WritesAll
<1> HIDE DEF z
<1>5. Written(s, r, f, k, out \o y, z, "print")
  BY <1>4, Zenon DEF Written, Quiet, Upon, a, b, z
<1>6. Stacked(r, f, k, "print")
  BY <1>1, Zenon DEF Stacked
<1> QED
  BY <1>5, <1>6 DEF Prints, y, z

(* What is printed is counted.                                             *)
LEMMA CountPrints ==
  ASSUME NEW s, NEW r, NEW f, NEW k, NEW out, NEW pend, Prints(s, r, f, k, out, pend, "printed")
  PROVE  Prints(s, r, f, k, out \o pend, << >>, IF f = << >> THEN "odds" ELSE "next")
<1>1. Stacked(r, f, k, "printed") /\ Written(s, r, f, k, out, pend, "printed")
  BY DEF Prints
<1> DEFINE a == r[Odds(f, k)].from
           b == r[k].to
           z == << >>
<1>2. Upon(s, a, b, out, pend)
  BY <1>1, Zenon DEF Written, Upon
<1> HIDE DEF a, b
<1>3. Upon(s, a, b, out \o pend, z)
  BY <1>2, WritesAll
<1> HIDE DEF z
<1>4. \A g \in {"odds", "next"} : Written(s, r, f, k, out \o pend, z, g)
  BY <1>3, Zenon DEF Written, Quiet, Upon, a, b, z
<1>5. Stacked(r, f, k, "next") /\ (f = << >> => Stacked(r, f, k, "odds"))
  BY <1>1, Zenon DEF Stacked
<1> QED
  BY <1>4, <1>5 DEF Prints, z

(* The text is the odds.                                                   *)
LEMMA CutPrints ==
  ASSUME NEW s, NEW r, NEW f, NEW k, NEW out, NEW pend, Prints(s, r, f, k, out, pend, "odds")
  PROVE  Prints(s, r, f, k, out, pend, "text")
<1>1. Stacked(r, f, k, "odds") /\ Written(s, r, f, k, out, pend, "odds")
  BY DEF Prints
<1>2. Written(s, r, f, k, out, pend, "text")
  BY <1>1, Zenon DEF Written, Quiet
<1>3. Stacked(r, f, k, "text")
  BY <1>1, Zenon DEF Stacked
<1> QED
  BY <1>2, <1>3 DEF Prints

(* A container is closed, and is the item printed.                         *)
Popped(f, e) ==
  /\ Len(f) \in Nat \ {0} /\ DOMAIN f = 1 .. Len(f) /\ Last(f) = f[Len(f)]
  /\ DOMAIN e = 1 .. Len(f) - 1 /\ (e # << >> <=> Len(f) # 1)
  /\ e # << >> => Last(e) = f[Len(f) - 1] /\ Len(f) \in DOMAIN f
  /\ \A i \in DOMAIN e : e[i] = f[i]

LEMMA PopIs ==
  ASSUME NEW r, NEW f \in Seq(DOMAIN r), f # << >>
  PROVE  Popped(f, Front(f))
<1> DEFINE e == Front(f)
<1>1. /\ DOMAIN f = 1 .. Len(f) /\ Len(f) \in Nat \ {0} /\ Last(f) = f[Len(f)]
  BY DEF Last
<1>2. e \in Seq(DOMAIN r) /\ Len(e) = Len(f) - 1 /\ DOMAIN e = 1 .. Len(f) - 1
      /\ \A i \in 1 .. Len(f) - 1 : e[i] = f[i]
  BY <1>1 DEF Front
<1> HIDE DEF e
<1>3. ASSUME NEW x \in Seq(DOMAIN r) PROVE x # << >> <=> Len(x) # 0
  OBVIOUS
<1>4. e # << >> <=> Len(f) # 1
  BY <1>1, <1>2, <1>3
<1>5. ASSUME e # << >> PROVE Last(e) = f[Len(f) - 1] /\ Len(f) \in DOMAIN f
  <2>1. Len(f) - 1 \in 1 .. Len(f) - 1 /\ Len(f) \in DOMAIN f
    BY <1>1, <1>4, <1>5
  <2> QED
    BY <1>2, <2>1 DEF Last
<1> QED
  BY <1>1, <1>2, <1>4, <1>5 DEF Popped, e

LEMMA ClosePrints ==
  ASSUME NEW s, NEW r, Whole(s, r), NEW f \in Seq(DOMAIN r), f # << >>, NEW k \in DOMAIN r,
         NEW out, NEW pend, Prints(s, r, f, k, out, pend, "close")
  PROVE  Prints(s, r, Front(f), Last(f), out, <<Closing[r[Last(f)].type]>>, "printed")
<1>1. Stacked(r, f, k, "close") /\ Written(s, r, f, k, out, pend, "close")
  BY DEF Prints
<1> DEFINE c == Last(f)
           e == Front(f)
           a == r[Odds(f, k)].from
           y == <<Closing[r[c].type]>>
<1>2. /\ c \in DOMAIN r /\ r[c].type \in Container /\ a <= r[c].from
  BY <1>1, Bounds
<1>3. Popped(f, e)
  BY PopIs
<1>4. y \in Seq(Token)
  BY <1>2, ClosingIs
<1>5. Written(s, r, f, k, out, pend, "close") /\ Upon(s, a, r[c].to, out, y)
  BY <1>1, <1>4, Zenon DEF Written, Upon
<1>6. c = f[Len(f)]
  BY <1>3 DEF Popped
<1> HIDE DEF c, e, a, y
<1>7. Odds(e, c) = Odds(f, k)
  <2>1. CASE e = << >>
    <3>1. Len(f) = 1
      BY <1>3, <2>1 DEF Popped
    <3> QED
      BY <1>6, <2>1, <3>1 DEF Odds
  <2>2. CASE e # << >>
    <3>1. 1 \in DOMAIN e
      BY <1>3, <2>2 DEF Popped
    <3>2. e[1] = f[1]
      BY <1>3, <3>1 DEF Popped
    <3> QED
      BY <2>2, <3>2 DEF Odds
  <2> QED
    BY <2>1, <2>2
<1>8. \A i \in DOMAIN f : /\ r[f[i]].type \in Container /\ a <= r[f[i]].from
                          /\ i > 1 => r[f[i]].parent = f[i - 1]
  BY <1>1 DEF Stacked, a
<1>9. ASSUME NEW i \in DOMAIN e
      PROVE  /\ r[e[i]].type \in Container /\ a <= r[e[i]].from
             /\ i > 1 => r[e[i]].parent = e[i - 1]
  <2>1. i \in DOMAIN f /\ e[i] = f[i] /\ (i > 1 => e[i - 1] = f[i - 1])
    BY <1>3 DEF Popped
  <2> QED
    BY <1>8, <2>1
<1>10. e # << >> => c \in Below(r, Last(e))
  <2> SUFFICES ASSUME e # << >> PROVE c \in Below(r, Last(e))
    OBVIOUS
  <2>1. Len(f) \in DOMAIN f /\ Len(f) > 1 /\ Last(e) = f[Len(f) - 1]
    BY <1>3 DEF Popped
  <2>2. r[c].parent = Last(e)
    BY <1>6, <1>8, <2>1
  <2> QED
    BY <1>2, <2>2 DEF Below
<1>11. Stacked(r, e, c, "printed")
  BY <1>2, <1>7, <1>9, <1>10, Zenon DEF Stacked, a
<1>12. Written(s, r, e, c, out, y, "printed")
  BY <1>5, <1>7, Zenon DEF Written, Quiet, Upon, a
<1> QED
  BY <1>11, <1>12 DEF Prints, c, e, y

-----------------------------------------------------------------------------
(* The steps of the printer, each with the lemma above about what it adds. *)

LEMMA PieceIs ==
  ASSUME PrintInv, NEW asked, NEW x, NEW n, NEW count \in Nat, NEW next,
         Piece(asked, x, n, count, next), pc' # "unprinted"
  PROVE  /\ pc' = next
         /\ count # 0 => buf'.out = Append(buf.out, x) /\ buf'.pend = << >>
         /\ count = 0 => buf'.out = buf.out /\ buf'.pend = <<x>>
<1>1. PICK l : pc' = next /\ buf' = Put([buf EXCEPT !.len = l], x, n, count)
  BY DEF Piece
<1>2. DOMAIN buf = {"len", "off", "out", "pend", "bytes", "top"}
  BY DEF PrintInv, NoBuf
<1> QED
  BY <1>1, <1>2 DEF Put

LEMMA CountIs ==
  ASSUME PrintInv, Count
  PROVE  buf'.out = buf.out \o buf.pend /\ buf'.pend = << >>
<1>1. DOMAIN buf = {"len", "off", "out", "pend", "bytes", "top"}
  BY DEF PrintInv, NoBuf
<1> QED
  BY <1>1 DEF Count, UpdateOffset

(* What they have in common: where the printer is, and where it goes on.   *)
PrinterAt ==
  /\ Whole(text, items) /\ frames \in Seq(DOMAIN items) /\ cur \in DOMAIN items
  /\ Prints(text, items, frames, cur, buf.out, buf.pend, pc)
  /\ buf.out \in Seq(Token)
PrintsOn == Prints(text, items, frames', cur', buf'.out, buf'.pend, pc')

LEMMA PrinterIs ==
  ASSUME TreeInv, LayoutInv, pc \in Printing
  PROVE  PrinterAt /\ (pc \in {"first", "key", "named", "assign", "next", "close"} => frames # << >>)
<1>1. TypeOK /\ HeapInv
  BY DEF TreeInv
<1>2. Tree(text, items) /\ frames \in Seq(DOMAIN items)
  BY <1>1, TreeIs
<1>3. cur \in DOMAIN items
  <2>1. cur \in 0 .. Len(items) /\ cur # 0
    BY <1>1 DEF TypeOK, HeapInv
  <2>2. DOMAIN items = 1 .. Len(items) /\ Len(items) \in Nat
    BY <1>2, TreeItem
  <2> QED
    BY <2>1, <2>2
<1>4. Whole(text, items)
  BY <1>2 DEF LayoutInv, Whole, Saving
<1>5. Prints(text, items, frames, cur, buf.out, buf.pend, pc)
  BY DEF LayoutInv, Prints
<1>6. buf.out \in Seq(Token)
  BY <1>5 DEF Prints, Written
<1> QED
  BY <1>1, <1>2, <1>3, <1>4, <1>5, <1>6 DEF PrinterAt, HeapInv

LEMMA TypeIs ==
  /\ \A x \in {"word", "num", "str"} : x \in Token /\ x \notin Container /\ Shown(x) = x
  /\ "inf" \notin Container /\ Shown("inf") = "word"
  /\ "array" \in Container /\ First("array") = "[" /\ "[" \in Token
  /\ "object" \in Container /\ First("object") = "{" /\ "{" \in Token
<1>1. Container = {"array", "object"} /\ Opening["array"] = "[" /\ Opening["object"] = "{"
  BY DEF Container, Opening
<1>2. "[" \in Token /\ "{" \in Token /\ \A x \in {"word", "num", "str"} : x \in Token
  BY DEF Token, Scalar, Word, Number
<1> QED
  BY <1>1, <1>2 DEF Shown, First

LEMMA ScalarStep ==
  ASSUME PrintInv, PrinterAt, PrintWord \/ PrintNumber \/ PrintString, pc' # "unprinted"
  PROVE  PrintsOn
<1>1. UNCHANGED <<frames, cur>> /\ pc = "print"
  BY DEF PrintWord, PrintNumber, PrintString
<1>2. PICK x \in {"word", "num", "str"} :
        /\ items[cur].type \notin Container /\ Shown(items[cur].type) = x /\ pc' = "printed"
        /\ \/ buf'.out = Append(buf.out, x) /\ buf'.pend = << >>
           \/ buf'.out = buf.out /\ buf'.pend = <<x>>
  <2> DEFINE Wrote(x) == /\ pc' = "printed"
                        /\ \/ buf'.out = Append(buf.out, x) /\ buf'.pend = << >>
                           \/ buf'.out = buf.out /\ buf'.pend = <<x>>
  <2>0. 0 \in Nat /\ 4 \in Nat /\ 4 # 0 /\ \A n \in 1 .. 2 : n \in Nat /\ n # 0
    OBVIOUS
  <2>1. CASE PrintWord
    <3>1. PICK n \in 5 .. 6 : Piece(n, "word", n, 0, "printed")
      BY <2>1 DEF PrintWord
    <3>2. items[cur].type = "word"
      BY <2>1 DEF PrintWord
    <3>3. Wrote("word")
      BY <2>0, <3>1, PieceIs, Zenon
    <3> QED
      BY <3>2, <3>3, TypeIs, Zenon
  <2>2. CASE PrintNumber
    <3>1. CASE items[cur].type = "num"
      <4>1. PICK n \in 1 .. 2 : Piece(n + 1, "num", n + 1, n, "printed")
        BY <2>2, <3>1 DEF PrintNumber
      <4>2. Wrote("num")
        BY <2>0, <4>1, PieceIs, Zenon
      <4> QED
        BY <3>1, <4>2, TypeIs, Zenon
    <3>2. CASE items[cur].type = "inf"
      <4>1. Piece(5, "word", 5, 4, "printed")
        BY <2>2, <3>2 DEF PrintNumber
      <4>2. Wrote("word")
        BY <2>0, <4>1, PieceIs, Zenon
      <4> QED
        BY <3>2, <4>2, TypeIs, Zenon
    <3> QED
      BY <2>2, <3>1, <3>2 DEF PrintNumber
  <2>3. CASE PrintString
    <3>1. PICK n \in 2 .. StrMax : Piece(n + 1, "str", n + 1, 0, "printed")
      BY <2>3 DEF PrintString
    <3>2. items[cur].type = "str"
      BY <2>3 DEF PrintString
    <3>3. Wrote("str")
      BY <2>0, <3>1, PieceIs, Zenon
    <3> QED
      BY <3>2, <3>3, TypeIs, Zenon
  <2> QED
    BY <2>1, <2>2, <2>3
<1>3. x \in Token
  BY TypeIs
<1>4. /\ Prints(text, items, frames, cur, buf.out, <<x>>, "printed")
      /\ Prints(text, items, frames, cur, buf.out \o <<x>>, << >>, "printed")
  BY <1>1, <1>2, <1>3, ScalarPrints DEF PrinterAt
<1>5. Append(buf.out, x) = buf.out \o <<x>>
  BY <1>3, AppendIs DEF PrinterAt
<1> QED
  BY <1>1, <1>2, <1>4, <1>5, Zenon DEF PrintsOn

LEMMA BracketStep ==
  ASSUME PrintInv, PrinterAt, PrintOpen, pc' # "unprinted"
  PROVE  PrintsOn
<1>1. /\ frames' = Append(frames, cur) /\ cur' = cur /\ pc = "print"
  BY DEF PrintOpen
<1>2. PICK x \in Token :
        /\ items[cur].type \in Container /\ x = First(items[cur].type) /\ pc' = "first"
        /\ buf'.out = Append(buf.out, x) /\ buf'.pend = << >>
  <2>0. 1 \in Nat /\ 1 # 0
    OBVIOUS
  <2>1. CASE items[cur].type = "array"
    <3>1. Piece(1, "[", 1, 1, "first")
      BY <2>1 DEF PrintOpen
    <3>2. pc' = "first" /\ buf'.out = Append(buf.out, "[") /\ buf'.pend = << >>
      BY <2>0, <3>1, PieceIs, Zenon
    <3> QED
      BY <2>1, <3>2, TypeIs, Zenon
  <2>2. CASE items[cur].type = "object"
    <3>1. Piece(2, "{", 1, 1, "first")
      BY <2>2 DEF PrintOpen
    <3>2. pc' = "first" /\ buf'.out = Append(buf.out, "{") /\ buf'.pend = << >>
      BY <2>0, <3>1, PieceIs, Zenon
    <3> QED
      BY <2>2, <3>2, TypeIs, Zenon
  <2> QED
    BY <2>1, <2>2 DEF PrintOpen
<1>3. Prints(text, items, Append(frames, cur), cur, buf.out \o <<x>>, << >>, "first")
  BY <1>1, <1>2, OpenPrints DEF PrinterAt
<1>4. Append(buf.out, x) = buf.out \o <<x>>
  BY AppendIs DEF PrinterAt
<1> QED
  BY <1>1, <1>2, <1>3, <1>4, Zenon DEF PrintsOn

LEMMA FirstStep ==
  ASSUME PrintInv, PrinterAt, PrintFirst, frames # << >>
  PROVE  PrintsOn
<1> DEFINE S == Below(items, Last(frames))
<1>1. /\ pc = "first" /\ UNCHANGED <<frames, buf>>
      /\ \/ S = {} /\ pc' = "close" /\ cur' = cur
         \/ S # {} /\ GoTo(Min(S))
  BY DEF PrintFirst, Kids, Below
<1>2. S \subseteq Nat /\ S \subseteq DOMAIN items
  <2>1. DOMAIN items = 1 .. Len(items)
    BY TreeItem DEF PrinterAt, Whole
  <2> QED
    BY <2>1 DEF Below
<1>3. Prints(text, items, frames, cur, buf.out, buf.pend, "first")
  BY <1>1 DEF PrinterAt
<1>4. buf.pend = << >>
  BY <1>3 DEF Prints, Written, Quiet
<1>5. CASE S = {}
  <2>1. Prints(text, items, frames, cur, buf.out, << >>, "close")
    BY <1>3, <1>5, NonePrints DEF PrinterAt
  <2> QED
    BY <1>1, <1>4, <1>5, <2>1 DEF PrintsOn
<1>6. CASE S # {}
  <2>1. Min(S) \in S /\ \A i \in S : Min(S) <= i
    BY <1>2, <1>6, MinIs
  <2>2. cur' = Min(S) /\ pc' = IF items[Last(frames)].type = "array" THEN "print" ELSE "key"
    BY <1>1, <1>6 DEF GoTo, Kind
  <2> DEFINE j == Min(S)
  <2>3. j \in S /\ \A i \in S : j <= i
    BY <2>1
  <2> HIDE DEF j
  <2>4. Prints(text, items, frames, j, buf.out, << >>,
               IF items[Last(frames)].type = "array" THEN "print" ELSE "key")
    BY <1>3, <2>3, FirstPrints DEF PrinterAt
  <2> QED
    BY <1>1, <1>4, <2>2, <2>4, Zenon DEF PrintsOn, j
<1> QED
  BY <1>5, <1>6

LEMMA KeyStep ==
  ASSUME PrintInv, PrinterAt, PrintKey, pc' # "unprinted"
  PROVE  PrintsOn
<1>1. UNCHANGED <<frames, cur>> /\ pc = "key"
  BY DEF PrintKey
<1>2. PICK n \in 2 .. StrMax : Piece(n + 1, "str", n + 1, 0, "named")
  BY DEF PrintKey
<1>3. pc' = "named" /\ buf'.out = buf.out /\ buf'.pend = <<"str">>
  BY <1>2, PieceIs
<1>4. Prints(text, items, frames, cur, buf.out, <<"str">>, "named")
  BY <1>1, KeyPrints DEF PrinterAt
<1> QED
  BY <1>1, <1>3, <1>4 DEF PrintsOn

LEMMA AssignStep ==
  ASSUME PrintInv, PrinterAt, PrintColon, pc' # "unprinted"
  PROVE  PrintsOn
<1>1. UNCHANGED <<frames, cur>> /\ pc = "assign" /\ Piece(1, ":", 1, 1, "print")
  BY DEF PrintColon
<1>2. pc' = "print" /\ buf'.out = Append(buf.out, ":") /\ buf'.pend = << >>
  <2>1. 1 \in Nat /\ 1 # 0
    OBVIOUS
  <2> QED
    BY <1>1, <2>1, PieceIs, Zenon
<1>3. Prints(text, items, frames, cur, buf.out \o <<":">>, << >>, "print")
  BY <1>1, ColonPrints DEF PrinterAt
<1>4. Append(buf.out, ":") = buf.out \o <<":">>
  BY AppendIs, Signs DEF PrinterAt, Colon
<1> QED
  BY <1>1, <1>2, <1>3, <1>4, Zenon DEF PrintsOn

LEMMA CountStep ==
  ASSUME PrintInv, PrinterAt, Count
  PROVE  PrintsOn
<1>1. /\ UNCHANGED <<frames, cur>> /\ pc \in {"named", "printed"}
      /\ pc = "named" => pc' = "assign"
      /\ pc = "printed" => pc' = IF frames = << >> THEN "odds" ELSE "next"
  BY DEF Count
<1>2. buf'.out = buf.out \o buf.pend /\ buf'.pend = << >>
  BY CountIs
<1>3. CASE pc = "named"
  <2>1. Prints(text, items, frames, cur, buf.out \o buf.pend, << >>, "assign")
    BY <1>3, NamedPrints DEF PrinterAt
  <2> QED
    BY <1>1, <1>2, <1>3, <2>1, Zenon DEF PrintsOn
<1>4. CASE pc = "printed"
  <2>1. Prints(text, items, frames, cur, buf.out \o buf.pend, << >>,
               IF frames = << >> THEN "odds" ELSE "next")
    BY <1>4, CountPrints DEF PrinterAt
  <2> QED
    BY <1>1, <1>2, <1>4, <2>1, Zenon DEF PrintsOn
<1> QED
  BY <1>1, <1>3, <1>4

(* The items behind the one printed.                                       *)
LEMMA SiblingsAre ==
  ASSUME PrinterAt, pc = "next", frames # << >>
  PROVE  /\ Siblings(cur) = {i \in Below(items, Last(frames)) : cur < i}
         /\ Siblings(cur) \subseteq Nat /\ Below(items, Last(frames)) \subseteq Nat /\ cur \in Nat
<1>1. cur \in Below(items, Last(frames))
  BY DEF PrinterAt, Prints, Stacked
<1>2. items[cur].parent = Last(frames)
  BY <1>1 DEF Below
<1>3. DOMAIN items \subseteq Nat /\ cur \in Nat
  <2>1. DOMAIN items = 1 .. Len(items)
    BY TreeItem DEF PrinterAt, Whole
  <2> QED
    BY <2>1 DEF PrinterAt
<1>4. Below(items, Last(frames)) = Kids(items[cur].parent)
  BY <1>2 DEF Below, Kids
<1>5. Below(items, Last(frames)) \subseteq Nat
  BY <1>3 DEF Below
<1> QED
  BY <1>3, <1>4, <1>5 DEF Siblings

LEMMA CommaStep ==
  ASSUME PrintInv, PrinterAt, PrintNext, frames # << >>, pc' # "unprinted"
  PROVE  PrintsOn
<1> DEFINE S == Siblings(cur)
           j == Min(S)
<1>1. pc = "next" /\ UNCHANGED frames /\ S # {}
  BY Zenon DEF PrintNext
<1>2. PICK l : buf' = Put([buf EXCEPT !.len = l], Comma, 2, 1) /\ GoTo(j)
  BY Zenon DEF PrintNext, Comma
<1>3. buf'.out = Append(buf.out, Comma) /\ buf'.pend = << >>
  <2>1. DOMAIN buf = {"len", "off", "out", "pend", "bytes", "top"}
    BY DEF PrintInv, NoBuf
  <2> QED
    BY <1>2, <2>1 DEF Put
<1>4. cur' = j /\ pc' = IF items[Last(frames)].type = "array" THEN "print" ELSE "key"
  BY <1>2 DEF GoTo, Kind
<1>5. j \in Below(items, Last(frames)) /\ cur < j
      /\ \A i \in Below(items, Last(frames)) : cur < i => j <= i
  <2>1. S = {i \in Below(items, Last(frames)) : cur < i} /\ S \subseteq Nat
    BY <1>1, SiblingsAre
  <2>2. j \in S /\ \A i \in S : j <= i
    BY <1>1, <2>1, MinIs
  <2> HIDE DEF j, S
  <2> QED
    BY <2>1, <2>2
<1> HIDE DEF S, j
<1>6. Prints(text, items, frames, j, buf.out \o <<Comma>>, << >>,
             IF items[Last(frames)].type = "array" THEN "print" ELSE "key")
  BY <1>1, <1>5, NextPrints DEF PrinterAt
<1>7. Append(buf.out, Comma) = buf.out \o <<Comma>>
  BY AppendIs, Signs DEF PrinterAt
<1> QED
  BY <1>1, <1>3, <1>4, <1>6, <1>7, Zenon DEF PrintsOn

LEMMA LastStep ==
  ASSUME PrintInv, PrinterAt, PrintLast, frames # << >>, pc' # "unprinted"
  PROVE  PrintsOn
<1>1. /\ pc = "next" /\ UNCHANGED <<frames, cur>> /\ Siblings(cur) = {} /\ pc' = "close"
      /\ (\E l : buf' = [buf EXCEPT !.len = l, !.top = buf.off + 1]) \/ buf' = buf
  BY DEF PrintLast
<1>2. buf'.out = buf.out /\ buf'.pend = buf.pend
  <2>1. DOMAIN buf = {"len", "off", "out", "pend", "bytes", "top"}
    BY DEF PrintInv, NoBuf
  <2> QED
    BY <1>1, <2>1
<1>3. Prints(text, items, frames, cur, buf.out, buf.pend, "next")
  BY <1>1 DEF PrinterAt
<1>4. buf.pend = << >>
  BY <1>3 DEF Prints, Written, Quiet
<1>5. \A i \in Below(items, Last(frames)) : i <= cur
  <2>1. Siblings(cur) = {i \in Below(items, Last(frames)) : cur < i}
        /\ Below(items, Last(frames)) \subseteq Nat /\ cur \in Nat
    BY <1>1, SiblingsAre
  <2>2. \A i \in Below(items, Last(frames)) : i \in Nat /\ ~(cur < i)
    BY <1>1, <2>1, Zenon
  <2> QED
    BY <2>1, <2>2
<1>6. Prints(text, items, frames, cur, buf.out, << >>, "close")
  BY <1>3, <1>5, LastPrints DEF PrinterAt
<1> QED
  BY <1>1, <1>2, <1>4, <1>6 DEF PrintsOn

LEMMA EndStep ==
  ASSUME PrintInv, PrinterAt, PrintClose, frames # << >>, pc' # "unprinted"
  PROVE  PrintsOn
<1>1. /\ pc = "close" /\ cur' = Last(frames) /\ frames' = Front(frames)
      /\ Piece(2, Closing[Kind], 2, 0, "printed")
  BY DEF PrintClose
<1>2. pc' = "printed" /\ buf'.out = buf.out /\ buf'.pend = <<Closing[Kind]>>
  BY <1>1, PieceIs
<1>3. Prints(text, items, Front(frames), Last(frames), buf.out,
             <<Closing[items[Last(frames)].type]>>, "printed")
  BY <1>1, ClosePrints DEF PrinterAt
<1> QED
  BY <1>1, <1>2, <1>3, Zenon DEF PrintsOn, Kind

LEMMA CutStep ==
  ASSUME PrintInv, PrinterAt, Printed, pc' # "unprinted"
  PROVE  PrintsOn
<1>1. /\ pc = "odds" /\ pc' = "text" /\ UNCHANGED <<frames, cur>>
      /\ buf' = [buf EXCEPT !.len = buf.off + 1]
  BY DEF Printed
<1>2. buf'.out = buf.out /\ buf'.pend = buf.pend
  <2>1. DOMAIN buf = {"len", "off", "out", "pend", "bytes", "top"}
    BY DEF PrintInv, NoBuf
  <2> QED
    BY <1>1, <2>1
<1>3. Prints(text, items, frames, cur, buf.out, buf.pend, "text")
  BY <1>1, CutPrints DEF PrinterAt
<1> QED
  BY <1>1, <1>2, <1>3, Zenon DEF PrintsOn

LEMMA PrintLaid ==
  ASSUME TreeInv, PrintInv, LayoutInv, PrintOdds, pc' \in Printing
  PROVE  PrintsOn
<1>1. pc \in Printing => PrinterAt
        /\ (pc \in {"first", "key", "named", "assign", "next", "close"} => frames # << >>)
  BY PrinterIs
<1>2. pc' # "unprinted"
  BY DEF Printing
<1> USE DEF Printing
<1>3. CASE PrintWord \/ PrintNumber \/ PrintString
  <2>1. pc = "print"
    BY <1>3 DEF PrintWord, PrintNumber, PrintString
  <2> QED
    BY <1>1, <1>2, <1>3, <2>1, ScalarStep
<1>4. CASE PrintOpen
  <2>1. pc = "print"
    BY <1>4 DEF PrintOpen
  <2> QED
    BY <1>1, <1>2, <1>4, <2>1, BracketStep
<1>5. CASE PrintFirst
  <2>1. pc = "first"
    BY <1>5 DEF PrintFirst
  <2> QED
    BY <1>1, <1>5, <2>1, FirstStep
<1>6. CASE PrintKey \/ PrintColon
  <2>1. pc \in {"key", "assign"}
    BY <1>6 DEF PrintKey, PrintColon
  <2> QED
    BY <1>1, <1>2, <1>6, <2>1, KeyStep, AssignStep
<1>7. CASE Count
  <2>1. pc \in {"named", "printed"}
    BY <1>7 DEF Count
  <2> QED
    BY <1>1, <1>7, <2>1, CountStep
<1>8. CASE PrintNext
  <2>1. pc = "next"
    BY <1>8, Zenon DEF PrintNext
  <2> QED
    BY <1>1, <1>2, <1>8, <2>1, CommaStep
<1>9. CASE PrintLast
  <2>1. pc = "next"
    BY <1>9 DEF PrintLast
  <2> QED
    BY <1>1, <1>2, <1>9, <2>1, LastStep
<1>10. CASE PrintClose
  <2>1. pc = "close"
    BY <1>10 DEF PrintClose
  <2> QED
    BY <1>1, <1>2, <1>10, <2>1, EndStep
<1>11. CASE Printed
  <2>1. pc = "odds"
    BY <1>11 DEF Printed
  <2> QED
    BY <1>1, <1>2, <1>11, <2>1, CutStep
<1>12. CASE CopyOdds
  BY <1>12 DEF CopyOdds
<1> QED
  BY <1>3, <1>4, <1>5, <1>6, <1>7, <1>8, <1>9, <1>10, <1>11, <1>12, Zenon DEF PrintOdds

-----------------------------------------------------------------------------
(* Every step.                                                             *)

LEMMA WalkLaid ==
  ASSUME TreeInv, LayoutInv, Use
  PROVE  /\ pc' \in {"save", "print", "unprinted", "done", "aborted"}
         /\ UNCHANGED <<text, items>> /\ (\A k \in DOMAIN items : Complete(text, items, k))
         /\ pc' = "save" => frames' = << >>
         /\ pc' = "print" => PrintsOn
<1>1. TypeOK
  BY DEF TreeInv
<1>2. pc \in {"accepted", "save", "record"} =>
        frames = << >> /\ \A k \in DOMAIN items : Complete(text, items, k)
  BY DEF LayoutInv, Saving
<1>3. Tree(text, items)
  BY <1>1, TreeIs
<1>4. CASE SaveAll \/ LookUpInArray \/ NoId \/ SaveFields \/ SaveTournaments \/ Overwritten
             \/ FreeMarket \/ DeleteAll
  <2>1. /\ pc \in {"accepted", "save", "record"} /\ pc' \in {"save", "done", "aborted"}
        /\ UNCHANGED <<text, items, frames>>
    BY <1>4 DEF SaveAll, LookUpInArray, NoId, SaveFields, SaveTournaments, Overwritten, FreeMarket,
         DeleteAll, parse, tree
  <2> QED
    BY <1>2, <2>1
<1>5. CASE SaveMarket
  <2>1. /\ pc = "save" /\ UNCHANGED <<text, items, frames>>
        /\ \/ /\ \E o \in Kids(This) : cur' = o
              /\ pc' = "print" /\ buf' = [NoBuf EXCEPT !.len = BufInit]
           \/ pc' \in {"unprinted", "aborted"}
    BY <1>5 DEF SaveMarket, PrintBuffer, parse, tree
  <2>2. ASSUME pc' = "print" PROVE PrintsOn
    <3>1. cur' \in DOMAIN items
      BY <2>1, <2>2 DEF Kids
    <3>2. buf'.out = << >> /\ buf'.pend = << >>
      BY <2>1, <2>2 DEF NoBuf
    <3>3. Whole(text, items) /\ frames = << >>
      BY <1>2, <1>3, <2>1 DEF Whole
    <3> DEFINE k == cur'
    <3>4. k \in DOMAIN items
      BY <3>1
    <3> HIDE DEF k
    <3>5. Prints(text, items, << >>, k, << >>, << >>, "print")
      BY <3>3, <3>4, StartPrints
    <3> QED
      BY <2>1, <2>2, <3>2, <3>3, <3>5, Zenon DEF PrintsOn, k
  <2> QED
    BY <1>2, <2>1, <2>2
<1> QED
  BY <1>4, <1>5 DEF Use

LEMMA OddsInit == Init => OddsInv
<1> SUFFICES ASSUME Init PROVE OddsInv
  OBVIOUS
<1>1. TreeInv
  BY TreeInit
<1>2. PrintInv
  BY DEF Init, PrintInv, PrintFits, NoBuf
<1>3. pc = "start"
  BY DEF Init
<1>4. LayoutInv
  BY <1>3 DEF LayoutInv, Parsing, Reading, Printing, Saving
<1> QED
  BY <1>1, <1>2, <1>4 DEF OddsInv

(* Only the copy of the text leads on to the record.                       *)
LEMMA ToRecord == PrintOdds /\ pc' = "record" => CopyOdds
<1> SUFFICES ASSUME PrintOdds, pc' = "record" PROVE CopyOdds
  OBVIOUS
<1>1. CASE PrintWord \/ PrintNumber \/ PrintString \/ PrintOpen \/ PrintKey \/ PrintColon
           \/ PrintClose
  BY <1>1, Zenon
     DEF PrintWord, PrintNumber, PrintString, PrintOpen, PrintKey, PrintColon, PrintClose, Piece
<1>2. CASE PrintFirst \/ Count \/ PrintLast \/ Printed
  BY <1>2 DEF PrintFirst, Count, PrintLast, Printed, GoTo
<1>3. CASE PrintNext
  <2>1. pc' = "unprinted" \/ \E i : GoTo(i)
    BY <1>3, Zenon DEF PrintNext
  <2> QED
    BY <2>1 DEF GoTo
<1> QED
  BY <1>1, <1>2, <1>3 DEF PrintOdds

LEMMA OddsNext == OddsInv /\ [Next]_vars => OddsInv'
<1> SUFFICES ASSUME OddsInv, [Next]_vars PROVE OddsInv'
  OBVIOUS
<1>1. TreeInv /\ PrintInv /\ LayoutInv
  BY DEF OddsInv
<1>2. TreeInv' /\ PrintInv'
  BY <1>1, TreeNext, PrintNextInv DEF TreeInv
<1>3. LayoutInv'
  <2> HIDE DEF Laid, Pos, Going, Complete, Prints
  <2>1. CASE Parse
    <3>1. pc' \in Parsing \cup {"fail", "rejected"}
      BY <1>1, <2>1, ParseRest DEF TreeInv
    <3>2. pc' \notin Printing \cup Saving
      BY <3>1 DEF Parsing, Reading, Printing, Saving
    <3>3. /\ pc' \in Parsing \ {"start"} => Laid(text', items', frames', Pos', Going')
          /\ pc' = "accepted" => frames' = << >> /\ \A k \in DOMAIN items' : Complete(text', items', k)
      BY <1>1, <2>1, ParseLaid
    <3> QED
      BY <3>2, <3>3 DEF LayoutInv, Saving
  <2>2. CASE Use
    <3>1. /\ pc' \in {"save", "print", "unprinted", "done", "aborted"}
          /\ UNCHANGED <<text, items>> /\ (\A k \in DOMAIN items : Complete(text, items, k))
          /\ pc' = "save" => frames' = << >>
          /\ pc' = "print" => PrintsOn
      BY <1>1, <2>2, WalkLaid
    <3>2. pc' \notin Parsing /\ (pc' \in Printing => pc' = "print")
      BY <3>1 DEF Parsing, Reading, Printing
    <3>3. pc' \in Printing => /\ Stacked(items', frames', cur', pc')
                              /\ Written(text', items', frames', cur', buf'.out, buf'.pend, pc')
      BY <3>1, <3>2 DEF PrintsOn, Prints
    <3>4. \A k \in DOMAIN items' : Complete(text', items', k)
      BY <3>1
    <3>5. pc' \in {"accepted", "save", "record"} => frames' = << >>
      BY <3>1
    <3> QED
      BY <3>2, <3>3, <3>4, <3>5 DEF LayoutInv
  <2>3. CASE PrintOdds
    <3>1. /\ UNCHANGED still /\ pc \in Printing \cup {"unprinted"}
          /\ pc' \in Printing \cup {"unprinted", "record", "aborted"}
      BY <1>1, <2>3, PrintTree DEF TreeInv, Cut, Copies, CopiesNot
    <3>2. pc' \notin Parsing
      BY <3>1 DEF Parsing, Reading, Printing
    <3>3. UNCHANGED <<text, items>>
      BY <3>1 DEF still, parse, tree
    <3>4. pc' \in Printing => /\ Stacked(items', frames', cur', pc')
                              /\ Written(text', items', frames', cur', buf'.out, buf'.pend, pc')
      BY <1>1, <2>3, <3>3, PrintLaid DEF PrintsOn, Prints
    <3>5. \A k \in DOMAIN items' : Complete(text', items', k)
      BY <1>1, <3>1, <3>3 DEF LayoutInv, Saving
    <3>6. pc' \in {"accepted", "save", "record"} => frames' = << >>
      <4>1. pc' = "record" => CopyOdds
        BY <2>3, ToRecord
      <4>2. pc' \notin {"accepted", "save"}
        BY <3>1 DEF Printing
      <4> QED
        BY <4>1, <4>2 DEF CopyOdds
    <3> QED
      BY <3>2, <3>4, <3>5, <3>6 DEF LayoutInv
  <2>4. CASE UNCHANGED vars
    <3>1. UNCHANGED <<text, items, frames, pc, cur, buf>>
      BY <2>4 DEF vars, record, parse, tree
    <3>2. Pos' = Pos /\ Going' = Going
      BY <2>4 DEF vars, record, parse, tree, Pos, Going, Accessible, Ended
    <3> QED
      BY <1>1, <3>1, <3>2 DEF LayoutInv
  <2> QED
    BY <2>1, <2>2, <2>3, <2>4 DEF Next
<1> QED
  BY <1>2, <1>3 DEF OddsInv

(* Whatever the text of a market's file, as long as it was accepted, the   *)
(* odds that are saved with a record are its text: print_value, print_array*)
(* and print_object write every item's tokens in their order and nothing   *)
(* between them but what parse_value, parse_array and parse_object read    *)
(* there, white space left out and numbers out of range as null.           *)
THEOREM OddsAreParsed == Spec => []OddsAreText
<1>1. OddsInv => OddsAreText
  <2> SUFFICES ASSUME OddsInv, pc \in {"odds", "text"}
               PROVE  buf.out = Spelled(text, items[cur].from, items[cur].to)
    BY DEF OddsAreText
  <2>1. /\ Stacked(items, frames, cur, pc)
        /\ Written(text, items, frames, cur, buf.out, buf.pend, pc)
    BY DEF OddsInv, LayoutInv, Printing
  <2>2. frames = << >>
    BY <2>1 DEF Stacked
  <2>3. Odds(frames, cur) = cur
    BY <2>2 DEF Odds
  <2>4. /\ buf.out \in Seq(Token)
        /\ buf.out \o << >> = Spelled(text, items[Odds(frames, cur)].from, items[cur].to)
    BY <2>1, Zenon DEF Written
  <2>5. buf.out \o << >> = buf.out
    BY <2>4
  <2> QED
    BY <2>3, <2>4, <2>5
<1> QED
  BY <1>1, OddsInit, OddsNext, PTL DEF Spec

-----------------------------------------------------------------------------
(* The parser is where the reader is.                                      *)

LEMMA FinalTyped ==
  ASSUME NEW s \in Seq(Token), NEW p \in Nat, p <= Len(s)
  PROVE  Taken(s, p) \in Seq(Token) /\ Typed(Final(Taken(s, p)))
<1> DEFINE q == Taken(s, p)
<1>1. q \in Seq(Token)
  BY TakenHeads
<1>2. Len(q) \in 0 .. Len(q)
  BY <1>1
<1> HIDE DEF q
<1>3. Typed(States(q)[Len(q)])
  BY <1>1, <1>2, StatesTyped
<1> QED
  BY <1>1, <1>3 DEF Final, q

(* It takes a token, or leaves one out.                                    *)
LEMMA TakeToken ==
  ASSUME NEW s \in Seq(Token), NEW p \in Nat, p < Len(s), ~Blank(s, p + 1), Shallow(Taken(s, p)),
         NEW st, st = Step(Final(Taken(s, p)), s[p + 1])
  PROVE  /\ Final(Taken(s, p + 1)) = st /\ Typed(st)
         /\ Len(st.in) <= NestLimit => Shallow(Taken(s, p + 1))
<1> DEFINE q == Taken(s, p)
           x == s[p + 1]
           u == Taken(s, p + 1)
<1>1. p <= Len(s) /\ x \in Token
  OBVIOUS
<1>2. q \in Seq(Token) /\ Typed(Final(q)) /\ u = Append(q, x)
  BY <1>1, TakenNext, FinalTyped
<1>3. st = Step(Final(q), x) /\ Shallow(q)
  OBVIOUS
<1> HIDE DEF q, x, u
<1>4. Typed(st)
  BY <1>1, <1>2, <1>3, StepTyped
<1>5. /\ Len(u) = Len(q) + 1 /\ Final(u) = st
      /\ \A i \in 0 .. Len(q) : States(u)[i] = States(q)[i]
  BY <1>1, <1>2, <1>3, FinalAppend
<1>6. ASSUME Len(st.in) <= NestLimit PROVE Shallow(u)
  <2>1. ASSUME NEW i \in 0 .. Len(u) PROVE Len(States(u)[i].in) <= NestLimit
    <3>0. Len(q) \in Nat
      BY <1>2
    <3>1. i \in 0 .. Len(q) \/ i = Len(u)
      BY <1>5, <3>0
    <3>2. CASE i \in 0 .. Len(q)
      BY <1>3, <1>5, <3>2 DEF Shallow
    <3>3. CASE i = Len(u)
      BY <1>5, <1>6, <3>3 DEF Final
    <3> QED
      BY <3>1, <3>2, <3>3
  <2> QED
    BY <2>1 DEF Shallow
<1> QED
  BY <1>4, <1>5, <1>6 DEF u

(* Only white space is left out, and a mark where there may be one.        *)
LEMMA TokenTaken ==
  ASSUME NEW s \in Seq(Token), NEW p \in Nat, p < Len(s), NEW r, NEW f, NEW g, NEW st,
         Agrees(st, s, r, f, p, g), g # "bom", s[p + 1] # "ws"
  PROVE  ~Blank(s, p + 1)
<1>1. p + 1 = 1 => p = 0
  OBVIOUS
<1> QED
  BY <1>1 DEF Blank, Agrees

(* The kinds of the containers.                                            *)
KindsIn(r, f) == [i \in DOMAIN f |-> r[f[i]].type]

LEMMA KindsAre ==
  ASSUME NEW r, NEW f \in Seq(DOMAIN r), NEW in \in Seq(Kinds), in = KindsIn(r, f)
  PROVE  /\ Len(in) = Len(f) /\ (in = << >> <=> f = << >>)
         /\ f # << >> => Last(in) = r[Last(f)].type /\ Front(in) = KindsIn(r, Front(f))
<1>1. DOMAIN f = 1 .. Len(f) /\ Len(f) \in Nat /\ DOMAIN in = 1 .. Len(in) /\ Len(in) \in Nat
  OBVIOUS
<1>2. DOMAIN in = DOMAIN f /\ \A i \in DOMAIN f : in[i] = r[f[i]].type
  BY DEF KindsIn
<1>3. Len(in) = Len(f)
  <2>1. 1 .. Len(in) = 1 .. Len(f)
    BY <1>1, <1>2, ZenonT(40)
  <2>2. Len(in) = 0 \/ Len(in) \in 1 .. Len(f)
    <3>1. Len(in) = 0 \/ Len(in) \in 1 .. Len(in)
      BY <1>1
    <3> QED
      BY <2>1, <3>1
  <2>3. Len(f) = 0 \/ Len(f) \in 1 .. Len(in)
    <3>1. Len(f) = 0 \/ Len(f) \in 1 .. Len(f)
      BY <1>1
    <3> QED
      BY <2>1, <3>1
  <2>4. \A m, n \in Nat : (m = 0 \/ m \in 1 .. n) /\ (n = 0 \/ n \in 1 .. m) => m = n
    OBVIOUS
  <2>5. Len(in) \in Nat /\ Len(f) \in Nat
    BY <1>1
  <2> QED
    BY <2>2, <2>3, <2>4, <2>5, ZenonT(40)
<1>4. in = << >> <=> f = << >>
  BY <1>1, <1>3
<1>5. ASSUME f # << >> PROVE Last(in) = r[Last(f)].type /\ Front(in) = KindsIn(r, Front(f))
  <2>1. Len(f) \in DOMAIN f /\ Len(f) \in Nat \ {0}
    BY <1>1, <1>5
  <2>2. Last(in) = r[Last(f)].type
    BY <1>2, <1>3, <2>1 DEF Last
  <2> DEFINE m == Len(f) - 1
             F == SubSeq(f, 1, m)
             I == SubSeq(in, 1, m)
  <2>3. m \in 0 .. Len(f) /\ m \in 0 .. Len(in)
    BY <1>1, <1>3, <2>1
  <2>4. /\ F \in Seq(DOMAIN r) /\ Len(F) = m /\ \A i \in 1 .. m : F[i] = f[i]
        /\ I \in Seq(Kinds) /\ Len(I) = m /\ \A i \in 1 .. m : I[i] = in[i]
    <3>1. 1 \in Nat /\ m \in Nat /\ (\A i \in 1 .. m : 1 + i - 1 = i /\ i \in 1 .. m - 1 + 1)
          /\ (IF 1 <= m THEN m - 1 + 1 ELSE 0) = m
      <4>1. m \in Nat
        BY <2>1
      <4> HIDE DEF m
      <4> QED
        BY <4>1
    <3>2. (\A i \in 1 .. m : f[i] \in DOMAIN r) /\ (\A i \in 1 .. m : in[i] \in Kinds)
      BY <1>1, <1>3, <2>3
    <3> HIDE DEF m
    <3>3. F \in Seq(DOMAIN r) /\ Len(F) = (IF 1 <= m THEN m - 1 + 1 ELSE 0)
          /\ \A i \in 1 .. m - 1 + 1 : F[i] = f[1 + i - 1]
      BY <3>1, <3>2, ST!SubSeqProperties
    <3>4. I \in Seq(Kinds) /\ Len(I) = (IF 1 <= m THEN m - 1 + 1 ELSE 0)
          /\ \A i \in 1 .. m - 1 + 1 : I[i] = in[1 + i - 1]
      BY <3>1, <3>2, ST!SubSeqProperties
    <3> HIDE DEF F, I
    <3> QED
      BY <3>1, <3>3, <3>4
  <2>5. \A i \in 1 .. m : i \in DOMAIN f
    BY <1>1, <2>1
  <2>6. F = Front(f) /\ I = Front(in)
    BY <1>3 DEF Front
  <2> HIDE DEF F, I, m
  <2>7. I = [i \in 1 .. m |-> I[i]] /\ DOMAIN F = 1 .. m
    BY <2>4
  <2>8. \A i \in 1 .. m : I[i] = r[F[i]].type
    BY <1>2, <2>4, <2>5
  <2>9. I = [i \in DOMAIN F |-> r[F[i]].type]
    BY <2>7, <2>8, SMTT(30)
  <2> QED
    BY <2>2, <2>6, <2>9 DEF KindsIn
<1> QED
  BY <1>3, <1>4, <1>5

LEMMA KindsMore ==
  ASSUME NEW r, NEW f \in Seq(DOMAIN r), NEW k \in DOMAIN r, NEW in \in Seq(Kinds), in = KindsIn(r, f),
         r[k].type \in Kinds
  PROVE  Append(in, r[k].type) = KindsIn(r, Append(f, k))
<1> DEFINE n == Len(f)
           F == Append(f, k)
           I == Append(in, r[k].type)
<1>1. n \in Nat /\ Len(in) = n /\ (\A i \in 1 .. n : in[i] = r[f[i]].type)
  <2>1. Len(in) = Len(f)
    BY KindsAre
  <2>2. DOMAIN f = 1 .. Len(f)
    OBVIOUS
  <2> QED
    BY <2>1, <2>2 DEF KindsIn
<1>2. F \in Seq(DOMAIN r) /\ Len(F) = n + 1 /\ F[n + 1] = k /\ \A i \in 1 .. n : F[i] = f[i]
  OBVIOUS
<1>3. I \in Seq(Kinds) /\ Len(I) = n + 1 /\ I[n + 1] = r[k].type /\ \A i \in 1 .. n : I[i] = in[i]
  BY <1>1
<1> HIDE DEF n, F, I
<1>4. \A i \in 1 .. n + 1 : i \in 1 .. n \/ i = n + 1
  BY <1>1
<1>5. \A i \in 1 .. n + 1 : I[i] = r[F[i]].type
  BY <1>1, <1>2, <1>3, <1>4
<1>6. I = [i \in 1 .. n + 1 |-> I[i]] /\ DOMAIN F = 1 .. n + 1
  BY <1>1, <1>2, <1>3
<1>7. I = [i \in DOMAIN F |-> r[F[i]].type]
  BY <1>5, <1>6
<1> QED
  BY <1>7, ZenonT(40) DEF KindsIn, F, I

(* The items that the frames name have their kinds.                        *)
SameKinds(r, v, f) == \A i \in DOMAIN f : v[f[i]].type = r[f[i]].type

LEMMA KindsKept ==
  ASSUME NEW r, NEW v, NEW f, SameKinds(r, v, f)
  PROVE  KindsIn(v, f) = KindsIn(r, f)
BY DEF SameKinds, KindsIn

(* What is known of the reader where the parser is.                        *)
LEMMA ReaderIs ==
  ASSUME NEW s, NEW r, Tree(s, r), NEW f \in Seq(DOMAIN r), NEW p \in Nat, p <= Len(s), NEW g,
         ReadAs(s, r, f, p, g), NEW st, st = Final(Taken(s, p))
  PROVE  /\ Typed(st) /\ st.in \in Seq(Kinds) /\ st.in = KindsIn(r, f) /\ Len(st.in) = Len(f)
         /\ Len(st.in) <= NestLimit /\ Shallow(Taken(s, p)) /\ Agrees(st, s, r, f, p, g)
         /\ st.in = << >> <=> f = << >>
         /\ f # << >> => Last(st.in) = r[Last(f)].type /\ Front(st.in) = KindsIn(r, Front(f))
<1>1. s \in Seq(Token)
  BY DEF Tree
<1>2. Typed(st) /\ Shallow(Taken(s, p)) /\ Agrees(st, s, r, f, p, g) /\ Taken(s, p) \in Seq(Token)
  BY <1>1, FinalTyped DEF ReadAs
<1>3. st.in \in Seq(Kinds) /\ st.in = KindsIn(r, f)
  BY <1>2 DEF Typed, Agrees, KindsIn
<1>4. Len(st.in) <= NestLimit
  <2> DEFINE q == Taken(s, p)
  <2>1. Len(q) \in 0 .. Len(q)
    BY <1>2
  <2> QED
    BY <1>2, <2>1 DEF Shallow, Final
<1> QED
  BY <1>2, <1>3, <1>4, KindsAre

-----------------------------------------------------------------------------
(* How the reader follows each step of the parser over the text.           *)

(* It is where the parser is told to be, and does not just open.           *)
LEMMA AgreesNow ==
  ASSUME NEW st, NEW s, NEW v, NEW f, NEW n \in Nat, n # 0, NEW g,
         st.in = KindsIn(v, f), IF g = "opened" THEN st.at = g ELSE Expects(st) = Awaited(v, f, g),
         g # "opened" => st.at # "opened"
  PROVE  Agrees(st, s, v, f, n, g)
BY DEF Agrees, KindsIn

LEMMA LeaveAgrees ==
  ASSUME NEW s, NEW v, NEW f, NEW in \in Seq(Kinds), in = KindsIn(v, f), (in = << >> <=> f = << >>),
         NEW n \in Nat, n # 0
  PROVE  Agrees(Leave(in), s, v, f, n, "parsed")
<1> DEFINE st == Leave(in)
<1>1. st.in = in /\ st.at = IF f = << >> THEN "done" ELSE "more"
  BY DEF Leave
<1>2. st.at # "opened" /\ Expects(st) = st.at
  BY <1>1 DEF Expects
<1>3. Expects(st) = Awaited(v, f, "parsed")
  BY <1>1, <1>2 DEF Awaited
<1> HIDE DEF st
<1>4. Agrees(st, s, v, f, n, "parsed")
  BY <1>1, <1>2, <1>3, AgreesNow
<1> QED
  BY <1>4 DEF st

LEMMA ReadScalar ==
  ASSUME NEW s, NEW r, Tree(s, r), NEW f \in Seq(DOMAIN r), NEW p \in Nat, p < Len(s),
         ReadAs(s, r, f, p, "value"), s[p + 1] \in Scalar, NEW v, SameKinds(r, v, f)
  PROVE  ReadAs(s, v, f, p + 1, "parsed")
<1> DEFINE st == Final(Taken(s, p))
           x == s[p + 1]
           u == Step(st, x)
           n == p + 1
<1>1. s \in Seq(Token) /\ p <= Len(s) /\ x \in Token /\ x # "ws" /\ n \in Nat /\ n # 0
  <2>1. "ws" \notin Scalar
    BY DEF Scalar, Word, Number
  <2> QED
    BY <2>1 DEF Tree
<1>2. /\ Typed(st) /\ st.in \in Seq(Kinds) /\ st.in = KindsIn(r, f) /\ Len(st.in) <= NestLimit
      /\ Shallow(Taken(s, p)) /\ Agrees(st, s, r, f, p, "value") /\ (st.in = << >> <=> f = << >>)
  BY <1>1, ReaderIs
<1>3. ~Blank(s, p + 1)
  BY <1>1, <1>2, TokenTaken
<1>4. Final(Taken(s, n)) = u /\ (Len(u.in) <= NestLimit => Shallow(Taken(s, n)))
  BY <1>1, <1>2, <1>3, TakeToken
<1> HIDE DEF st, x, n
<1>5. Expects(st) = "value"
  BY <1>2 DEF Agrees, Awaited
<1>6. u = Leave(st.in)
  BY <1>1, <1>2, <1>5, StepValue DEF x
<1>7. u.in = st.in
  BY <1>2, <1>6, LeaveTyped
<1>8. st.in = KindsIn(v, f)
  BY <1>2, KindsKept
<1> HIDE DEF u
<1>9. Agrees(u, s, v, f, n, "parsed")
  BY <1>1, <1>2, <1>6, <1>8, LeaveAgrees
<1> QED
  BY <1>2, <1>4, <1>7, <1>9 DEF ReadAs, n

LEMMA ReadOpen ==
  ASSUME NEW s, NEW r, Tree(s, r), NEW f \in Seq(DOMAIN r), NEW p \in Nat, p < Len(s),
         ReadAs(s, r, f, p, "value"), s[p + 1] \in Open, Len(f) < NestLimit,
         NEW v, SameKinds(r, v, f), NEW k \in DOMAIN v, f \in Seq(DOMAIN v), v[k].type = KindOf[s[p + 1]]
  PROVE  ReadAs(s, v, Append(f, k), p + 1, "opened")
<1> DEFINE st == Final(Taken(s, p))
           x == s[p + 1]
           u == Step(st, x)
           n == p + 1
           F == Append(f, k)
<1>1. s \in Seq(Token) /\ p <= Len(s) /\ x \in Token /\ x # "ws" /\ n \in Nat /\ n # 0 /\ x \in Open
  <2>1. "ws" \notin Open
    BY DEF Open
  <2> QED
    BY <2>1 DEF Tree
<1>2. /\ Typed(st) /\ st.in \in Seq(Kinds) /\ st.in = KindsIn(r, f) /\ Len(st.in) = Len(f)
      /\ Shallow(Taken(s, p)) /\ Agrees(st, s, r, f, p, "value")
  BY <1>1, ReaderIs
<1>3. ~Blank(s, p + 1)
  BY <1>1, <1>2, TokenTaken
<1>4. Final(Taken(s, n)) = u /\ (Len(u.in) <= NestLimit => Shallow(Taken(s, n)))
  BY <1>1, <1>2, <1>3, TakeToken
<1>40. v[k].type = KindOf[x]
  OBVIOUS
<1> HIDE DEF st, x, n, F
<1>5. Expects(st) = "value"
  BY <1>2 DEF Agrees, Awaited
<1>6. u = [in |-> Append(st.in, KindOf[x]), at |-> "opened"]
  BY <1>1, <1>2, <1>5, StepValue
<1>7. KindOf[x] \in Kinds
  BY <1>1, KindIs
<1>8. u.in = Append(st.in, v[k].type) /\ u.at = "opened"
  BY <1>6, <1>40
<1> HIDE DEF u
<1>9. Len(u.in) <= NestLimit
  <2>1. Len(u.in) = Len(st.in) + 1
    BY <1>2, <1>8
  <2>2. Len(f) \in Nat
    OBVIOUS
  <2> QED
    BY <1>2, <2>1, <2>2
<1>10. st.in = KindsIn(v, f)
  BY <1>2, KindsKept
<1>11. u.in = KindsIn(v, F)
  BY <1>2, <1>7, <1>40, <1>8, <1>10, KindsMore DEF F
<1>12. Agrees(u, s, v, F, n, "opened")
  BY <1>1, <1>8, <1>11, AgreesNow
<1> QED
  BY <1>4, <1>9, <1>12 DEF ReadAs, n, F

(* The reader closes where the parser does.                                *)
LEMMA ClosesHere ==
  ASSUME NEW s, NEW r, Tree(s, r), NEW f \in Seq(DOMAIN r), f # << >>, NEW p \in Nat, p <= Len(s),
         NEW g \in {"opened", "more"}, ReadAs(s, r, f, p, g), NEW st, st = Final(Taken(s, p))
  PROVE  /\ Last(st.in) = r[Last(f)].type /\ Last(st.in) \in Kinds /\ st.at = g /\ st.in # << >>
         /\ \A x : Closes(st, x) <=> x = Closing[r[Last(f)].type]
<1>1. /\ Typed(st) /\ st.in \in Seq(Kinds) /\ st.in # << >> /\ Last(st.in) = r[Last(f)].type
      /\ Agrees(st, s, r, f, p, g)
  BY ReaderIs
<1>2. Last(st.in) \in Kinds /\ Begins[Last(st.in)] \in {"value", "name"}
  BY <1>1, LastKind
<1>3. st.at = g
  BY <1>1, <1>2 DEF Agrees, Awaited, Expects
<1> QED
  BY <1>1, <1>2, <1>3 DEF Closes

LEMMA ReadClose ==
  ASSUME NEW s, NEW r, Tree(s, r), NEW f \in Seq(DOMAIN r), f # << >>, NEW p \in Nat, p < Len(s),
         NEW g \in {"opened", "more"}, ReadAs(s, r, f, p, g), s[p + 1] = Closing[r[Last(f)].type],
         NEW v, SameKinds(r, v, f)
  PROVE  ReadAs(s, v, Front(f), p + 1, "parsed")
<1> DEFINE st == Final(Taken(s, p))
           x == s[p + 1]
           u == Step(st, x)
           n == p + 1
           F == Front(f)
           in == Front(st.in)
<1>0. s \in Seq(Token) /\ p <= Len(s) /\ x \in Token /\ n \in Nat /\ n # 0 /\ x = Closing[r[Last(f)].type]
  BY DEF Tree
<1>1. /\ Last(st.in) = r[Last(f)].type /\ Last(st.in) \in Kinds /\ st.at = g /\ st.in # << >>
      /\ Closes(st, x)
  BY <1>0, ClosesHere
<1>2. /\ Typed(st) /\ st.in \in Seq(Kinds) /\ st.in = KindsIn(r, f) /\ Len(st.in) = Len(f)
      /\ Len(st.in) <= NestLimit /\ Shallow(Taken(s, p)) /\ Agrees(st, s, r, f, p, g)
      /\ in = KindsIn(r, F)
  BY <1>0, ReaderIs
<1>20. x # "ws"
  <2>1. \A k \in Kinds : Closing[k] # "ws"
    BY KindIs DEF Kinds
  <2> QED
    BY <1>0, <1>1, <2>1
<1>3. ~Blank(s, p + 1)
  BY <1>0, <1>2, <1>20, TokenTaken
<1>4. Final(Taken(s, n)) = u /\ (Len(u.in) <= NestLimit => Shallow(Taken(s, n)))
  BY <1>0, <1>2, <1>3, TakeToken
<1> HIDE DEF st, x, n, F, in
<1>5. u = Leave(in)
  BY <1>1 DEF Step, in
<1>6. in \in Seq(Kinds) /\ Len(in) = Len(st.in) - 1
  BY <1>1, <1>2, LastKind DEF in
<1>7. u.in = in
  BY <1>5, <1>6, LeaveTyped
<1> HIDE DEF u
<1>8. Len(u.in) <= NestLimit
  BY <1>2, <1>6, <1>7
<1>9. F \in Seq(DOMAIN r) /\ \A i \in DOMAIN F : i \in DOMAIN f /\ F[i] = f[i]
  <2> DEFINE m == Len(f) - 1
             w == SubSeq(f, 1, m)
  <2>1. Len(f) \in Nat /\ Len(f) # 0 /\ DOMAIN f = 1 .. Len(f)
    OBVIOUS
  <2>2. m \in Nat /\ m < Len(f)
    BY <2>1
  <2>3. \A i \in 1 .. m : f[i] \in DOMAIN r
    BY <2>1, <2>2
  <2>4. \A i \in 1 .. m : i \in DOMAIN f
    BY <2>1, <2>2
  <2>5. w = F
    BY DEF F, Front
  <2> HIDE DEF m
  <2>6. m - 1 + 1 = m /\ (\A i \in 1 .. m : 1 + i - 1 = i) /\ (IF 1 <= m THEN m - 1 + 1 ELSE 0) = m /\ 1 \in Nat
    BY <2>2
  <2>7. w \in Seq(DOMAIN r) /\ Len(w) = (IF 1 <= m THEN m - 1 + 1 ELSE 0) /\ \A i \in 1 .. m - 1 + 1 : w[i] = f[1 + i - 1]
    BY <2>2, <2>3, <2>6, ST!SubSeqProperties
  <2> HIDE DEF w
  <2>8. w \in Seq(DOMAIN r) /\ DOMAIN w = 1 .. m /\ \A i \in 1 .. m : w[i] = f[i]
    BY <2>6, <2>7
  <2> QED
    BY <2>4, <2>5, <2>8
<1>10. SameKinds(r, v, F)
  BY <1>9 DEF SameKinds
<1>11. in = KindsIn(v, F) /\ (in = << >> <=> F = << >>)
  BY <1>2, <1>6, <1>9, <1>10, KindsKept, KindsAre
<1>12. Agrees(u, s, v, F, n, "parsed")
  BY <1>0, <1>5, <1>6, <1>11, LeaveAgrees
<1> QED
  BY <1>4, <1>8, <1>12 DEF ReadAs, n, F

(* No bracket closes what has just been opened.                            *)
LEMMA ReadFirst ==
  ASSUME NEW s, NEW r, Tree(s, r), NEW f \in Seq(DOMAIN r), f # << >>, NEW p \in Nat, p < Len(s),
         ReadAs(s, r, f, p, "opened"), s[p + 1] # "ws", s[p + 1] # Closing[r[Last(f)].type]
  PROVE  ReadAs(s, r, f, p, "item")
<1> DEFINE st == Final(Taken(s, p))
<1>0. p <= Len(s)
  BY DEF Tree
<1>1. Last(st.in) = r[Last(f)].type /\ st.at = "opened"
  BY <1>0, ClosesHere
<1>2. Shallow(Taken(s, p)) /\ Agrees(st, s, r, f, p, "opened")
  BY DEF ReadAs
<1> HIDE DEF st
<1>3. Expects(st) = Awaited(r, f, "item")
  BY <1>1 DEF Expects, Awaited
<1>4. Agrees(st, s, r, f, p, "item")
  BY <1>2, <1>3 DEF Agrees
<1> QED
  BY <1>2, <1>4 DEF ReadAs, st

LEMMA ReadComma ==
  ASSUME NEW s, NEW r, Tree(s, r), NEW f \in Seq(DOMAIN r), f # << >>, NEW p \in Nat, p < Len(s),
         ReadAs(s, r, f, p, "more"), s[p + 1] = Comma
  PROVE  ReadAs(s, r, f, p + 1, "item")
<1> DEFINE st == Final(Taken(s, p))
           x == s[p + 1]
           u == Step(st, x)
           n == p + 1
<1>0. p <= Len(s) /\ x \in Token /\ n \in Nat /\ n # 0 /\ x = Comma /\ x # "ws" /\ s \in Seq(Token)
  BY Signs DEF Tree
<1>1. Last(st.in) = r[Last(f)].type /\ st.at = "more" /\ Last(st.in) \in Kinds
  BY <1>0, ClosesHere
<1>2. /\ Typed(st) /\ st.in \in Seq(Kinds) /\ st.in = KindsIn(r, f)
      /\ Len(st.in) <= NestLimit /\ Shallow(Taken(s, p)) /\ Agrees(st, s, r, f, p, "more")
  BY <1>0, ReaderIs
<1>3. ~Blank(s, p + 1)
  BY <1>0, <1>2, TokenTaken
<1>4. Final(Taken(s, n)) = u /\ (Len(u.in) <= NestLimit => Shallow(Taken(s, n)))
  BY <1>0, <1>2, <1>3, TakeToken
<1> HIDE DEF st, x, n
<1>5. u = [in |-> st.in, at |-> Begins[Last(st.in)]]
  BY <1>0, <1>1, <1>2, StepMore, Zenon DEF Comma
<1>6. Begins[Last(st.in)] \in {"value", "name"}
  BY <1>1 DEF Begins, Kinds
<1>7. u.in = st.in /\ u.at = Begins[r[Last(f)].type] /\ u.at # "opened"
  BY <1>1, <1>5, <1>6
<1> HIDE DEF u
<1>8. Expects(u) = Awaited(r, f, "item")
  BY <1>7 DEF Expects, Awaited
<1>9. Agrees(u, s, r, f, n, "item")
  BY <1>0, <1>2, <1>7, <1>8, AgreesNow
<1> QED
  BY <1>2, <1>4, <1>7, <1>9 DEF ReadAs, n

(* A new item is made for the element.                                     *)
LEMMA ReadNew ==
  ASSUME NEW s, NEW r, Tree(s, r), NEW f \in Seq(DOMAIN r), f # << >>, NEW p \in Nat, p <= Len(s),
         ReadAs(s, r, f, p, "item"), NEW v, SameKinds(r, v, f),
         NEW g, g = IF r[Last(f)].type = "array" THEN "value" ELSE "name"
  PROVE  ReadAs(s, v, f, p, g)
<1> DEFINE st == Final(Taken(s, p))
<1>1. /\ Typed(st) /\ st.in \in Seq(Kinds) /\ st.in = KindsIn(r, f) /\ Last(st.in) = r[Last(f)].type
      /\ Shallow(Taken(s, p)) /\ Agrees(st, s, r, f, p, "item") /\ st.in # << >>
  BY ReaderIs
<1> HIDE DEF st
<1>2. Last(st.in) \in Kinds
  BY <1>1, LastKind
<1>3. Begins[r[Last(f)].type] = g
  BY <1>1, <1>2 DEF Begins, Kinds
<1>4. Expects(st) = g /\ g \in {"value", "name"}
  BY <1>1, <1>3 DEF Agrees, Awaited
<1>5. Expects(st) = Awaited(v, f, g)
  BY <1>4 DEF Awaited
<1>6. v[Last(f)].type = r[Last(f)].type
  <2>1. Last(f) = f[Len(f)] /\ Len(f) \in DOMAIN f
    BY FrameIn
  <2> QED
    BY <2>1 DEF SameKinds
<1>7. st.in = KindsIn(v, f)
  BY <1>1, KindsKept
<1>8. Agrees(st, s, v, f, p, g)
  BY <1>1, <1>4, <1>5, <1>6, <1>7 DEF Agrees, KindsIn
<1> QED
  BY <1>1, <1>8 DEF ReadAs, st

(* A name, and the colon behind it.                                        *)
LEMMA ReadName ==
  ASSUME NEW s, NEW r, Tree(s, r), NEW f \in Seq(DOMAIN r), NEW p \in Nat, p < Len(s),
         ReadAs(s, r, f, p, "name"), s[p + 1] = "str"
  PROVE  ReadAs(s, r, f, p + 1, "colon")
<1> DEFINE st == Final(Taken(s, p))
           x == s[p + 1]
           u == Step(st, x)
           n == p + 1
<1>0. p <= Len(s) /\ x \in Token /\ n \in Nat /\ n # 0 /\ x = "str" /\ x # "ws" /\ s \in Seq(Token)
  BY DEF Tree
<1>2. /\ Typed(st) /\ st.in \in Seq(Kinds) /\ st.in = KindsIn(r, f)
      /\ Len(st.in) <= NestLimit /\ Shallow(Taken(s, p)) /\ Agrees(st, s, r, f, p, "name")
  BY <1>0, ReaderIs
<1>3. ~Blank(s, p + 1)
  BY <1>0, <1>2, TokenTaken
<1>4. Final(Taken(s, n)) = u /\ (Len(u.in) <= NestLimit => Shallow(Taken(s, n)))
  BY <1>0, <1>2, <1>3, TakeToken
<1> HIDE DEF st, x, n
<1>5. Expects(st) = "name"
  BY <1>2 DEF Agrees, Awaited
<1>6. u = [in |-> st.in, at |-> "colon"]
  BY <1>0, <1>2, <1>5, StepName
<1>7. u.in = st.in /\ u.at = "colon"
  BY <1>6
<1> HIDE DEF u
<1>8. Expects(u) = Awaited(r, f, "colon")
  BY <1>7 DEF Expects, Awaited
<1>9. Agrees(u, s, r, f, n, "colon")
  BY <1>0, <1>2, <1>7, <1>8, AgreesNow
<1> QED
  BY <1>2, <1>4, <1>7, <1>9 DEF ReadAs, n

LEMMA ColonHere ==
  ASSUME NEW st, Typed(st), Expects(st) = "colon"
  PROVE  st.at = "colon"
<1>1. st.at = "opened" => Begins[Last(st.in)] \in {"value", "name"}
  BY LastKind DEF Typed
<1> QED
  BY <1>1 DEF Expects

LEMMA ReadColon ==
  ASSUME NEW s, NEW r, Tree(s, r), NEW f \in Seq(DOMAIN r), NEW p \in Nat, p < Len(s),
         ReadAs(s, r, f, p, "colon"), s[p + 1] = Colon
  PROVE  ReadAs(s, r, f, p + 1, "value")
<1> DEFINE st == Final(Taken(s, p))
           x == s[p + 1]
           u == Step(st, x)
           n == p + 1
<1>0. p <= Len(s) /\ x \in Token /\ n \in Nat /\ n # 0 /\ x = Colon /\ x # "ws" /\ s \in Seq(Token)
  BY Signs DEF Tree
<1>2. /\ Typed(st) /\ st.in \in Seq(Kinds) /\ st.in = KindsIn(r, f)
      /\ Len(st.in) <= NestLimit /\ Shallow(Taken(s, p)) /\ Agrees(st, s, r, f, p, "colon")
  BY <1>0, ReaderIs
<1>3. ~Blank(s, p + 1)
  BY <1>0, <1>2, TokenTaken
<1>4. Final(Taken(s, n)) = u /\ (Len(u.in) <= NestLimit => Shallow(Taken(s, n)))
  BY <1>0, <1>2, <1>3, TakeToken
<1> HIDE DEF st, x, n
<1>5. st.at = "colon"
  <2>1. Expects(st) = "colon"
    BY <1>2 DEF Agrees, Awaited
  <2> QED
    BY <1>2, <2>1, ColonHere
<1>6. u = [in |-> st.in, at |-> "value"]
  BY <1>0, <1>2, <1>5, StepColon, Zenon DEF Colon
<1>7. u.in = st.in /\ u.at = "value"
  BY <1>6
<1> HIDE DEF u
<1>8. Expects(u) = Awaited(r, f, "value")
  BY <1>7 DEF Expects, Awaited
<1>9. Agrees(u, s, r, f, n, "value")
  BY <1>0, <1>2, <1>7, <1>8, AgreesNow
<1> QED
  BY <1>2, <1>4, <1>7, <1>9 DEF ReadAs, n

(* The value is passed on.                                                 *)
LEMMA ReadParsed ==
  ASSUME NEW s, NEW r, NEW f, NEW p, ReadAs(s, r, f, p, "parsed")
  PROVE  ReadAs(s, r, f, p, IF f = << >> THEN "accepted" ELSE "more")
BY DEF ReadAs, Agrees, Awaited

(* White space is left out, and a mark in front.                           *)
LEMMA ReadBlank ==
  ASSUME NEW s, NEW r, Tree(s, r), NEW f, NEW p \in Nat, p < Len(s), NEW g,
         ReadAs(s, r, f, p, g), s[p + 1] = "ws"
  PROVE  ReadAs(s, r, f, p + 1, g)
<1>1. s \in Seq(Token) /\ Blank(s, p + 1) /\ p + 1 # 0
  BY DEF Tree, Blank
<1>2. Taken(s, p + 1) = Taken(s, p)
  BY <1>1, TakenNext
<1> DEFINE st == Final(Taken(s, p))
           n == p + 1
<1>3. Shallow(Taken(s, p)) /\ Agrees(st, s, r, f, p, g)
  BY DEF ReadAs
<1>4. n # 0 /\ s[p + 1] = "ws"
  BY <1>1
<1> HIDE DEF st, n
<1>5. Agrees(st, s, r, f, n, g)
  BY <1>3, <1>4 DEF Agrees
<1> QED
  BY <1>2, <1>3, <1>5 DEF ReadAs, st, n

LEMMA FreshReads ==
  ASSUME NEW s \in Seq(Token), NEW n \in Nat, Taken(s, n) = << >>, NEW r, NEW g \in {"bom", "value"},
         n = 0 /\ g # "bom" => s # << >> /\ s[1] # "bom"
  PROVE  ReadAs(s, r, << >>, n, g)
<1>1. << >> \in Seq(Token) /\ Len(<< >>) = 0 /\ 0 .. 0 = {0} /\ DOMAIN << >> = {}
  OBVIOUS
<1>2. States(<< >>)[0] = Fresh
  BY <1>1, StatesAre
<1>3. Final(<< >>) = Fresh /\ Shallow(<< >>)
  BY <1>1, <1>2 DEF Final, Shallow, Fresh
<1>4. Fresh.in = << >> /\ Fresh.at = "value" /\ Expects(Fresh) = "value"
  BY DEF Fresh, Expects
<1>5. [i \in DOMAIN << >> |-> r[<< >>[i]].type] = << >>
  BY <1>1
<1>6. Agrees(Fresh, s, r, << >>, n, g)
  BY <1>4, <1>5 DEF Agrees, Awaited
<1> QED
  BY <1>3, <1>6 DEF ReadAs

LEMMA ReadBom ==
  ASSUME NEW s \in Seq(Token), NEW r, s # << >>
  PROVE  ReadAs(s, r, << >>, IF s[1] = "bom" THEN 1 ELSE 0, "value")
<1>0. 0 < Len(s) /\ 0 + 1 = 1
  OBVIOUS
<1>1. Taken(s, 0) = << >>
  BY TakenNone
<1>2. CASE s[1] = "bom"
  <2>1. Blank(s, 0 + 1)
    BY <1>2 DEF Blank
  <2>2. Taken(s, 0 + 1) = Taken(s, 0)
    BY <1>0, <2>1, TakenNext
  <2>3. ReadAs(s, r, << >>, 1, "value")
    BY <1>0, <1>1, <2>2, FreshReads
  <2> QED
    BY <1>2, <2>3
<1>3. CASE s[1] # "bom"
  BY <1>1, <1>3, FreshReads
<1> QED
  BY <1>2, <1>3

(* The text grows.                                                         *)
LEMMA ReadLonger ==
  ASSUME NEW s, NEW r, Tree(s, r), NEW f, NEW p \in Nat, p <= Len(s), NEW g,
         ReadAs(s, r, f, p, g), NEW q, Longer(s, q)
  PROVE  ReadAs(q, r, f, p, g)
<1>1. s \in Seq(Token) /\ q \in Seq(Token) /\ Len(s) \in Nat /\ Len(q) \in Nat /\ Len(s) <= Len(q)
      /\ p <= Len(q) /\ \A i \in 1 .. Len(s) : q[i] = s[i]
  BY DEF Tree, Longer
<1>2. Taken(q, p) = Taken(s, p)
  <2>1. \A i \in 1 .. p : q[i] = s[i]
    BY <1>1
  <2> QED
    BY <1>1, <2>1, TakenSame
<1> DEFINE st == Final(Taken(s, p))
<1>3. Shallow(Taken(s, p)) /\ Agrees(st, s, r, f, p, g)
  BY DEF ReadAs
<1>4. p < Len(s) => p < Len(q) /\ q[p + 1] = s[p + 1]
  BY <1>1
<1>5. s # << >> => q # << >> /\ q[1] = s[1]
  BY <1>1
<1> HIDE DEF st
<1>6. Agrees(st, q, r, f, p, g)
  BY <1>3, <1>4, <1>5 DEF Agrees
<1> QED
  BY <1>2, <1>3, <1>6 DEF ReadAs, st

-----------------------------------------------------------------------------
(* Where the parser fails the reader is stuck, or too deep.                *)

LEMMA RefusedNow ==
  ASSUME NEW s \in Seq(Token), NEW p \in Nat, p < Len(s), ~Blank(s, p + 1), Shallow(Taken(s, p)),
         NEW st, st = Final(Taken(s, p)), st.at \notin {"stuck", "done"},
         Step(st, s[p + 1]) = Stuck \/ Len(Step(st, s[p + 1]).in) > NestLimit
  PROVE  Refused(Plain(s))
<1> DEFINE q == Taken(s, p)
           n == p + 1
           u == Taken(s, n)
           x == s[p + 1]
           m == Len(q) + 1
<1>0. p <= Len(s) /\ n \in Nat /\ n <= Len(s) /\ x \in Token
  OBVIOUS
<1>1. q \in Seq(Token) /\ u = Append(q, x)
  BY <1>0, TakenNext
<1>2. Heads(u, Plain(s)) /\ Plain(s) \in Seq(Token)
  BY <1>0, TakenHeads
<1>3. st = Final(q) /\ (Step(st, x) = Stuck \/ Len(Step(st, x).in) > NestLimit)
  OBVIOUS
<1> HIDE DEF q, x, u, n
<1>4. /\ u \in Seq(Token) /\ Len(u) = Len(q) + 1 /\ Final(u) = Step(st, x)
      /\ \A i \in 0 .. Len(q) : States(u)[i] = States(q)[i]
  BY <1>0, <1>1, <1>3, FinalAppend
<1>5. Len(q) \in Nat /\ m \in Nat /\ m \in 1 .. Len(u) /\ Len(u) = m
  BY <1>1, <1>4
<1>6. States(u)[m] = Stuck \/ Len(States(u)[m].in) > NestLimit
  BY <1>3, <1>4, <1>5 DEF Final
<1>7. ASSUME NEW i \in 0 .. m - 1 PROVE States(u)[i] # Leave(<< >>)
  <2>1. i \in 0 .. Len(q) /\ Len(q) \in 0 .. Len(q) /\ (i = Len(q) \/ i < Len(q))
    BY <1>5
  <2>2. States(u)[i] = States(q)[i]
    BY <1>4, <2>1
  <2>3. CASE i = Len(q)
    BY <1>3, <2>2, <2>3 DEF Final, Leave
  <2>4. CASE i < Len(q)
    <3> SUFFICES ASSUME States(q)[i] = Leave(<< >>) PROVE FALSE
      BY <2>2
    <3>1. States(q)[Len(q)] = Stuck
      BY <1>1, <2>1, <2>4, StuckStays
    <3> QED
      BY <1>3, <3>1 DEF Final, Stuck
  <2> QED
    BY <2>1, <2>3, <2>4
<1> HIDE DEF m
<1>8. Refused(u)
  BY <1>5, <1>6, <1>7 DEF Refused
<1> QED
  BY <1>2, <1>4, <1>8, RefusedGrows

(* At a token that is not the one awaited.                                 *)
Unexpected(r, f, g, x) ==
  CASE g = "value" -> x \notin Scalar /\ (x \in Open => Len(f) >= NestLimit)
    [] g = "name" -> x # "str"
    [] g = "colon" -> x # Colon
    [] g = "more" -> f # << >> /\ x # Comma /\ x # Closing[r[Last(f)].type]

(* The reader cannot go on with it.                                        *)
Fails(st, x) == Step(st, x) = Stuck \/ Len(Step(st, x).in) > NestLimit

LEMMA NotClosing ==
  ASSUME NEW s, NEW r, Tree(s, r), NEW f \in Seq(DOMAIN r), NEW p \in Nat, p < Len(s),
         NEW g \in {"value", "name"}, ReadAs(s, r, f, p, g), NEW st, st = Final(Taken(s, p))
  PROVE  ~Closes(st, s[p + 1]) /\ Expects(st) = g
<1>1. /\ Typed(st) /\ Agrees(st, s, r, f, p, g) /\ (st.in = << >> <=> f = << >>)
      /\ f # << >> => Last(st.in) = r[Last(f)].type
  <2>1. p <= Len(s)
    BY DEF Tree
  <2> QED
    BY <2>1, ReaderIs
<1>2. Expects(st) = g
  BY <1>1 DEF Agrees, Awaited
<1>3. st.at # "more"
  BY <1>2 DEF Expects
<1>4. ASSUME st.at = "opened" PROVE s[p + 1] # Closing[Last(st.in)]
  <2>1. f # << >>
    BY <1>1, <1>4 DEF Typed
  <2> QED
    BY <1>1, <1>4, <2>1 DEF Agrees
<1> QED
  BY <1>2, <1>3, <1>4 DEF Closes

LEMMA FailsHere ==
  ASSUME NEW s, NEW r, Tree(s, r), NEW f \in Seq(DOMAIN r), NEW p \in Nat, p < Len(s),
         NEW g \in {"value", "name", "colon", "more"}, ReadAs(s, r, f, p, g),
         Unexpected(r, f, g, s[p + 1]), NEW st, st = Final(Taken(s, p))
  PROVE  Fails(st, s[p + 1]) /\ st.at \notin {"stuck", "done"}
<1> DEFINE x == s[p + 1]
<1>0. p <= Len(s) /\ x \in Token /\ Unexpected(r, f, g, x) /\ Len(f) \in Nat
  BY DEF Tree
<1>1. /\ Typed(st) /\ st.in \in Seq(Kinds) /\ Len(st.in) = Len(f) /\ Agrees(st, s, r, f, p, g)
  BY <1>0, ReaderIs
<1>2. Expects(st) = g
  BY <1>1 DEF Agrees, Awaited
<1>3. st.at \notin {"stuck", "done"}
  BY <1>2 DEF Expects
<1>4. g \in {"value", "name"} => ~Closes(st, x)
  BY NotClosing
<1> SUFFICES Fails(st, x)
  BY <1>3
<1> HIDE DEF x
<1>5. CASE g = "value"
  <2>1. x \notin Scalar /\ (x \in Open => Len(f) >= NestLimit)
    BY <1>0, <1>5 DEF Unexpected
  <2>2. CASE x \in Open
    <3>1. Step(st, x) = [in |-> Append(st.in, KindOf[x]), at |-> "opened"]
      BY <1>0, <1>1, <1>2, <1>5, <2>2, StepValue
    <3>2. Len(Append(st.in, KindOf[x])) = Len(st.in) + 1
      BY <1>1
    <3>3. Len(f) + 1 > NestLimit
      BY <1>0, <2>1, <2>2
    <3>4. Step(st, x).in = Append(st.in, KindOf[x])
      BY <3>1
    <3> QED
      BY <1>1, <3>2, <3>3, <3>4 DEF Fails
  <2>3. CASE x \notin Open
    <3>1. Step(st, x) = Stuck
      BY <1>2, <1>4, <1>5, <2>1, <2>3 DEF Step
    <3> QED
      BY <3>1 DEF Fails
  <2> QED
    BY <2>2, <2>3
<1>6. CASE g = "name"
  <2>1. x # "str"
    BY <1>0, <1>6 DEF Unexpected
  <2>2. Step(st, x) = Stuck
    BY <1>0, <1>1, <1>2, <1>4, <1>6, <2>1, StepName
  <2> QED
    BY <2>2 DEF Fails
<1>7. CASE g = "colon"
  <2>1. x # Colon
    BY <1>0, <1>7 DEF Unexpected
  <2>2. st.at = "colon"
    BY <1>1, <1>2, <1>7, ColonHere
  <2>3. Step(st, x) = Stuck
    BY <1>0, <1>1, <2>1, <2>2, StepColon, Zenon DEF Colon
  <2> QED
    BY <2>3 DEF Fails
<1>8. CASE g = "more"
  <2>1. f # << >> /\ x # Comma /\ x # Closing[r[Last(f)].type]
    BY <1>0, <1>8 DEF Unexpected
  <2>2. st.at = "more" /\ Last(st.in) = r[Last(f)].type
    BY <1>0, <1>8, <2>1, ClosesHere
  <2>3. x \notin {Comma, Closing[Last(st.in)]}
    BY <2>1, <2>2
  <2>4. Step(st, x) = Stuck
    BY <1>0, <1>1, <2>2, <2>3, StepMore, Zenon DEF Comma
  <2> QED
    BY <2>4 DEF Fails
<1> QED
  BY <1>5, <1>6, <1>7, <1>8

LEMMA FailsRefused ==
  ASSUME NEW s, NEW r, Tree(s, r), NEW f \in Seq(DOMAIN r), NEW p \in Nat, p < Len(s),
         NEW g \in {"value", "name", "colon", "more"}, ReadAs(s, r, f, p, g),
         Unexpected(r, f, g, s[p + 1]), s[p + 1] # "ws"
  PROVE  Refused(Plain(s))
<1> DEFINE st == Final(Taken(s, p))
<1>1. Fails(st, s[p + 1]) /\ st.at \notin {"stuck", "done"}
  BY FailsHere
<1>2. Shallow(Taken(s, p)) /\ Agrees(st, s, r, f, p, g) /\ s \in Seq(Token)
  BY DEF ReadAs, Tree
<1> HIDE DEF st
<1>3. ~Blank(s, p + 1)
  BY <1>2, TokenTaken
<1>4. Step(st, s[p + 1]) = Stuck \/ Len(Step(st, s[p + 1]).in) > NestLimit
  BY <1>1 DEF Fails
<1> QED
  BY <1>1, <1>2, <1>3, <1>4, RefusedNow DEF st

-----------------------------------------------------------------------------
(* The steps of the parser.                                                *)

LEMMA HereIs ==
  ASSUME ReadInv, TypeOK, Laid(text, items, frames, Pos, Going)
  PROVE  /\ Pos <= Len(text) /\ Tree(text, items) /\ frames \in Seq(DOMAIN items)
         /\ items \in Seq(ItemType) /\ DOMAIN items = 1 .. Len(items) /\ Len(items) \in Nat
         /\ \A i \in DOMAIN frames : frames[i] \in DOMAIN items
         /\ Pending(Going) => \A i \in DOMAIN frames : frames[i] < Len(items)
<1>1. Tree(text, items) /\ frames \in Seq(DOMAIN items)
  BY TreeIs
<1>2. items \in Seq(ItemType) /\ DOMAIN items = 1 .. Len(items) /\ Len(items) \in Nat
  BY DEF TypeOK, ItemType
<1> QED
  BY <1>1, <1>2 DEF Laid, Nested

LEMMA LookReads ==
  ASSUME ReadInv, TypeOK, Look, Laid(text, items, frames, Pos, Going),
         ReadAs(text, items, frames, Pos, Going)
  PROVE  ReadAs(text', items', frames', Pos', Going')
<1>1. PICK x \in Token : text' = Append(text, x)
  BY DEF Look, Token, Scalar, Word, Number
<1>2. /\ UNCHANGED <<pc, after, items, frames, offset>> /\ ~Accessible /\ ~Ended
      /\ pc # "item"
  BY DEF Look, tree, Reading
<1>3. text \in Seq(Token) /\ offset \in 0 .. Len(text) /\ Len(text) \in Nat
  BY DEF ReadInv
<1>4. /\ text' \in Seq(Token) /\ Len(text') = Len(text) + 1
      /\ \A i \in 1 .. Len(text) : text'[i] = text[i]
  BY <1>1, <1>3
<1>5. Longer(text, text')
  BY <1>3, <1>4 DEF Longer
<1>6. Pos' = Pos
  <2>1. Accessible'
    BY <1>2, <1>3, <1>4 DEF Accessible
  <2>2. Pos' = offset' /\ Pos = offset
    BY <1>2, <2>1 DEF Pos
  <2> QED
    BY <1>2, <2>2
<1>7. Going' = Going /\ Pos \in Nat
  BY <1>2, PosIs DEF Going
<1>8. ReadAs(text', items, frames, Pos, Going)
  BY <1>5, <1>7, HereIs, ReadLonger
<1> QED
  BY <1>2, <1>6, <1>7, <1>8

LEMMA StartReads ==
  ASSUME ReadInv, TypeOK, ParserInv, Start, pc' # "fail"
  PROVE  ReadAs(text', items', frames', Pos', Going') /\ offset' = 0
<1>1. /\ pc' = "bom" /\ pc = "start" /\ UNCHANGED <<text, offset, after, frames>>
  BY DEF Start, Unallocated, parse
<1>2. frames = << >> /\ offset = 0 /\ text \in Seq(Token)
  BY <1>1 DEF ParserInv, ReadInv
<1>3. Pos' = 0 /\ Going' = "bom"
  BY <1>1, <1>2 DEF Pos, Going
<1>4. ReadAs(text, items', << >>, 0, "bom")
  BY <1>2, TakenNone, FreshReads
<1> QED
  BY <1>1, <1>2, <1>3, <1>4

LEMMA BomReads ==
  ASSUME ReadInv, TypeOK, ParserInv, SkipBom, offset = 0, Laid(text, items, frames, Pos, Going)
  PROVE  ReadAs(text', items', frames', Pos', Going')
<1>1. /\ pc = "bom" /\ Accessible /\ pc' = "skip" /\ after' = "value"
      /\ UNCHANGED <<text, items, frames>>
      /\ offset' = IF At = "bom" THEN offset + 1 ELSE offset
  BY DEF SkipBom, SkipTo, tree
<1>2. Pos = offset /\ Going = "bom" /\ Going' = "value"
  BY <1>1, PosIs DEF Going
<1>3. /\ offset \in Nat /\ Len(text) \in Nat /\ offset < Len(text) /\ At = text[offset + 1]
      /\ text # << >> /\ Last(text) = "end" => offset' < Len(text)
  BY <1>1, AtToken
<1>4. offset' \in Nat /\ offset' = IF text[1] = "bom" THEN 1 ELSE 0
  BY <1>1, <1>3
<1>5. Pos' = offset'
  BY <1>1, <1>3, <1>4, PosNext
<1>6. frames = << >>
  BY <1>2 DEF Laid, Here
<1>7. text \in Seq(Token) /\ text # << >>
  BY <1>3 DEF ReadInv
<1>8. ReadAs(text, items, << >>, IF text[1] = "bom" THEN 1 ELSE 0, "value")
  BY <1>7, ReadBom
<1> QED
  BY <1>1, <1>2, <1>4, <1>5, <1>6, <1>8

LEMMA OverReads ==
  ASSUME ReadInv, TypeOK, SkipOver, Laid(text, items, frames, Pos, Going),
         ReadAs(text, items, frames, Pos, Going)
  PROVE  ReadAs(text', items', frames', Pos', Going')
<1>1. /\ pc = "skip" /\ Accessible /\ At \in {"ws", "end"} /\ offset' = offset + 1
      /\ UNCHANGED <<text, items, frames, pc, after>>
  BY DEF SkipOver, tree
<1>2. Pos = offset /\ Going' = Going /\ Pos \in Nat
  BY <1>1, PosIs DEF Going
<1>3. /\ offset \in Nat /\ Len(text) \in Nat /\ offset < Len(text) /\ text[offset + 1] = At
      /\ text # << >> /\ Last(text) = "end" => (At # "end" => offset + 1 < Len(text))
      /\ At = "end" => offset + 1 = Len(text) /\ Ended
  BY <1>1, AtToken
<1>4. CASE At = "end"
  <2>1. ~Accessible' /\ Ended' /\ offset' - 1 = offset
    BY <1>1, <1>3, <1>4 DEF Accessible, Ended
  <2>2. Pos' = offset
    BY <1>1, <2>1 DEF Pos
  <2> QED
    BY <1>1, <1>2, <2>2
<1>5. CASE At = "ws"
  <2>1. text # << >> /\ Last(text) = "end" => offset + 1 < Len(text)
    BY <1>3, <1>5
  <2>2. offset' \in Nat /\ (text # << >> /\ Last(text) = "end" => offset' < Len(text))
    BY <1>1, <1>3, <2>1
  <2>3. Pos' = offset + 1
    BY <1>1, <2>2, PosNext
  <2>4. ReadAs(text, items, frames, Pos + 1, Going)
    BY <1>2, <1>3, <1>5, TreeIs, ReadBlank
  <2> QED
    BY <1>1, <1>2, <2>3, <2>4
<1> QED
  BY <1>1, <1>4, <1>5

(* Behind white space it is at a token that is none.                       *)
LEMMA DoneReads ==
  ASSUME ReadInv, TypeOK, SkipDone, ReadAs(text, items, frames, Pos, Going)
  PROVE  /\ ReadAs(text', items', frames', Pos', Going')
         /\ Accessible' /\ At' # "ws" /\ pc' # "bom"
<1>1. /\ pc = "skip" /\ pc' = after /\ (Accessible \/ Ended)
      /\ offset' = IF Accessible THEN offset ELSE offset - 1
      /\ UNCHANGED <<text, items, frames, after>>
      /\ Accessible => At \notin {"ws", "end"}
  BY DEF SkipDone, tree
<1>2. after \notin {"skip", "item", "bom"}
  BY DEF ReadInv
<1>3. Pos' = Pos /\ Going' = Going
  BY <1>1, <1>2 DEF Pos, Going
<1>4. CASE Accessible
  <2>1. Accessible' /\ At' = At
    BY <1>1, <1>4 DEF Accessible, At
  <2> QED
    BY <1>1, <1>2, <1>3, <1>4, <2>1
<1>5. CASE ~Accessible
  <2>1. offset = Len(text) /\ Len(text) > 0 /\ Ended /\ text \in Seq(Token)
    BY <1>1, <1>5 DEF Accessible, Ended, ReadInv
  <2>2. Accessible' /\ At' = text[Len(text)]
    BY <1>1, <1>5, <2>1 DEF Accessible, At
  <2>3. text[Len(text)] = "end"
    BY <2>1 DEF Ended, Last
  <2> QED
    BY <1>1, <1>2, <1>3, <2>2, <2>3
<1> QED
  BY <1>4, <1>5

LEMMA ValueReads ==
  ASSUME ReadInv, TypeOK, ParserInv, ParseWord \/ ParseNumber \/ ParseString,
         Laid(text, items, frames, Pos, Going), ReadAs(text, items, frames, Pos, Going)
  PROVE  ReadAs(text', items', frames', Pos', Going')
<1>1. /\ pc = "value" /\ Accessible /\ At \in Scalar /\ offset' = offset + 1 /\ pc' = "parsed"
      /\ UNCHANGED <<text, frames>>
      /\ items' = [items EXCEPT ![Item].type = At, ![Item].from = offset, ![Item].to = offset + 1]
  BY DEF ParseWord, ParseNumber, ParseString, ParseAs, Scalar
<1>2. Pos = offset /\ Going = "value" /\ Going' = "parsed" /\ Pos \in Nat
  BY <1>1, PosIs DEF Going
<1>3. At # "end"
  BY <1>1 DEF Scalar, Word, Number
<1>4. /\ offset \in Nat /\ Len(text) \in Nat /\ offset < Len(text) /\ text[offset + 1] = At
      /\ text # << >> /\ Last(text) = "end" => offset + 1 < Len(text)
  BY <1>1, <1>3, AtToken
<1>5. Pos' = offset + 1
  BY <1>1, <1>4, PosNext
<1>6. /\ Tree(text, items) /\ frames \in Seq(DOMAIN items)
      /\ \A i \in DOMAIN frames : frames[i] \in DOMAIN items /\ frames[i] # Item
  BY <1>2, HereIs DEF Pending, Item
<1>7. SameKinds(items, items', frames)
  <2>1. ASSUME NEW j \in DOMAIN items, j # Item PROVE items'[j] = items[j]
    BY <1>1, <2>1
  <2> QED
    BY <1>6, <2>1 DEF SameKinds
<1> DEFINE v == items'
<1>8. SameKinds(items, v, frames)
  BY <1>7
<1> HIDE DEF v
<1>9. ReadAs(text, v, frames, Pos + 1, "parsed")
  BY <1>1, <1>2, <1>4, <1>6, <1>8, ReadScalar
<1> QED
  BY <1>1, <1>2, <1>5, <1>9 DEF v

LEMMA OpenReads ==
  ASSUME ReadInv, TypeOK, ParserInv, ParseOpen, Laid(text, items, frames, Pos, Going),
         ReadAs(text, items, frames, Pos, Going)
  PROVE  ReadAs(text', items', frames', Pos', Going')
<1>1. /\ pc = "value" /\ Accessible /\ At \in Open /\ offset' = offset + 1
      /\ pc' = "skip" /\ after' = "opened" /\ text' = text /\ depth < NestLimit
      /\ frames' = Append(frames, Item)
      /\ items' = [items EXCEPT ![Item].type = KindOf[At], ![Item].from = offset]
  BY DEF ParseOpen, SkipTo
<1>2. Pos = offset /\ Going = "value" /\ Going' = "opened" /\ Pos \in Nat
  BY <1>1, PosIs DEF Going
<1>3. At # "end"
  BY <1>1 DEF Open
<1>4. /\ offset \in Nat /\ Len(text) \in Nat /\ offset < Len(text) /\ text[offset + 1] = At
      /\ text # << >> /\ Last(text) = "end" => offset + 1 < Len(text)
  BY <1>1, <1>3, AtToken
<1>5. Pos' = offset + 1
  BY <1>1, <1>4, PosNext
<1>6. /\ Tree(text, items) /\ frames \in Seq(DOMAIN items) /\ items \in Seq(ItemType)
      /\ DOMAIN items = 1 .. Len(items) /\ Len(items) \in Nat
      /\ \A i \in DOMAIN frames : frames[i] \in DOMAIN items /\ frames[i] # Item
  BY <1>2, HereIs DEF Pending, Item
<1>7. Len(frames) < NestLimit /\ items # << >>
  BY <1>1 DEF ParserInv, Parsing, Reading
<1>8. Item \in DOMAIN items
  BY <1>6, <1>7 DEF Item
<1> DEFINE k == Item
           u == KindOf[At]
<1>9. SameKinds(items, items', frames) /\ DOMAIN items' = DOMAIN items /\ items'[k].type = u
  <2> HIDE DEF u
  <2>1. items[k] \in ItemType /\ DOMAIN items[k] = {"type", "parent", "from", "to"}
    <3>1. items[k] \in ItemType
      BY <1>6, <1>8
    <3>2. \A x \in ItemType : DOMAIN x = {"type", "parent", "from", "to"}
      BY DEF ItemType
    <3> QED
      BY <3>1, <3>2
  <2> HIDE DEF k
  <2>2. items' = [items EXCEPT ![k].type = u, ![k].from = offset]
    BY <1>1 DEF u, k
  <2>20. k \in DOMAIN items
    BY <1>8 DEF k
  <2>3. items'[k] = [items[k] EXCEPT !.type = u, !.from = offset] /\ DOMAIN items' = DOMAIN items
    BY <1>6, <2>2, <2>20
  <2>4. ASSUME NEW j \in DOMAIN items, j # k PROVE items'[j] = items[j]
    BY <2>2, <2>4
  <2>5. SameKinds(items, items', frames)
    BY <1>6, <2>4 DEF SameKinds, k
  <2> QED
    BY <2>1, <2>3, <2>5
<1> HIDE DEF k, u
<1> DEFINE v == items'
<1>10. SameKinds(items, v, frames) /\ k \in DOMAIN v /\ frames \in Seq(DOMAIN v) /\ v[k].type = u
  BY <1>6, <1>8, <1>9 DEF k
<1> HIDE DEF v
<1>11. ReadAs(text, v, Append(frames, k), Pos + 1, "opened")
  <2>1. v[k].type = KindOf[text[Pos + 1]] /\ text[Pos + 1] \in Open /\ Pos < Len(text)
    BY <1>1, <1>2, <1>4, <1>10 DEF u
  <2> QED
    BY <1>2, <1>6, <1>7, <1>10, <2>1, ReadOpen
<1> QED
  BY <1>1, <1>2, <1>5, <1>11 DEF v, k

LEMMA CloseReads ==
  ASSUME ReadInv, TypeOK, ParserInv, pc \in {"opened", "more"}, Accessible, At = Closing[Kind],
         Close, UNCHANGED text, Laid(text, items, frames, Pos, Going),
         ReadAs(text, items, frames, Pos, Going)
  PROVE  ReadAs(text', items', frames', Pos', Going')
<1>1. /\ offset' = offset + 1 /\ frames' = Front(frames) /\ pc' = "parsed"
      /\ items' = [items EXCEPT ![Last(frames)].to = offset + 1]
      /\ frames # << >>
  BY DEF Close, ParserInv, Inside
<1>2. Pos = offset /\ Going = pc /\ Going' = "parsed" /\ Pos \in Nat
  BY <1>1, PosIs DEF Going
<1> DEFINE c == Last(frames)
<1>3. /\ Tree(text, items) /\ frames \in Seq(DOMAIN items) /\ items \in Seq(ItemType)
      /\ \A i \in DOMAIN frames : frames[i] \in DOMAIN items
  BY HereIs
<1>4. c \in DOMAIN items /\ c = frames[Len(frames)] /\ Len(frames) \in DOMAIN frames
  BY <1>1, <1>3, FrameIn
<1>5. Kind = items[c].type
  BY DEF Kind
<1> HIDE DEF c
<1>6. items[c].type \in Container
  BY <1>4 DEF Laid, Nested
<1>7. At # "end"
  BY <1>5, <1>6, ClosingIs DEF Container, Opening, Closing
<1>8. /\ offset \in Nat /\ Len(text) \in Nat /\ offset < Len(text) /\ text[offset + 1] = At
      /\ text # << >> /\ Last(text) = "end" => offset + 1 < Len(text)
  BY <1>7, AtToken
<1>9. Pos' = offset + 1
  BY <1>1, <1>8, PosNext
<1>10. SameKinds(items, items', frames)
  <2>1. items[c] \in ItemType /\ DOMAIN items[c] = {"type", "parent", "from", "to"}
    <3>1. items[c] \in ItemType
      BY <1>3, <1>4
    <3>2. \A x \in ItemType : DOMAIN x = {"type", "parent", "from", "to"}
      BY DEF ItemType
    <3> QED
      BY <3>1, <3>2
  <2>2. items'[c] = [items[c] EXCEPT !.to = offset + 1]
    BY <1>1, <1>3, <1>4 DEF c
  <2>3. items'[c].type = items[c].type
    BY <2>1, <2>2
  <2>4. ASSUME NEW j \in DOMAIN items, j # c PROVE items'[j] = items[j]
    BY <1>1, <2>4 DEF c
  <2>5. \A j \in DOMAIN items : items'[j].type = items[j].type
    BY <2>3, <2>4
  <2> QED
    BY <1>3, <2>5 DEF SameKinds
<1> DEFINE v == items'
<1>11. SameKinds(items, v, frames)
  BY <1>10
<1> HIDE DEF v
<1>12. ReadAs(text, v, Front(frames), Pos + 1, "parsed")
  <2>1. ReadAs(text, items, frames, Pos, pc) /\ text[Pos + 1] = Closing[items[Last(frames)].type]
    BY <1>2, <1>5, <1>8 DEF c
  <2> QED
    BY <1>1, <1>2, <1>3, <1>8, <1>11, <2>1, ReadClose
<1> QED
  BY <1>1, <1>2, <1>9, <1>12 DEF v

LEMMA OpenedReads ==
  ASSUME ReadInv, TypeOK, ParserInv, Opened \/ More, pc' # "fail", At # "ws",
         Laid(text, items, frames, Pos, Going), ReadAs(text, items, frames, Pos, Going)
  PROVE  ReadAs(text', items', frames', Pos', Going')
<1>1. pc \in {"opened", "more"} /\ Accessible /\ text' = text
  BY DEF Opened, More
<1>2. CASE At = Closing[Kind] /\ Close
  BY <1>1, <1>2, CloseReads
<1>3. CASE ~(At = Closing[Kind] /\ Close)
  <2>1. /\ UNCHANGED <<frames, items>> /\ pc' = "item"
        /\ \/ pc = "opened" /\ offset' = offset - 1 /\ At # Closing[Kind]
           \/ pc = "more" /\ At = Comma /\ offset' = offset
    BY <1>3, Zenon DEF Opened, More, Comma
  <2>2. Pos = offset /\ Going = pc /\ Going' = "item" /\ Pos \in Nat /\ Pos' = offset' + 1
    BY <1>1, <2>1, PosIs DEF Going, Pos
  <2>3. /\ offset \in Nat /\ Len(text) \in Nat /\ offset < Len(text) /\ text[offset + 1] = At
        /\ frames # << >> /\ Tree(text, items) /\ frames \in Seq(DOMAIN items)
        /\ Kind = items[Last(frames)].type
    BY <1>1, AtToken, HereIs DEF ParserInv, Inside, Kind
  <2>4. CASE pc = "opened"
    <3>1. At # Closing[items[Last(frames)].type]
      BY <2>1, <2>3, <2>4
    <3>2. ReadAs(text, items, frames, Pos, "item")
      BY <2>2, <2>3, <2>4, <3>1, ReadFirst
    <3>3. Pos' = Pos
      BY <2>1, <2>2, <2>3, <2>4
    <3> QED
      BY <1>1, <2>1, <2>2, <3>2, <3>3
  <2>5. CASE pc = "more"
    <3>1. At = Comma /\ offset' = offset
      BY <2>1, <2>5
    <3>2. ReadAs(text, items, frames, Pos + 1, "item")
      BY <2>2, <2>3, <2>5, <3>1, ReadComma
    <3> QED
      BY <1>1, <2>1, <2>2, <3>1, <3>2
  <2> QED
    BY <1>1, <2>4, <2>5
<1> QED
  BY <1>2, <1>3

LEMMA ItemReads ==
  ASSUME ReadInv, TypeOK, ParserInv, NextItem, pc' # "fail", Laid(text, items, frames, Pos, Going),
         ReadAs(text, items, frames, Pos, Going)
  PROVE  ReadAs(text', items', frames', Pos', Going')
<1>1. /\ pc = "item" /\ Allocate(Last(frames)) /\ offset' = offset + 1 /\ pc' = "skip"
      /\ after' = IF Kind = "array" THEN "value" ELSE "name"
      /\ UNCHANGED <<text, frames>> /\ frames # << >>
  BY DEF NextItem, Unallocated, SkipTo, ParserInv, Inside
<1>2. Kind = items[Last(frames)].type
  BY DEF Kind
<1>3. Pos = offset + 1 /\ Going = "item" /\ Going' = after' /\ Pos \in Nat
      /\ offset \in Nat /\ Len(text) \in Nat
  BY <1>1, PosIs DEF Going, ReadInv
<1>4. Pos' = Pos
  <2>1. text # << >> /\ Last(text) = "end" => offset' < Len(text)
    BY <1>1, <1>3 DEF Laid, Nested
  <2> QED
    BY <1>1, <1>3, <2>1, PosNext
<1>5. /\ Pos <= Len(text) /\ Tree(text, items) /\ frames \in Seq(DOMAIN items)
      /\ items \in Seq(ItemType) /\ \A i \in DOMAIN frames : frames[i] \in DOMAIN items
  BY HereIs
<1> DEFINE e == NewItem(Last(frames))
           g == after'
           v == items'
<1>6. v = Append(items, e)
  BY <1>1 DEF Allocate
<1> HIDE DEF e
<1>7. \A j \in DOMAIN items : v[j] = items[j]
  BY <1>5, <1>6
<1>8. SameKinds(items, v, frames)
  BY <1>5, <1>7 DEF SameKinds
<1>9. g = IF items[Last(frames)].type = "array" THEN "value" ELSE "name"
  BY <1>1, <1>2
<1> HIDE DEF v, g
<1>10. ReadAs(text, v, frames, Pos, g)
  BY <1>1, <1>3, <1>5, <1>8, <1>9, ReadNew
<1> QED
  BY <1>1, <1>3, <1>4, <1>10 DEF v, g

LEMMA MemberReads ==
  ASSUME ReadInv, TypeOK, ParserInv, ParseName \/ ParseColon, pc' # "fail",
         Laid(text, items, frames, Pos, Going), ReadAs(text, items, frames, Pos, Going)
  PROVE  ReadAs(text', items', frames', Pos', Going')
<1>1. /\ Accessible /\ offset' = offset + 1 /\ pc' = "skip"
      /\ UNCHANGED <<text, frames, items>>
      /\ \/ pc = "name" /\ At = "str" /\ after' = "colon"
         \/ pc = "colon" /\ At = Colon /\ after' = "value"
  BY Zenon DEF ParseName, ParseColon, SkipTo, tree, Colon
<1>2. Pos = offset /\ Going = pc /\ Going' = after' /\ Pos \in Nat
  BY <1>1, PosIs DEF Going
<1>3. At # "end"
  <2>1. Colon # "end"
    BY Zenon DEF Colon
  <2> QED
    BY <1>1, <2>1
<1>4. /\ offset \in Nat /\ Len(text) \in Nat /\ offset < Len(text) /\ text[offset + 1] = At
      /\ text # << >> /\ Last(text) = "end" => offset + 1 < Len(text)
      /\ Tree(text, items) /\ frames \in Seq(DOMAIN items)
  BY <1>1, <1>3, AtToken, TreeIs
<1>5. Pos' = offset + 1
  BY <1>1, <1>4, PosNext
<1>6. CASE pc = "name" /\ At = "str" /\ after' = "colon"
  <2>1. ReadAs(text, items, frames, Pos + 1, "colon")
    BY <1>2, <1>4, <1>6, ReadName
  <2> QED
    BY <1>1, <1>2, <1>5, <1>6, <2>1
<1>7. CASE pc = "colon" /\ At = Colon /\ after' = "value"
  <2>1. ReadAs(text, items, frames, Pos + 1, "value")
    BY <1>2, <1>4, <1>7, ReadColon
  <2> QED
    BY <1>1, <1>2, <1>5, <1>7, <2>1
<1> QED
  BY <1>1, <1>6, <1>7

LEMMA ParsedReads ==
  ASSUME ReadInv, TypeOK, ParserInv, Parsed, Laid(text, items, frames, Pos, Going),
         ReadAs(text, items, frames, Pos, Going)
  PROVE  ReadAs(text', items', frames', Pos', Going')
<1>1. /\ pc = "parsed" /\ UNCHANGED <<text, offset, frames, items>>
      /\ IF frames = << >> THEN pc' = "accepted" ELSE pc' = "skip" /\ after' = "more"
  BY DEF Parsed, SkipTo, tree
<1>2. Pos = offset /\ Going = "parsed" /\ Pos \in Nat /\ offset \in Nat
  BY <1>1, PosIs DEF Going, ReadInv
<1>3. ReadAs(text, items, frames, Pos, IF frames = << >> THEN "accepted" ELSE "more")
  BY <1>2, ReadParsed
<1>4. Pos' = Pos
  <2>1. text # << >> /\ Last(text) = "end" => offset' < Len(text)
    BY <1>1, <1>2 DEF Laid, Nested
  <2> QED
    BY <1>1, <1>2, <2>1, PosNext
<1>5. Going' = IF frames = << >> THEN "accepted" ELSE "more"
  BY <1>1 DEF Going
<1> QED
  BY <1>1, <1>3, <1>4, <1>5

(* Where it fails, but for want of memory.                                 *)
LEMMA FailReads ==
  ASSUME ReadInv, TypeOK, ParserInv, Accessible, At # "ws", pc \in {"value", "name", "colon", "more"},
         Unexpected(items, frames, pc, At), UNCHANGED text, ReadAs(text, items, frames, Pos, Going)
  PROVE  Refused(Plain(text'))
<1>1. Pos = offset /\ Going = pc /\ Pos \in Nat
  BY PosIs DEF Going
<1>2. offset < Len(text) /\ text[offset + 1] = At /\ Tree(text, items) /\ frames \in Seq(DOMAIN items)
  BY AtToken, TreeIs
<1>3. Unexpected(items, frames, pc, text[Pos + 1]) /\ text[Pos + 1] # "ws" /\ Pos < Len(text)
      /\ ReadAs(text, items, frames, Pos, pc)
  BY <1>1, <1>2
<1> HIDE DEF Pos
<1>4. Refused(Plain(text))
  BY <1>1, <1>2, <1>3, FailsRefused
<1> QED
  BY <1>4

LEMMA Failing ==
  ASSUME TypeOK, ParserInv, ParseNothing \/ ParseName \/ ParseColon \/ More, pc' = "fail"
  PROVE  /\ Accessible /\ UNCHANGED text /\ pc \in {"value", "name", "colon", "more"}
         /\ Unexpected(items, frames, pc, At)
<1>1. CASE ParseNothing
  <2>1. pc = "value" /\ depth = Len(frames)
    BY <1>1 DEF ParseNothing, ParserInv, Parsing, Reading
  <2> QED
    BY <1>1, <2>1 DEF ParseNothing, Unexpected, parse
<1>2. CASE ParseName
  BY <1>2 DEF ParseName, Unexpected, SkipTo
<1>3. CASE ParseColon
  <2>1. Accessible /\ UNCHANGED text /\ pc = "colon" /\ At # Colon
    BY <1>3, Zenon DEF ParseColon, SkipTo, Colon
  <2> QED
    BY <2>1 DEF Unexpected
<1>4. CASE More
  <2>1. Accessible /\ UNCHANGED text /\ pc = "more" /\ At # Comma /\ At # Closing[Kind]
    BY <1>4, Zenon DEF More, Close, Comma
  <2>2. frames # << >>
    BY <2>1 DEF ParserInv, Inside
  <2> QED
    BY <2>1, <2>2 DEF Unexpected, Kind
<1> QED
  BY <1>1, <1>2, <1>3, <1>4

(* A step of the parser keeps it where the reader is.                      *)
LEMMA ParseReads ==
  ASSUME TreeInv, LayoutInv, ReaderInv, Parse
  PROVE  ReaderInv'
<1>0. ReadInv /\ TypeOK /\ ParserInv
  BY DEF TreeInv
<1>1. pc \in Parsing \ {"start"} => /\ Laid(text, items, frames, Pos, Going)
                                     /\ ReadAs(text, items, frames, Pos, Going)
  BY DEF LayoutInv, ReaderInv
<1>2. /\ pc = "bom" => offset = 0
      /\ pc \in Reading \ {"bom", "skip"} => Accessible /\ At # "ws"
      /\ pc \in {"fail", "rejected"} /\ mishaps = {} => Refused(Plain(text))
  BY DEF ReaderInv
<1> HIDE DEF Laid, Pos, Going, ReadAs, Refused, Plain
<1> SUFFICES /\ pc' \in Parsing \ {"start"} => ReadAs(text', items', frames', Pos', Going')
             /\ pc' = "bom" => offset' = 0
             /\ pc' \in Reading \ {"bom", "skip"} => Accessible' /\ At' # "ws"
             /\ pc' \in {"fail", "rejected"} /\ mishaps' = {} => Refused(Plain(text'))
  BY DEF ReaderInv
<1> USE DEF Parsing, Reading
<1>3. CASE Look
  <2>1. /\ pc \in Reading /\ ~Accessible /\ UNCHANGED <<pc, offset>>
    BY <1>3 DEF Look
  <2>2. pc \in {"bom", "skip"}
    BY <1>2, <2>1
  <2> QED
    BY <1>0, <1>1, <1>2, <1>3, <2>1, <2>2, LookReads
<1>4. CASE Start
  <2>1. pc' = "bom" \/ (pc' = "fail" /\ mishaps' # {})
    BY <1>4 DEF Start, Unallocated
  <2> QED
    BY <1>0, <1>4, <2>1, StartReads
<1>5. CASE SkipBom
  <2>1. pc = "bom" /\ pc' = "skip"
    BY <1>5 DEF SkipBom, SkipTo
  <2> QED
    BY <1>0, <1>1, <1>2, <1>5, <2>1, BomReads
<1>6. CASE SkipOver
  <2>1. pc = "skip" /\ pc' = "skip"
    BY <1>6 DEF SkipOver
  <2> QED
    BY <1>0, <1>1, <1>6, <2>1, OverReads
<1>7. CASE SkipDone
  <2>1. pc = "skip" /\ pc' \in {"value", "opened", "name", "colon", "more"}
    BY <1>0, <1>7 DEF SkipDone, ReadInv
  <2> QED
    BY <1>0, <1>1, <1>7, <2>1, DoneReads
<1>8. CASE ParseWord \/ ParseNumber \/ ParseString
  <2>1. pc = "value" /\ pc' = "parsed"
    BY <1>8 DEF ParseWord, ParseNumber, ParseString, ParseAs
  <2> QED
    BY <1>0, <1>1, <1>8, <2>1, ValueReads
<1>9. CASE ParseOpen
  <2>1. pc = "value" /\ pc' = "skip"
    BY <1>9 DEF ParseOpen, SkipTo
  <2> QED
    BY <1>0, <1>1, <1>9, <2>1, OpenReads
<1>10. CASE ParseStringFails
  <2>1. pc' = "fail" /\ mishaps' # {}
    BY <1>10 DEF ParseStringFails, Unallocated
  <2> QED
    BY <2>1
<1>11. CASE (ParseNothing \/ ParseName \/ ParseColon \/ More) /\ pc' = "fail"
  <2>1. /\ Accessible /\ UNCHANGED text /\ pc \in {"value", "name", "colon", "more"}
        /\ Unexpected(items, frames, pc, At)
    BY <1>0, <1>11, Failing
  <2>2. At # "ws"
    BY <1>2, <2>1
  <2>3. Refused(Plain(text'))
    BY <1>0, <1>1, <2>1, <2>2, FailReads
  <2> QED
    BY <1>11, <2>3
<1>12. CASE (Opened \/ More) /\ pc' # "fail"
  <2>1. pc \in {"opened", "more"} /\ pc' \in {"parsed", "item"}
    BY <1>12 DEF Opened, More, Close
  <2>2. At # "ws"
    BY <1>2, <2>1
  <2> QED
    BY <1>0, <1>1, <1>12, <2>1, <2>2, OpenedReads
<1>13. CASE NextItem
  <2>1. pc = "item" /\ (pc' = "skip" \/ (pc' = "fail" /\ mishaps' # {}))
    BY <1>13 DEF NextItem, SkipTo, Unallocated
  <2> QED
    BY <1>0, <1>1, <1>13, <2>1, ItemReads
<1>14. CASE (ParseName \/ ParseColon) /\ pc' # "fail"
  <2>1. pc \in {"name", "colon"} /\ pc' = "skip"
    BY <1>14 DEF ParseName, ParseColon, SkipTo
  <2> QED
    BY <1>0, <1>1, <1>14, <2>1, MemberReads
<1>15. CASE Parsed
  <2>1. pc = "parsed" /\ pc' \in {"accepted", "skip"}
    BY <1>15 DEF Parsed, SkipTo
  <2> QED
    BY <1>0, <1>1, <1>15, <2>1, ParsedReads
<1>16. CASE Fail
  <2>1. pc = "fail" /\ pc' \in {"fail", "rejected"} /\ UNCHANGED <<text, mishaps>>
    BY <1>16 DEF Fail, parse
  <2> QED
    BY <1>2, <2>1
<1>17. ParseNothing => pc' = "fail"
  BY DEF ParseNothing
<1>18. Opened => pc' # "fail"
  BY DEF Opened, Close
<1> QED
  BY <1>3, <1>4, <1>5, <1>6, <1>7, <1>8, <1>9, <1>10, <1>11, <1>12, <1>13, <1>14, <1>15, <1>16,
     <1>17, <1>18 DEF Parse

LEMMA ReaderInit == Init => ReaderInv
BY DEF Init, ReaderInv, Parsing, Reading

LEMMA ReaderNext == TreeInv /\ LayoutInv /\ ReaderInv /\ [Next]_vars => ReaderInv'
<1> SUFFICES ASSUME TreeInv, LayoutInv, ReaderInv, [Next]_vars PROVE ReaderInv'
  OBVIOUS
<1>1. CASE Parse
  BY <1>1, ParseReads
<1>2. CASE Use \/ PrintOdds
  <2>1. CASE Use
    <3>1. pc' \in {"save", "print", "unprinted", "done", "aborted"}
      BY <2>1, WalkLaid
    <3> QED
      BY <3>1 DEF ReaderInv, Parsing, Reading
  <2>2. CASE PrintOdds
    <3>1. pc' \in Printing \cup {"unprinted", "record", "aborted"}
      BY <2>2, PrintTree DEF TreeInv, Cut, Copies, CopiesNot
    <3> QED
      BY <3>1 DEF ReaderInv, Parsing, Reading, Printing
  <2> QED
    BY <1>2, <2>1, <2>2
<1>3. CASE UNCHANGED vars
  <2>1. UNCHANGED <<text, items, frames, pc, offset, mishaps>>
    BY <1>3 DEF vars, record, parse, tree
  <2>2. Pos' = Pos /\ Going' = Going /\ (Accessible' <=> Accessible) /\ At' = At
    BY <1>3 DEF vars, record, parse, tree, Pos, Going, Accessible, Ended, At
  <2> QED
    BY <2>1, <2>2 DEF ReaderInv
<1> QED
  BY <1>1, <1>2, <1>3 DEF Next

(* What the parser accepts the reader has left, and it refuses what the    *)
(* parser rejects.                                                         *)
LEMMA ReadsJson ==
  ASSUME TreeInv, LayoutInv, ReaderInv
  PROVE  AcceptsJson
<1>0. ReadInv /\ TypeOK
  BY DEF TreeInv
<1>1. text \in Seq(Token) /\ offset \in 0 .. Len(text) /\ offset \in Nat
  BY <1>0 DEF ReadInv
<1>2. ASSUME pc = "accepted", offset <= TextMax PROVE Taken(text, offset) \in JsonText
  <2> DEFINE q == Taken(text, offset)
             st == Final(q)
  <2>1. Pos = offset /\ Going = "accepted" /\ frames = << >>
    BY <1>0, <1>2, PosIs DEF Going, LayoutInv
  <2>2. ReadAs(text, items, << >>, offset, "accepted")
    BY <1>2, <2>1 DEF ReaderInv, Parsing
  <2>3. Shallow(q) /\ Agrees(st, text, items, << >>, offset, "accepted")
    BY <2>2 DEF ReadAs
  <2>4. q \in Seq(Token) /\ Len(q) <= offset /\ Typed(st)
    BY <1>1, TakenHeads, FinalTyped
  <2> HIDE DEF q
  <2>5. Len(q) # 0
    <3> SUFFICES ASSUME Len(q) = 0 PROVE FALSE
      OBVIOUS
    <3>1. st = Fresh
      BY <2>4, StatesAre DEF Final
    <3> QED
      BY <2>3, <3>1 DEF Agrees, Awaited, Expects, Fresh
  <2> HIDE DEF st
  <2>6. st.in = << >> /\ Expects(st) = "done"
    BY <2>3 DEF Agrees, Awaited
  <2>7. st = Leave(<< >>)
    <3>1. st.at = "done"
      BY <2>4, <2>6 DEF Typed, Expects
    <3>2. st = [in |-> st.in, at |-> st.at]
      BY <2>4 DEF Typed
    <3> QED
      BY <2>6, <3>1, <3>2 DEF Leave
  <2>8. Len(q) \in 1 .. TextMax
    BY <1>1, <1>2, <2>4, <2>5, GrammarAssumption
  <2> QED
    BY <2>3, <2>4, <2>7, <2>8, JsonTextIsRead DEF q, st
<1>3. ASSUME pc = "rejected", mishaps = {}
      PROVE  Plain(text) \notin JsonStart /\ Prefixes(Plain(text)) \cap JsonText = {}
  <2>1. Refused(Plain(text))
    BY <1>3 DEF ReaderInv
  <2>2. Plain(text) \in Seq(Token)
    BY <1>1, TakenAll
  <2> QED
    BY <2>1, <2>2, RefusedIsNone
<1> QED
  BY <1>2, <1>3 DEF AcceptsJson

(* Whatever the text, the nesting limit and the memory: what cJSON_Parse   *)
(* accepts within TextMax tokens, any number, begins with a JSON text that *)
(* is nested no deeper than the limit and ends where the parser stopped,   *)
(* and what it rejects while it finds memory, however long, is no such     *)
(* text, does not begin with one and is not the beginning of one.          *)
THEOREM ParserTellsJson == Spec => []AcceptsJson
<1>1. Init => OddsInv /\ ReaderInv
  BY OddsInit, ReaderInit
<1>2. (OddsInv /\ ReaderInv) /\ [Next]_vars => (OddsInv /\ ReaderInv)'
  BY OddsNext, ReaderNext DEF OddsInv
<1>3. OddsInv /\ ReaderInv => AcceptsJson
  BY ReadsJson DEF OddsInv
<1> QED
  BY <1>1, <1>2, <1>3, PTL DEF Spec
=============================================================================
