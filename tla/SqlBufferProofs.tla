-------------------------- MODULE SqlBufferProofs ---------------------------
(***************************************************************************)
(* Proofs about SqlBuffer: for every initial size and every limit on what  *)
(* realloc may grant below an eighth of the address space, BufferInv is an *)
(* inductive invariant.  It says that two bytes stay free behind the text, *)
(* which is what keeps buf_size - len - 2 from wrapping round.             *)
(***************************************************************************)
EXTENDS SqlBuffer, TLAPS

-----------------------------------------------------------------------------
(* Arithmetic and pieces.                                                  *)

(* A subtraction of size_t that does not go below zero is a subtraction.   *)
LEMMA MinusIsDifference ==
  ASSUME NEW a \in Nat, NEW b \in Nat, b <= a
  PROVE  Minus(a, b) = a - b
BY DEF Minus

(* Twice what realloc may grant does not wrap, nor do three times as much. *)
LEMMA TwiceIsDouble ==
  ASSUME NEW a \in Nat, a < 4 * MemMax
  PROVE  Twice(a) = 2 * a /\ Twice(a) \in Nat /\ Twice(a) < Word
BY SizeAssumption DEF Twice

(* While there is something to append, its length and the room it is asked *)
(* for are bounded.                                                        *)
LEMMA PieceBounds ==
  ASSUME TypeOK, todo # << >>
  PROVE  /\ Head(todo) \in Piece /\ Tail(todo) \in Seq(Piece)
         /\ N \in Nat /\ N <= MemMax
         /\ Need \in Nat /\ Need <= 2 * MemMax
         /\ Cat \in {"char", "str"} => Need = N
         /\ Cat \in {"hexstr", "escape"} => Need = 2 * N
<1>1. Head(todo) \in Piece /\ Tail(todo) \in Seq(Piece)
  BY DEF TypeOK
<1>2. N \in 0 .. ArgMax /\ N \in Nat /\ N <= MemMax
  BY <1>1, SizeAssumption DEF Piece, N
<1>3. Cat \in {"char", "str", "hexstr", "escape", "vprintf"}
  BY <1>1 DEF Piece, Cat
<1>4. MemMax \in Nat \ {0}
  BY SizeAssumption
<1>5. CASE Cat \in {"char", "str"}
  BY <1>1, <1>2, <1>4, <1>5 DEF Need
<1>6. CASE Cat \in {"hexstr", "escape"}
  BY <1>1, <1>2, <1>4, <1>6 DEF Need
<1>7. CASE Cat = "vprintf"
  BY <1>1, <1>2, <1>4, <1>7 DEF Need
<1> QED
  BY <1>3, <1>5, <1>6, <1>7

(* hm_format_sql asks for pieces.                                          *)
LEMMA DirectiveTypes ==
  ASSUME NEW n \in 0 .. ArgMax, NEW d \in Directive(n)
  PROVE  d \in Seq(Piece) /\ d # << >>
<1>1. \A c \in {"char", "str", "hexstr", "escape", "vprintf"} :
        \A k \in 0 .. ArgMax : piece(c, k) \in Piece
  BY DEF piece, Piece
<1>2. 1 \in 0 .. ArgMax /\ 2 \in 0 .. ArgMax /\ 7 \in 0 .. ArgMax
  BY SizeAssumption
<1>3. /\ piece("char", 1) \in Piece /\ piece("escape", n) \in Piece
      /\ piece("str", 7) \in Piece /\ piece("hexstr", n) \in Piece
      /\ piece("str", 2) \in Piece /\ piece("vprintf", n) \in Piece
  BY <1>1, <1>2
<1>4. /\ \A a \in Piece : <<a>> \in Seq(Piece) /\ <<a>> # << >>
      /\ \A a, b, c \in Piece : <<a, b, c>> \in Seq(Piece) /\ <<a, b, c>> # << >>
  OBVIOUS
<1>5. \/ d = <<piece("char", 1)>>
      \/ d = <<piece("char", 1), piece("escape", n), piece("char", 1)>>
      \/ d = <<piece("str", 7), piece("hexstr", n), piece("str", 2)>>
      \/ d = <<piece("vprintf", n)>>
  BY DEF Directive
<1> HIDE DEF Piece, piece
<1> QED
  BY <1>3, <1>4, <1>5

(* What the buffer takes of a text keeps the last two bytes for zeros.     *)
LEMMA PrintedBounds ==
  ASSUME TypeOK, RoomKept, todo # << >>
  PROVE  /\ Printed \in Nat /\ len + Printed + 1 <= size
         /\ ~PrintFull => Printed = N /\ len + N + 2 <= size
<1>1. N \in Nat
  BY PieceBounds
<1>2. size \in Nat /\ len \in Nat /\ len + 2 <= size
  BY DEF TypeOK, RoomKept
<1> QED
  BY <1>1, <1>2 DEF Printed, PrintFull

(* Writing k bytes where there is room for them and a zero.                *)
LEMMA PutFits ==
  ASSUME BufferInv, NEW k \in Nat, len + k + 1 <= size, Put(k)
  PROVE  filled' \in Nat /\ filled' = len + k /\ end' \in Nat /\ end' <= size
BY DEF BufferInv, TypeOK, NoOverrun, Put

-----------------------------------------------------------------------------

LEMMA InitBuffer == Init => BufferInv
BY SizeAssumption DEF Init, BufferInv, TypeOK, RoomKept, Growing, NoOverrun, Cat, Need

LEMMA NextBuffer == BufferInv /\ [Next]_vars => BufferInv'
<1> SUFFICES ASSUME BufferInv, [Next]_vars PROVE BufferInv'
  OBVIOUS
<1> USE DEF BufferInv
<1>sz. /\ MemMax \in Nat /\ Word \in Nat /\ 8 * MemMax < Word
  BY SizeAssumption
<1>ty. /\ size \in Nat /\ len \in Nat /\ newSize \in Nat /\ filled \in Nat /\ end \in Nat
       /\ todo \in Seq(Piece) /\ len + 2 <= size /\ size <= MemMax
       /\ end <= size /\ filled >= len
       /\ pc \in {"format", "cat", "expand", "realloc", "write", "sent", "failed"}
  BY DEF TypeOK, RoomKept, NoOverrun
<1>1. CASE NextDirective
  <2>1. todo' \in Seq(Piece) /\ todo' # << >>
    BY <1>1, DirectiveTypes DEF NextDirective
  <2> QED
    BY <1>1, <2>1, <1>ty DEF NextDirective, TypeOK, RoomKept, Growing, NoOverrun
<1>2. CASE Send
  BY <1>2, <1>ty DEF Send, TypeOK, RoomKept, Growing, NoOverrun
<1>3. CASE Again
  BY <1>3, <1>ty DEF Again, TypeOK, RoomKept, Growing, NoOverrun
<1>4. CASE TestRoom
  <2>0. pc = "cat" /\ todo # << >> /\ Cat # "vprintf"
    BY <1>4 DEF TestRoom, TypeOK
  <2>1. Need \in Nat /\ Need <= 2 * MemMax
    BY <2>0, PieceBounds
  <2>2. Minus(Minus(size, len), 2) = size - len - 2
    <3>1. Minus(size, len) = size - len /\ size - len \in Nat /\ 2 <= size - len
      BY <1>ty, MinusIsDifference
    <3> QED
      BY <3>1, MinusIsDifference
  <2>3. Twice(size) = 2 * size /\ Twice(size) < Word /\ Twice(size) \in Nat
    <3>1. size < 4 * MemMax
      BY <1>ty, <1>sz
    <3> QED
      BY <3>1, <1>ty, TwiceIsDouble
  <2>4. UNCHANGED <<size, len, todo, filled, end>> /\ Need' = Need /\ Cat' = Cat
    BY <1>4 DEF TestRoom, Need, Cat, N
  <2>5. CASE size - len - 2 < Need
    <3>1. pc' = "expand" /\ newSize' = 2 * size /\ newSize' < Word
      BY <1>4, <2>2, <2>3, <2>5 DEF TestRoom
    <3> QED
      BY <3>1, <2>0, <2>4, <1>ty DEF TypeOK, RoomKept, Growing, NoOverrun
  <2>6. CASE ~(size - len - 2 < Need)
    <3>1. pc' = "write" /\ newSize' = newSize
      BY <1>4, <2>2, <2>6 DEF TestRoom
    <3>2. len + Need + 2 <= size
      BY <2>1, <2>6, <1>ty
    <3> QED
      BY <3>1, <3>2, <2>0, <2>4, <1>ty DEF TypeOK, RoomKept, Growing, NoOverrun
  <2> QED
    BY <2>5, <2>6
<1>5. CASE Double
  <2>0. pc = "expand" /\ todo # << >>
    BY <1>5 DEF Double, TypeOK
  <2>1. Need \in Nat /\ Need <= 2 * MemMax
    BY <2>0, PieceBounds
  <2>2. 2 * size <= newSize /\ newSize < Word
    BY <2>0 DEF Growing
  <2>3. Minus(newSize, size) = newSize - size
    BY <2>2, <1>ty, MinusIsDifference
  <2>4. UNCHANGED <<size, len, todo, filled, end>> /\ Need' = Need
    BY <1>5 DEF Double, Need, Cat, N
  <2>5. CASE newSize - size < Need
    <3>1. newSize < 4 * MemMax
      <4>1. newSize < 3 * MemMax
        BY <2>1, <2>5, <1>ty, <1>sz
      <4> QED
        BY <4>1, <1>ty, <1>sz
    <3>2. Twice(newSize) = 2 * newSize /\ Twice(newSize) < Word /\ Twice(newSize) \in Nat
      BY <3>1, <1>ty, TwiceIsDouble
    <3>3. newSize' = Twice(newSize) /\ pc' = pc
      BY <1>5, <2>3, <2>5 DEF Double
    <3> QED
      BY <3>2, <3>3, <2>0, <2>2, <2>4, <1>ty DEF TypeOK, RoomKept, Growing, NoOverrun
  <2>6. CASE ~(newSize - size < Need)
    <3>1. newSize' = newSize /\ pc' = "realloc"
      BY <1>5, <2>3, <2>6 DEF Double
    <3>2. newSize - size >= Need
      BY <2>6, <2>1, <1>ty
    <3> QED
      BY <3>1, <3>2, <2>0, <2>2, <2>4, <1>ty DEF TypeOK, RoomKept, Growing, NoOverrun
  <2> QED
    BY <2>5, <2>6
<1>6. CASE Realloc
  <2>0. pc = "realloc" /\ todo # << >> /\ newSize <= MemMax /\ size' = newSize
    BY <1>6 DEF Realloc, TypeOK
  <2>1. Need \in Nat /\ 2 * size <= newSize /\ newSize - size >= Need
    BY <2>0, PieceBounds DEF Growing
  <2>2. UNCHANGED <<len, newSize, filled, end>>
    BY <1>6 DEF Realloc
  <2>3. len + Need + 2 <= newSize /\ len + 2 <= newSize /\ end <= newSize
    BY <2>1, <1>ty
  <2>4. CASE Cat = "vprintf"
    <3>1. PICK n \in 0 .. ArgMax : todo' = <<piece(Cat, n)>> \o Tail(todo)
      BY <1>6, <2>4 DEF Realloc
    <3>2. piece(Cat, n) \in Piece
      BY <2>4 DEF piece, Piece
    <3>3. todo' \in Seq(Piece) /\ todo' # << >>
      BY <3>1, <3>2, <2>0, PieceBounds
    <3>4. pc' = "cat"
      BY <1>6, <2>4 DEF Realloc
    <3> QED
      BY <3>3, <3>4, <2>0, <2>2, <2>3, <1>ty DEF TypeOK, RoomKept, Growing, NoOverrun
  <2>5. CASE Cat # "vprintf"
    <3>1. pc' = "write" /\ todo' = todo
      BY <1>6, <2>5 DEF Realloc
    <3>2. Need' = Need /\ Cat' = Cat
      BY <3>1 DEF Need, Cat, N
    <3> QED
      BY <3>1, <3>2, <2>0, <2>2, <2>3, <2>5, <1>ty DEF TypeOK, RoomKept, Growing, NoOverrun
  <2> QED
    BY <2>4, <2>5
<1>7. CASE ReallocFails
  BY <1>7, <1>ty DEF ReallocFails, TypeOK, RoomKept, Growing, NoOverrun
<1>8. CASE Write
  <2>0. pc = "write" /\ todo # << >> /\ Cat # "vprintf" /\ len + Need + 2 <= size
    BY <1>8 DEF Write, TypeOK, RoomKept
  <2>1. /\ Tail(todo) \in Seq(Piece) /\ Head(todo) \in Piece /\ N \in Nat /\ Need \in Nat
        /\ Cat \in {"char", "str"} => Need = N
        /\ Cat \in {"hexstr", "escape"} => Need = 2 * N
    BY <2>0, PieceBounds
  <2>2. Cat \in {"char", "str", "hexstr", "escape"}
    BY <2>0, <2>1 DEF Cat, Piece
  <2>3. PICK k \in N .. 2 * N :
          /\ Cat \in {"char", "str"} => k = N
          /\ Put(k) /\ Appended(k)
    BY <1>8 DEF Write
  <2>4. k \in Nat /\ k <= Need
    BY <2>1, <2>2, <2>3
  <2>5. len + k + 2 <= size /\ len + k + 1 <= size
    BY <2>0, <2>1, <2>4, <1>ty
  <2>6. filled' \in Nat /\ filled' = len + k /\ end' \in Nat /\ end' <= size
    BY <2>3, <2>4, <2>5, PutFits
  <2>7. /\ len' = len + k /\ todo' = Tail(todo)
        /\ pc' = IF todo' = << >> THEN "format" ELSE "cat"
        /\ UNCHANGED <<size, newSize>>
    BY <1>8, <2>3 DEF Appended, Write
  <2> QED
    BY <2>1, <2>4, <2>5, <2>6, <2>7, <1>ty DEF TypeOK, RoomKept, Growing, NoOverrun
<1>9. CASE PrintCut
  <2>0. pc = "cat" /\ todo # << >> /\ Cat = "vprintf" /\ Put(Printed)
    BY <1>9 DEF PrintCut, TypeOK
  <2>1. Printed \in Nat /\ len + Printed + 1 <= size
    BY <2>0, PrintedBounds
  <2>2. filled' \in Nat /\ filled' = len + Printed /\ end' \in Nat /\ end' <= size
    BY <2>0, <2>1, PutFits
  <2>3. Twice(size) = 2 * size /\ Twice(size) < Word /\ Twice(size) \in Nat
    <3>1. size < 4 * MemMax
      BY <1>ty, <1>sz
    <3> QED
      BY <3>1, <1>ty, TwiceIsDouble
  <2>4. newSize' = Twice(size) /\ pc' = "expand" /\ UNCHANGED <<size, len, todo>>
    BY <1>9 DEF PrintCut
  <2>5. filled' >= len'
    BY <2>1, <2>2, <2>4, <1>ty
  <2> QED
    BY <2>0, <2>2, <2>3, <2>4, <2>5, <1>ty DEF TypeOK, RoomKept, Growing, NoOverrun
<1>10. CASE PrintFits
  <2>0. pc = "cat" /\ todo # << >> /\ ~PrintFull /\ Put(Printed) /\ Appended(N)
    BY <1>10 DEF PrintFits, TypeOK
  <2>1. /\ Printed \in Nat /\ len + Printed + 1 <= size
        /\ Printed = N /\ len + N + 2 <= size
    BY <2>0, PrintedBounds
  <2>2. filled' \in Nat /\ filled' = len + N /\ end' \in Nat /\ end' <= size
    BY <2>0, <2>1, PutFits
  <2>3. /\ len' = len + N /\ todo' = Tail(todo)
        /\ pc' = IF todo' = << >> THEN "format" ELSE "cat"
        /\ UNCHANGED <<size, newSize>>
    BY <1>10, <2>0 DEF Appended, PrintFits
  <2>4. Tail(todo) \in Seq(Piece) /\ N \in Nat
    BY <2>0, PieceBounds
  <2> QED
    BY <2>1, <2>2, <2>3, <2>4, <1>ty DEF TypeOK, RoomKept, Growing, NoOverrun
<1>11. CASE UNCHANGED vars
  <2>1. Need' = Need /\ Cat' = Cat
    BY <1>11 DEF vars, Need, Cat, N
  <2> QED
    BY <1>11, <2>1 DEF vars, TypeOK, RoomKept, Growing, NoOverrun
<1> QED
  BY <1>1, <1>2, <1>3, <1>4, <1>5, <1>6, <1>7, <1>8, <1>9, <1>10, <1>11 DEF Next, Format

(* The two free bytes, and the room of whoever writes, are never lost.     *)
THEOREM BufferInvariant == Spec => []BufferInv
<1>1. Init => BufferInv
  BY InitBuffer
<1>2. BufferInv /\ [Next]_vars => BufferInv'
  BY NextBuffer
<1> QED
  BY <1>1, <1>2, PTL DEF Spec

-----------------------------------------------------------------------------

(* The types of every variable: hm_format_sql is never asked for a piece   *)
(* when there is none left.                                                *)
THEOREM BufferTypes == Spec => []TypeOK
<1>1. BufferInv => TypeOK
  BY DEF BufferInv
<1> QED
  BY <1>1, BufferInvariant, PTL

(* No hm_cat_ function writes past the end of the buffer.                  *)
THEOREM NeverOverrun == Spec => []NoOverrun
<1>1. BufferInv => NoOverrun
  BY DEF BufferInv
<1> QED
  BY <1>1, BufferInvariant, PTL

(* What hm_sql sends was written by the call that sends it.                *)
THEOREM SentWhole == Spec => []SentIsWritten
<1>1. BufferInv => SentIsWritten
  BY DEF BufferInv, SentIsWritten
<1> QED
  BY <1>1, BufferInvariant, PTL
=============================================================================
