----------------------------- MODULE SqlBuffer ------------------------------
(***************************************************************************)
(* The statement buffer of the MySQL client.  hm_format_sql appends piece  *)
(* by piece to hm->sql, each hm_cat_* function making room first, in the   *)
(* arithmetic of size_t.  Of the text only lengths are kept: how much was  *)
(* written without a gap, and where the last byte ever written is.         *)
(***************************************************************************)
EXTENDS Integers, Sequences

CONSTANTS
  Word,      \* size_t counts modulo Word
  InitSize,  \* HM_BUF_SIZE_INIT
  MemMax,    \* realloc may fail, and does when asked for more
  ArgMax,    \* the longest piece: argument, "unhex('", printf conversion
  LenMax     \* no further directive follows once a statement is longer

ASSUME SizeAssumption ==
  /\ MemMax \in Nat /\ ArgMax \in 7 .. MemMax /\ LenMax \in Nat
  /\ InitSize \in 2 .. MemMax
  /\ Word \in Nat /\ 8 * MemMax < Word

VARIABLES
  size,     \* hm->buf_size
  len,      \* hm->len
  newSize,  \* new_size in hm_expand_buf
  todo,     \* what the present directive has still to append
  pc,       \* where himysql() is
  filled,   \* history: bytes of this statement written without a gap
  end       \* history: one past the last byte written to the buffer

vars == <<size, len, newSize, todo, pc, filled, end>>

Piece == [cat : {"char", "str", "hexstr", "escape", "vprintf"}, n : 0 .. ArgMax]

TypeOK ==
  /\ size \in Nat /\ len \in Nat /\ newSize \in Nat
  /\ todo \in Seq(Piece)
  /\ pc \in {"format", "cat", "expand", "realloc", "write", "sent", "failed"}
  /\ pc \in {"cat", "expand", "realloc", "write"} => todo # << >>
  /\ filled \in Nat /\ end \in Nat

(* himysql_init                                                            *)
Init ==
  /\ size = InitSize
  /\ len = 0
  /\ newSize = 0
  /\ todo = << >>
  /\ pc = "format"
  /\ filled = 0
  /\ end = 0

-----------------------------------------------------------------------------
(* size_t                                                                  *)

Minus(a, b) == IF a >= b THEN a - b ELSE a - b + Word
Twice(a) == IF 2 * a < Word THEN 2 * a ELSE 2 * a - Word

-----------------------------------------------------------------------------
(* hm_format_sql.                                                          *)

piece(c, n) == [cat |-> c, n |-> n]

(* A character of the format or %%; %s, quoted and escaped; %b, in hex; a  *)
(* printf conversion, whose outcome is n bytes long.                       *)
Directive(n) ==
  { <<piece("char", 1)>>,
    <<piece("char", 1), piece("escape", n), piece("char", 1)>>,
    <<piece("str", 7), piece("hexstr", n), piece("str", 2)>>,
    <<piece("vprintf", n)>> }

NextDirective ==
  /\ pc = "format" /\ todo = << >> /\ len <= LenMax
  /\ \E n \in 0 .. ArgMax : todo' \in Directive(n)
  /\ pc' = "cat"
  /\ UNCHANGED <<size, len, newSize, filled, end>>

(* The statement is done: hm_sql sends len bytes of the buffer.            *)
Send ==
  /\ pc = "format" /\ todo = << >>
  /\ pc' = "sent"
  /\ UNCHANGED <<size, len, newSize, todo, filled, end>>

(* The next call of himysql(), whatever became of the one before.          *)
Again ==
  /\ pc \in {"sent", "failed"}
  /\ len' = 0
  /\ filled' = 0
  /\ todo' = << >>
  /\ pc' = "format"
  /\ UNCHANGED <<size, newSize, end>>

-----------------------------------------------------------------------------
(* hm_cat_char, hm_cat_str, hm_cat_hexstr, hm_cat_escape, hm_cat_vprintf.  *)

Cat == Head(todo).cat
N == Head(todo).n

(* Variant: the escaped text is taken to be as long as the argument.       *)
NeedUnescaped ==
  CASE Cat = "hexstr" -> 2 * N
    [] Cat = "vprintf" -> 1
    [] OTHER -> N

(* The room asked for: every byte may need an escape.                      *)
Need ==
  CASE Cat \in {"hexstr", "escape"} -> 2 * N
    [] Cat = "vprintf" -> 1
    [] OTHER -> N

(* if ((hm->buf_size - hm->len - 2) < need) hm_expand_buf(hm, need)        *)
TestRoom ==
  /\ pc = "cat" /\ Cat # "vprintf"
  /\ IF Minus(Minus(size, len), 2) < Need
     THEN pc' = "expand" /\ newSize' = Twice(size)
     ELSE pc' = "write" /\ UNCHANGED newSize
  /\ UNCHANGED <<size, len, todo, filled, end>>

(* while ((new_size - hm->buf_size) < size) new_size *= 2                  *)
Double ==
  /\ pc = "expand"
  /\ IF Minus(newSize, size) < Need
     THEN newSize' = Twice(newSize) /\ UNCHANGED pc
     ELSE pc' = "realloc" /\ UNCHANGED newSize
  /\ UNCHANGED <<size, len, todo, filled, end>>

(* The buffer has grown.  hm_cat_vprintf formats again, from a va_list that*)
(* vsnprintf has used up: another number may come out, of another length.  *)
Realloc ==
  /\ pc = "realloc" /\ newSize <= MemMax
  /\ size' = newSize
  /\ IF Cat = "vprintf"
     THEN pc' = "cat" /\ \E n \in 0 .. ArgMax : todo' = <<piece(Cat, n)>> \o Tail(todo)
     ELSE pc' = "write" /\ UNCHANGED todo
  /\ UNCHANGED <<len, newSize, filled, end>>

(* HM_ERROR, and himysql() gives the statement up.                         *)
ReallocFails ==
  /\ pc = "realloc"
  /\ pc' = "failed"
  /\ UNCHANGED <<size, len, newSize, todo, filled, end>>

(* k bytes and a zero are written from position len on.                    *)
Put(k) ==
  /\ filled' = IF filled >= len THEN len + k ELSE filled
  /\ end' = IF end > len + k + 1 THEN end ELSE len + k + 1

(* Variant: the directive is left only by the piece after its last.        *)
AppendedMore(k) ==
  /\ len' = len + k
  /\ todo' = Tail(todo)
  /\ pc' = IF todo = << >> THEN "format" ELSE "cat"

Appended(k) ==
  /\ len' = len + k
  /\ todo' = Tail(todo)
  /\ pc' = IF todo' = << >> THEN "format" ELSE "cat"

(* mysql_real_escape_string at least copies and at most doubles the text.  *)
Write ==
  /\ pc = "write"
  /\ \E k \in N .. 2 * N :
       /\ Cat = "hexstr" => k = 2 * N
       /\ Cat \in {"char", "str"} => k = N
       /\ Put(k) /\ Appended(k)
  /\ UNCHANGED <<size, newSize>>

(* vsnprintf cuts the text to what the buffer holds.                       *)
Printed == IF N < size - len THEN N ELSE size - len - 1

(* Variant: the buffer is full only when its last byte was needed.         *)
PrintFullLast == len + Printed + 1 > size

(* sql[buf_size - 2] was zero before and is not any more.                  *)
PrintFull == len + Printed > size - 2

(* Variant: the conversion is tried again in the same buffer.              *)
PrintSame ==
  /\ pc = "cat" /\ Cat = "vprintf" /\ PrintFull
  /\ Put(Printed)
  /\ UNCHANGED <<size, len, newSize, todo, pc>>

(* hm_cat_vprintf: the text has filled the buffer ...                      *)
PrintCut ==
  /\ pc = "cat" /\ Cat = "vprintf" /\ PrintFull
  /\ Put(Printed)
  /\ newSize' = Twice(size)
  /\ pc' = "expand"
  /\ UNCHANGED <<size, len, todo>>

(* ... or has not: it is counted as printf counts, cut or not.             *)
PrintFits ==
  /\ pc = "cat" /\ Cat = "vprintf" /\ ~PrintFull
  /\ Put(Printed)
  /\ Appended(N)
  /\ UNCHANGED <<size, newSize>>

-----------------------------------------------------------------------------

Format ==
  \/ TestRoom \/ Double \/ Realloc \/ ReallocFails \/ Write \/ PrintCut \/ PrintFits

Next == NextDirective \/ Send \/ Again \/ Format

Spec == Init /\ [][Next]_vars

(* himysql() is running when it is called, and every format ends.          *)
FairSpec == Spec /\ WF_vars(Format) /\ SF_vars(Send)

-----------------------------------------------------------------------------
(* Properties.                                                             *)

(* Nothing is ever written past the end of the buffer, although the room   *)
(* left is computed without a sign: len stays two below the size.          *)
NoOverrun == end <= size

(* What is sent has all been written by this call: no piece was cut off,   *)
(* no byte is left from an earlier statement.                              *)
SentIsWritten == pc = "sent" => filled >= len

(* A call of himysql() gets to its end: each round of growing makes room.  *)
FormatEnds == pc = "cat" ~> pc \in {"sent", "failed"}

-----------------------------------------------------------------------------
(* What makes them inductive.                                              *)

(* Two bytes stay free behind the text, and whoever writes has his room.   *)
RoomKept ==
  /\ len + 2 <= size
  /\ size <= MemMax
  /\ pc = "write" => Cat # "vprintf" /\ len + Need + 2 <= size

(* hm_expand_buf asks for more than the buffer has, and does not overflow. *)
Growing ==
  pc \in {"expand", "realloc"} =>
    /\ 2 * size <= newSize /\ newSize < Word
    /\ pc = "realloc" => newSize - size >= Need

BufferInv ==
  TypeOK /\ RoomKept /\ Growing /\ NoOverrun /\ filled >= len
=============================================================================
