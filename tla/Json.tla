-------------------------------- MODULE Json --------------------------------
(***************************************************************************)
(* The JSON library under the saving of a feed file: cJSON_Parse, the walk *)
(* save_league_to_db and save_market_to_db make over the tree, the printing*)
(* of a market's odds, and cJSON_Delete.  The recursion of the parser and  *)
(* of the printer is a stack of the items they are in.  A text is a        *)
(* sequence of tokens, each drawn when it is first looked at.              *)
(***************************************************************************)
EXTENDS JsonGrammar

CONSTANTS
  Beginning, \* how the texts begin, and how many tokens may follow
  RareMax,   \* the most white space, words and huge numbers in a text
  BufInit,   \* default_buffer_size of print
  StrMax,    \* the longest printed string, in bytes, quotes included
  Fault      \* what may happen: "malloc" fails, a string is too "long"

ASSUME JsonAssumption ==
  /\ RareMax \in Nat
  /\ BufInit \in Nat \ {0} /\ StrMax \in Nat /\ StrMax >= 2
  /\ Fault \subseteq {"malloc", "long"}

VARIABLES
  feed,    \* whose file is saved, once it is: "league", "market", "match"
  text,    \* the tokens known so far
  room,    \* bound: how many more may be drawn
  offset,  \* input_buffer->offset
  depth,   \* input_buffer->depth
  frames,  \* the containers parse_ or print_ functions are in, innermost last
  items,   \* the cJSON items in the order of their making
  live,    \* those not freed
  pc,      \* the point reached
  after,   \* where to go on after the white space
  todo,    \* the elements cJSON_ArrayForEach has still to visit
  cur,     \* the item print_value is at
  buf,     \* the printbuffer
  heap,    \* what else is allocated: strings of a market, and what nobody frees
  unfit,   \* the members met under "Id" that are neither number nor string
  tours,   \* the arrays met under "Tournaments" that are not empty
  mishaps  \* history: whose malloc failed, and "long", a string that did not fit

record == <<feed, heap, unfit, tours>>
parse == <<text, room, offset, depth, after>>
tree == <<items, live>>
vars == <<record, parse, tree, frames, pc, todo, cur, buf, mishaps>>

-----------------------------------------------------------------------------
ASSUME BeginningAssumption ==
  \A b \in Beginning : b.text \in Seq(Token \ {"end"}) /\ b.room \in Nat

Ended == text # << >> /\ Last(text) = "end"

(* can_access_at_index(input_buffer, 0): length is strlen(value) + 1.      *)
Accessible == offset < Len(text)
At == text[offset + 1]

-----------------------------------------------------------------------------
(* Items.  In the order of their making, what lies below an item follows   *)
(* it at once; a parent of 0 marks the root.  from and to are history: the *)
(* tokens the item was parsed from.                                        *)

Kids(i) == {k \in DOMAIN items : items[k].parent = i}
Siblings(i) == {k \in Kids(items[i].parent) : k > i}  \* i->next ...

Subtree(i) == {k \in i .. Len(items) : \A j \in i + 1 .. k : items[j].parent >= i}

(* cJSON_Delete(item): the item, every item->next after it, and what is    *)
(* below them.                                                             *)
Deleted(i) ==
  {k \in i .. Len(items) : \A j \in i + 1 .. k : items[j].parent >= items[i].parent}

NoBuf == [len |-> 0, off |-> 0, out |-> << >>, pend |-> << >>, bytes |-> 0, top |-> 0]

Init ==
  /\ feed = "any"
  /\ \E b \in Beginning : text = b.text /\ room = b.room
  /\ offset = 0 /\ depth = 0
  /\ frames = << >>
  /\ items = << >> /\ live = {}
  /\ pc = "start" /\ after = "value"
  /\ todo = {} /\ cur = 0
  /\ buf = NoBuf
  /\ heap = {} /\ unfit = {} /\ tours = {}
  /\ mishaps = {}

-----------------------------------------------------------------------------
(* cJSON_Parse.                                                            *)

Reading == {"bom", "skip", "value", "opened", "name", "colon", "more"}

Rare == {"ws", "word", "inf"}
BehindBlank == text # << >> /\ Last(text) = "ws"

(* The text is what the file holds: any tokens, a zero at the end.         *)
Look ==
  /\ pc \in Reading /\ ~Accessible /\ ~Ended
  /\ room' = IF room = 0 THEN 0 ELSE room - 1
  /\ \E x \in IF room > 0 THEN Token ELSE {"end"} :
       /\ x = "bom" => text = << >>
       /\ x = "ws" => ~BehindBlank
       /\ x \in Rare => Cardinality({i \in DOMAIN text : text[i] \in Rare}) < RareMax
       /\ text' = Append(text, x)
  /\ UNCHANGED <<record, offset, depth, frames, tree, pc, after, todo, cur, buf, mishaps>>

NewItem(parent) == [type |-> "none", parent |-> parent, from |-> offset, to |-> offset]

(* cJSON_New_Item: succeeds and goes on, or does not and gives up.         *)
Allocate(parent) ==
  /\ items' = Append(items, NewItem(parent))
  /\ live' = live \cup {Len(items) + 1}

Unallocated ==
  /\ "malloc" \in Fault
  /\ mishaps' = mishaps \cup {"library"}
  /\ pc' = "fail"

(* cJSON_ParseWithOpts: the root.                                          *)
Start ==
  /\ pc = "start"
  /\ \/ Allocate(0) /\ pc' = "bom" /\ UNCHANGED mishaps
     \/ Unallocated /\ UNCHANGED tree
  /\ UNCHANGED <<record, parse, frames, todo, cur, buf>>

SkipTo(a) == pc' = "skip" /\ after' = a

(* skip_utf8_bom (a mark with nothing behind it is refused either way).    *)
SkipBom ==
  /\ pc = "bom" /\ Accessible
  /\ offset' = IF At = "bom" THEN offset + 1 ELSE offset
  /\ SkipTo("value")
  /\ UNCHANGED <<record, text, room, depth, frames, tree, todo, cur, buf, mishaps>>

(* Variant: the end of the buffer is not stepped back from.                *)
SkipDoneAtEnd ==
  /\ pc = "skip" /\ (Accessible => At \notin {"ws", "end"}) /\ (Accessible \/ Ended)
  /\ pc' = after
  /\ UNCHANGED <<record, text, room, offset, depth, frames, tree, after, todo, cur, buf, mishaps>>

(* buffer_skip_whitespace: the terminating zero counts as white space, and *)
(* is stepped back on at the end.                                          *)
SkipOver ==
  /\ pc = "skip" /\ Accessible /\ At \in {"ws", "end"}
  /\ offset' = offset + 1
  /\ UNCHANGED <<record, text, room, depth, frames, tree, pc, after, todo, cur, buf, mishaps>>

SkipDone ==
  /\ pc = "skip" /\ (Accessible => At \notin {"ws", "end"}) /\ (Accessible \/ Ended)
  /\ offset' = IF Accessible THEN offset ELSE offset - 1
  /\ pc' = after
  /\ UNCHANGED <<record, text, room, depth, frames, tree, after, todo, cur, buf, mishaps>>

Item == Len(items)                \* the item parse_value fills, when it starts
Kind == items[Last(frames)].type  \* "array" or "object", set when it is opened

ParseAs(types) ==
  /\ pc = "value" /\ Accessible /\ At \in types
  /\ offset' = offset + 1
  /\ items' = [items EXCEPT ![Item].type = At, ![Item].from = offset, ![Item].to = offset + 1]
  /\ pc' = "parsed"
  /\ UNCHANGED <<record, text, room, depth, frames, live, after, todo, cur, buf, mishaps>>

(* parse_value: null, false, true, a number, a string ...                  *)
ParseWord == ParseAs(Word)
ParseNumber == ParseAs(Number)
ParseString == ParseAs({"str"})

(* ... whose copy may find no memory ...                                   *)
ParseStringFails ==
  /\ pc \in {"value", "name"} /\ Accessible /\ At = "str"
  /\ Unallocated
  /\ UNCHANGED <<record, parse, frames, tree, todo, cur, buf>>

(* Variant: the limit is tested after the count, against more than it.     *)
ParseOpenDeeper ==
  /\ pc = "value" /\ Accessible /\ At \in Open
  /\ depth <= NestLimit
  /\ depth' = depth + 1
  /\ frames' = Append(frames, Item)
  /\ items' = [items EXCEPT ![Item].type = KindOf[At], ![Item].from = offset]
  /\ offset' = offset + 1
  /\ SkipTo("opened")
  /\ UNCHANGED <<record, text, room, live, todo, cur, buf, mishaps>>

(* ... parse_array and parse_object as far as their first element ...      *)
ParseOpen ==
  /\ pc = "value" /\ Accessible /\ At \in Open
  /\ depth < NestLimit
  /\ depth' = depth + 1
  /\ frames' = Append(frames, Item)
  /\ items' = [items EXCEPT ![Item].type = KindOf[At], ![Item].from = offset]
  /\ offset' = offset + 1
  /\ SkipTo("opened")
  /\ UNCHANGED <<record, text, room, live, todo, cur, buf, mishaps>>

(* ... or nothing that is a value, or nested too deeply.                   *)
ParseNothing ==
  /\ pc = "value" /\ Accessible
  /\ At \notin Scalar /\ (At \in Open => depth >= NestLimit)
  /\ pc' = "fail"
  /\ UNCHANGED <<record, parse, frames, tree, todo, cur, buf, mishaps>>

(* Variant: the nesting is only counted on the way down.                   *)
CloseDepthKept ==
  /\ items' = [items EXCEPT ![Last(frames)].to = offset + 1]
  /\ offset' = offset + 1
  /\ frames' = Front(frames)
  /\ pc' = "parsed"
  /\ UNCHANGED depth

(* success: in parse_array and parse_object.                               *)
Close ==
  /\ items' = [items EXCEPT ![Last(frames)].to = offset + 1]
  /\ offset' = offset + 1
  /\ depth' = depth - 1
  /\ frames' = Front(frames)
  /\ pc' = "parsed"

(* An empty container, or a step back in front of its first element.       *)
Opened ==
  /\ pc = "opened" /\ Accessible
  /\ IF At = Closing[Kind]
     THEN Close
     ELSE /\ offset' = offset - 1 /\ pc' = "item"
          /\ UNCHANGED <<depth, frames, items>>
  /\ UNCHANGED <<record, text, room, live, after, todo, cur, buf, mishaps>>

(* The top of the loop over the elements.                                  *)
NextItem ==
  /\ pc = "item"
  /\ \/ /\ Allocate(Last(frames))
        /\ offset' = offset + 1
        /\ SkipTo(IF Kind = "array" THEN "value" ELSE "name")
        /\ UNCHANGED mishaps
     \/ Unallocated /\ UNCHANGED <<offset, after, tree>>
  /\ UNCHANGED <<record, text, room, depth, frames, todo, cur, buf>>

(* parse_object: the name, a string, and the colon behind it.              *)
ParseName ==
  /\ pc = "name" /\ Accessible
  /\ IF At = "str"
     THEN offset' = offset + 1 /\ SkipTo("colon")
     ELSE pc' = "fail" /\ UNCHANGED <<offset, after>>
  /\ UNCHANGED <<record, text, room, depth, frames, tree, todo, cur, buf, mishaps>>

ParseColon ==
  /\ pc = "colon" /\ Accessible
  /\ IF At = ":"
     THEN offset' = offset + 1 /\ SkipTo("value")
     ELSE pc' = "fail" /\ UNCHANGED <<offset, after>>
  /\ UNCHANGED <<record, text, room, depth, frames, tree, todo, cur, buf, mishaps>>

(* parse_value returns true: to the container the value is in, or with the *)
(* root to cJSON_Parse, which does not look at what follows.               *)
Parsed ==
  /\ pc = "parsed"
  /\ IF frames = << >> THEN pc' = "accepted" /\ UNCHANGED after ELSE SkipTo("more")
  /\ UNCHANGED <<record, text, room, offset, depth, frames, tree, todo, cur, buf, mishaps>>

(* A comma, the closing bracket, or neither.                               *)
More ==
  /\ pc = "more" /\ Accessible
  /\ \/ At = "," /\ pc' = "item" /\ UNCHANGED <<offset, depth, frames, items>>
     \/ At = Closing[Kind] /\ Close
     \/ /\ At \notin {",", Closing[Kind]}
        /\ pc' = "fail" /\ UNCHANGED <<offset, depth, frames, items>>
  /\ UNCHANGED <<record, text, room, live, after, todo, cur, buf, mishaps>>

(* Variant: the list built so far is left to the caller.                   *)
FailKeepHead ==
  /\ pc = "fail"
  /\ IF frames = << >>
     THEN /\ live' = live \ {1}
          /\ pc' = "rejected" /\ UNCHANGED frames
     ELSE /\ frames' = Front(frames)
          /\ UNCHANGED <<live, pc>>
  /\ UNCHANGED <<record, parse, items, todo, cur, buf, mishaps>>

(* fail: in parse_array and parse_object deletes the list built so far,    *)
(* not yet a child of the item; in cJSON_ParseWithOpts the root.           *)
Fail ==
  /\ pc = "fail"
  /\ IF frames = << >>
     THEN /\ live' = live \ {1}
          /\ pc' = "rejected" /\ UNCHANGED frames
     ELSE /\ live' = live \ {k \in live : k > Last(frames)}
          /\ frames' = Front(frames)
          /\ UNCHANGED pc
  /\ UNCHANGED <<record, parse, items, todo, cur, buf, mishaps>>

Parse ==
  \/ Look \/ Start \/ SkipBom \/ SkipOver \/ SkipDone
  \/ ParseWord \/ ParseNumber \/ ParseString \/ ParseStringFails
  \/ ParseOpen \/ ParseNothing
  \/ Opened \/ NextItem \/ ParseName \/ ParseColon \/ Parsed \/ More \/ Fail

-----------------------------------------------------------------------------
(* save_league_to_db, save_market_to_db, save_match_to_db.                 *)

(* cJSON_ArrayForEach over the root, or the root itself.                   *)
Elements == IF items[1].type = "array" THEN Kids(1) ELSE {1}

SaveAll ==
  /\ pc = "accepted"
  /\ feed' \in {"league", "market", "match"}
  /\ todo' = Elements
  /\ pc' = "save"
  /\ UNCHANGED <<heap, unfit, tours, parse, frames, tree, cur, buf, mishaps>>

This == Min(todo)
Named(i) == items[i].type = "object"

(* get_object_item compares the names of the children: those of an array   *)
(* have none, and strcmp is given NULL.                                    *)
Nameless(i) == items[i].type = "array" /\ Kids(i) # {}

LookUpInArray ==
  /\ pc = "save" /\ todo # {} /\ Nameless(This)
  /\ pc' = "aborted"
  /\ UNCHANGED <<record, parse, frames, tree, todo, cur, buf, mishaps>>

Rejects(i) == items[i].type \notin Number \cup {"str"}

(* Variant: parse_market_json deletes it, too.                             *)
NoIdBoth ==
  /\ pc = "save" /\ todo # {} /\ ~Nameless(This)
  /\ \/ UNCHANGED <<live, unfit>>
     \/ \E n \in Kids(This) :
          /\ Rejects(n)
          /\ unfit' = unfit \cup {n}
          /\ live' = live \ Deleted(n)
  /\ todo' = todo \ {This}
  /\ UNCHANGED <<feed, heap, tours, parse, frames, items, pc, cur, buf, mishaps>>

(* No "Id", or one that is neither number nor string: parse_league_json    *)
(* deletes that.                                                           *)
NoId ==
  /\ pc = "save" /\ todo # {} /\ ~Nameless(This)
  /\ \/ UNCHANGED <<live, unfit>>
     \/ \E n \in Kids(This) :
          /\ Rejects(n)
          /\ unfit' = unfit \cup {n}
          /\ live' = IF feed = "league" THEN live \ Deleted(n) ELSE live
  /\ todo' = todo \ {This}
  /\ UNCHANGED <<feed, heap, tours, parse, frames, items, pc, cur, buf, mishaps>>

(* The record's number is n.                                               *)
HasId(n) == Named(This) /\ n \in Kids(This) /\ ~Rejects(n)

(* One of them is copied with strcpy into a field of fixed length, of the  *)
(* record or of a tournament.                                              *)
Strings(S) == {k \in S : items[k].type = "str"}
Copied(S) ==
  \/ UNCHANGED mishaps
  \/ "long" \in Fault /\ Strings(S) # {} /\ mishaps' = mishaps \cup {"long"}

(* A league without tournaments is saved, or a match.                      *)
SaveFields ==
  /\ pc = "save" /\ todo # {} /\ feed # "market"
  /\ \E n \in Kids(This) : HasId(n) /\ Copied(Kids(This) \ {n})
  /\ todo' = todo \ {This}
  /\ UNCHANGED <<record, parse, frames, tree, pc, cur, buf>>

(* A league with the "Tournaments" t: an array is allocated, and a         *)
(* structure for each, and both used as they come.  The same lookup in the *)
(* tournaments.  The array is never freed, nor are the structures when a   *)
(* statement of the league's own fails.                                    *)
SaveTournaments ==
  /\ pc = "save" /\ todo # {} /\ feed = "league"
  /\ \E n, t \in Kids(This) :
       /\ HasId(n) /\ Nameless(t)
       /\ tours' = tours \cup {t}
       /\ \/ /\ \A e \in Kids(t) : ~Nameless(e)
             /\ Copied((Kids(This) \ {n}) \cup UNION {Kids(e) : e \in Kids(t)})
             /\ heap' = heap \cup {"tournaments"}
             /\ UNCHANGED pc
          \/ /\ \E e \in Kids(t) : Nameless(e)
             /\ pc' = "aborted" /\ UNCHANGED <<heap, mishaps>>
          \/ /\ "malloc" \in Fault /\ mishaps' = mishaps \cup {"record"}
             /\ pc' = "aborted" /\ UNCHANGED heap
  /\ todo' = todo \ {This}
  /\ UNCHANGED <<feed, unfit, parse, frames, tree, cur, buf>>

(* What a string overwrites behind its field may end the process.          *)
Overwritten ==
  /\ pc = "save" /\ "long" \in mishaps
  /\ pc' = "aborted"
  /\ UNCHANGED <<record, parse, frames, tree, todo, cur, buf, mishaps>>

(* print: the buffer is allocated, or nothing is printed.                  *)
PrintBuffer ==
  \/ buf' = [NoBuf EXCEPT !.len = BufInit] /\ pc' = "print" /\ UNCHANGED mishaps
  \/ /\ "malloc" \in Fault /\ mishaps' = mishaps \cup {"library"}
     /\ buf' = NoBuf /\ pc' = "unprinted"

(* A market: the copy of its name is allocated, and used as it comes.  Its *)
(* odds, any value, are printed; when there are none, nothing is.          *)
SaveMarket ==
  /\ pc = "save" /\ todo # {} /\ feed = "market"
  /\ \E n \in Kids(This) :
       /\ HasId(n)
       /\ \/ /\ heap' = heap \cup {"name"}
             /\ \/ \E o \in Kids(This) \ {n} : cur' = o /\ PrintBuffer
                \/ pc' = "unprinted" /\ UNCHANGED <<cur, buf, mishaps>>
          \/ /\ "malloc" \in Fault /\ mishaps' = mishaps \cup {"record"}
             /\ pc' = "aborted" /\ UNCHANGED <<heap, cur, buf>>
  /\ todo' = todo \ {This}
  /\ UNCHANGED <<feed, unfit, tours, parse, frames, tree>>

(* update_or_create_market_for_mysql: free_market, whatever the statements *)
(* came to.                                                                *)
FreeMarket ==
  /\ pc = "record"
  /\ heap' = heap \ {"name", "odds"}
  /\ pc' = "save"
  /\ UNCHANGED <<feed, unfit, tours, parse, frames, tree, todo, cur, buf, mishaps>>

(* end: cJSON_Delete(json).  Freeing an item a second time is the end.     *)
DeleteAll ==
  /\ pc = "save" /\ todo = {}
  /\ live' = {}
  /\ pc' = IF Deleted(1) \subseteq live THEN "done" ELSE "aborted"
  /\ UNCHANGED <<record, parse, frames, items, todo, cur, buf, mishaps>>

Use ==
  \/ SaveAll \/ LookUpInArray \/ NoId \/ SaveFields \/ SaveTournaments
  \/ Overwritten \/ SaveMarket \/ FreeMarket \/ DeleteAll

-----------------------------------------------------------------------------
(* cJSON_PrintUnformatted.  off counts the bytes of out; pend is what was  *)
(* written behind them, a zero at its end, and is not counted yet.         *)

(* Variant: the buffer grows to what was asked for, not from the offset on.*)
EnsureFromStart(n) ==
  IF n + 1 <= buf.len THEN {buf.len}
  ELSE {2 * (n + 1)} \cup (IF "malloc" \in Fault THEN {0} ELSE {})

(* ensure: the size of the buffer after it, 0 when there is no buffer.     *)
Ensure(n) ==
  IF buf.off >= buf.len THEN {0}
  ELSE IF buf.off + n + 1 <= buf.len THEN {buf.len}
  ELSE {2 * (buf.off + n + 1)} \cup (IF "malloc" \in Fault THEN {0} ELSE {})

(* Variant: what was written last is not counted.                          *)
UpdateOffsetNot(b) == b

(* update_offset: counts what was written behind the offset.               *)
UpdateOffset(b) ==
  [b EXCEPT !.out = @ \o b.pend, !.off = @ + b.bytes, !.pend = << >>, !.bytes = 0]

(* n bytes, the zero included, are written at the offset and are the token *)
(* x; the first count of them are counted at once.                         *)
Put(b, x, n, count) ==
  IF count > 0
  THEN [b EXCEPT !.out = Append(@, x), !.off = @ + count, !.pend = << >>, !.bytes = 0, !.top = b.off + n]
  ELSE [b EXCEPT !.pend = <<x>>, !.bytes = n - 1, !.top = b.off + n]

(* A piece is written, with room asked for, and print goes on at next; or  *)
(* there is no room, and ensure has freed the buffer.                      *)
Piece(asked, x, n, count, next) ==
  \E l \in Ensure(asked) :
    IF l = 0
    THEN buf' = NoBuf /\ pc' = "unprinted" /\ mishaps' = mishaps \cup {"library"}
    ELSE buf' = Put([buf EXCEPT !.len = l], x, n, count) /\ pc' = next /\ UNCHANGED mishaps

walk == <<record, parse, tree, todo>>

(* print_value: null, false, true ...                                      *)
PrintWord ==
  /\ pc = "print" /\ items[cur].type = "word"
  /\ \E n \in 5 .. 6 : Piece(n, "word", n, 0, "printed")
  /\ UNCHANGED <<walk, frames, cur>>

(* ... a number, null when it is out of range ...                          *)
PrintNumber ==
  /\ pc = "print"
  /\ \/ items[cur].type = "num" /\ \E n \in 1 .. 2 : Piece(n + 1, "num", n + 1, n, "printed")
     \/ items[cur].type = "inf" /\ Piece(5, "word", 5, 4, "printed")
  /\ UNCHANGED <<walk, frames, cur>>

(* ... a string, quoted and escaped.                                       *)
PrintString ==
  /\ pc = "print" /\ items[cur].type = "str"
  /\ \E n \in 2 .. StrMax : Piece(n + 1, "str", n + 1, 0, "printed")
  /\ UNCHANGED <<walk, frames, cur>>

(* print_array, print_object: the opening bracket, without a zero.         *)
PrintOpen ==
  /\ pc = "print"
  /\ \/ items[cur].type = "array" /\ Piece(1, "[", 1, 1, "first")
     \/ items[cur].type = "object" /\ Piece(2, "{", 1, 1, "first")
  /\ frames' = Append(frames, cur)
  /\ UNCHANGED <<walk, cur>>

GoTo(i) ==
  /\ cur' = i
  /\ pc' = IF Kind = "array" THEN "print" ELSE "key"

PrintFirst ==
  /\ pc = "first"
  /\ LET kids == Kids(Last(frames)) IN
     IF kids = {} THEN pc' = "close" /\ UNCHANGED cur ELSE GoTo(Min(kids))
  /\ UNCHANGED <<walk, frames, buf, mishaps>>

(* print_object: the name, and the colon, without a zero behind it.        *)
PrintKey ==
  /\ pc = "key"
  /\ \E n \in 2 .. StrMax : Piece(n + 1, "str", n + 1, 0, "named")
  /\ UNCHANGED <<walk, frames, cur>>

PrintColon ==
  /\ pc = "assign"
  /\ Piece(1, ":", 1, 1, "print")
  /\ UNCHANGED <<walk, frames, cur>>

(* update_offset, behind a name and behind a value.                        *)
Count ==
  /\ pc \in {"named", "printed"}
  /\ buf' = UpdateOffset(buf)
  /\ pc' = CASE pc = "named" -> "assign"
             [] pc = "printed" /\ frames # << >> -> "next"
             [] OTHER -> "odds"
  /\ UNCHANGED <<walk, frames, cur, mishaps>>

(* A comma when another element follows; print_object puts a zero if not.  *)
PrintNext ==
  /\ pc = "next" /\ Siblings(cur) # {}
  /\ \E l \in Ensure(2) :
       IF l = 0
       THEN buf' = NoBuf /\ pc' = "unprinted" /\ mishaps' = mishaps \cup {"library"} /\ UNCHANGED cur
       ELSE /\ buf' = Put([buf EXCEPT !.len = l], ",", 2, 1)
            /\ GoTo(Min(Siblings(cur))) /\ UNCHANGED mishaps
  /\ UNCHANGED <<walk, frames>>

PrintLast ==
  /\ pc = "next" /\ Siblings(cur) = {}
  /\ IF Kind = "array" THEN pc' = "close" /\ UNCHANGED <<buf, mishaps>>
     ELSE \E l \in Ensure(1) :
       IF l = 0 THEN buf' = NoBuf /\ pc' = "unprinted" /\ mishaps' = mishaps \cup {"library"}
       ELSE buf' = [buf EXCEPT !.len = l, !.top = buf.off + 1] /\ pc' = "close" /\ UNCHANGED mishaps
  /\ UNCHANGED <<walk, frames, cur>>

(* The closing bracket: the container is the value printed.                *)
PrintClose ==
  /\ pc = "close"
  /\ Piece(2, Closing[Kind], 2, 0, "printed")
  /\ cur' = Last(frames)
  /\ frames' = Front(frames)
  /\ UNCHANGED walk

(* print: the buffer is cut to the text.  It has been given away before,   *)
(* so where that fails it is lost.                                         *)
Printed ==
  /\ pc = "odds"
  /\ \/ buf' = [buf EXCEPT !.len = buf.off + 1] /\ pc' = "text" /\ UNCHANGED <<heap, mishaps>>
     \/ /\ "malloc" \in Fault /\ mishaps' = mishaps \cup {"shrink"}
        /\ heap' = heap \cup {"buffer"}
        /\ buf' = NoBuf /\ pc' = "unprinted"
  /\ UNCHANGED <<feed, unfit, tours, parse, tree, todo, frames, cur>>

(* Variant: where there is no text it is tried again.                      *)
CopyOddsRetry ==
  /\ pc \in {"text", "unprinted"}
  /\ frames' = << >>
  /\ IF pc = "text" \/ cur = 0
     THEN buf' = NoBuf /\ heap' = heap \cup {"odds"} /\ cur' = 0 /\ pc' = "record"
     ELSE /\ buf' = [NoBuf EXCEPT !.len = BufInit] /\ cur' = Head(frames \o <<cur>>)
          /\ pc' = "print" /\ UNCHANGED heap
  /\ UNCHANGED <<feed, unfit, tours, parse, tree, todo, mishaps>>

(* parse_market_json: the text is copied and freed, or "" taken where      *)
(* there is none.  The copy is allocated, and used as it comes.            *)
CopyOdds ==
  /\ pc \in {"text", "unprinted"}
  /\ \/ heap' = heap \cup {"odds"} /\ pc' = "record" /\ UNCHANGED mishaps
     \/ /\ "malloc" \in Fault /\ mishaps' = mishaps \cup {"record"}
        /\ pc' = "aborted" /\ UNCHANGED heap
  /\ buf' = NoBuf
  /\ frames' = << >> /\ cur' = 0
  /\ UNCHANGED <<feed, unfit, tours, parse, tree, todo>>

PrintOdds ==
  \/ PrintWord \/ PrintNumber \/ PrintString
  \/ PrintOpen \/ PrintFirst \/ PrintKey \/ PrintColon
  \/ Count \/ PrintNext \/ PrintLast \/ PrintClose \/ Printed \/ CopyOdds

-----------------------------------------------------------------------------

Next == Parse \/ Use \/ PrintOdds

Spec == Init /\ [][Next]_vars

(* The thread that saves the file runs.                                    *)
FairSpec == Spec /\ WF_vars(Next)

-----------------------------------------------------------------------------
(* Properties.                                                             *)

TypeOK ==
  /\ feed \in {"any", "league", "market", "match"}
  /\ text \in Seq(Token) /\ room \in Nat
  /\ offset \in 0 .. Len(text)
  /\ depth \in 0 .. NestLimit
  /\ frames \in Seq(DOMAIN items)
  /\ items \in Seq([type : Scalar \cup {"array", "object", "none"},
                    parent : Nat, from : Nat, to : Nat])
  /\ \A k \in DOMAIN items : items[k].parent < k
  /\ live \subseteq DOMAIN items /\ todo \subseteq DOMAIN items
  /\ after \in {"value", "opened", "name", "colon", "more"}
  /\ cur \in 0 .. Len(items)
  /\ heap \subseteq {"name", "odds", "buffer", "tournaments"}
  /\ unfit \subseteq DOMAIN items /\ tours \subseteq DOMAIN items
  /\ mishaps \subseteq {"library", "shrink", "record", "long"}

(* Nothing is read behind the terminating zero: after white space is       *)
(* skipped the offset is at a byte of the text, whatever the text.         *)
ReadsInside == Ended /\ pc \in Reading \ {"skip"} => offset < Len(text)

(* What cJSON_Parse accepts are the texts that begin with JSON, nested no  *)
(* deeper than the limit - so a file that was cut off in the middle is     *)
(* refused, and a whole one is not.  (Compared up to TextMax tokens.)      *)
AcceptsJson ==
  /\ pc = "accepted" /\ offset <= TextMax => Taken(text, offset) \in JsonText
  /\ pc = "rejected" /\ mishaps = {} =>
       /\ Plain(text) \notin JsonStart
       /\ Prefixes(Plain(text)) \cap JsonText = {}

(* The odds that are saved are the text they were parsed from, item by     *)
(* item in its order, but for white space and numbers out of range.        *)
OddsAreText == pc \in {"odds", "text"} => buf.out = Spelled(text, items[cur].from, items[cur].to)

(* The printer never writes behind its buffer, and when that is cut to the *)
(* text the terminating zero is still inside.                              *)
PrintFits == buf.top <= buf.len

(* However the saving of a file ends, but for an abort, every item, the    *)
(* printer's buffer and the strings of each market are freed.  Two things  *)
(* never are: the text of a market's odds that print could not cut, and    *)
(* the tournaments of a league.                                            *)
Lost ==
  {x \in {"buffer"} : "shrink" \in mishaps} \cup {x \in {"tournaments"} : tours # {}}
OnlyKnownLeaks ==
  /\ pc \in {"rejected", "done"} => live = {}
  /\ pc \in {"rejected", "save", "done"} => buf = NoBuf /\ heap = Lost

(* The process ends on every file that has an array with elements where a  *)
(* record or a tournament belongs, or a league with an "Id" that is        *)
(* neither number nor string, and where a record's own malloc fails; it    *)
(* may where a string is too long for its field.  Any other file - and     *)
(* whichever malloc of the library fails - is saved to its end.            *)
Unsavable ==
  \/ \E e \in Elements : Nameless(e)
  \/ \E t \in tours : \E e \in Kids(t) : Nameless(e)
  \/ feed = "league" /\ unfit # {}
  \/ "record" \in mishaps
AbortsOn ==
  /\ pc = "aborted" => Unsavable \/ "long" \in mishaps
  /\ pc = "done" => ~Unsavable

(* Parsing, walking and printing end for every text.                       *)
SavingEnds == <>(pc \in {"rejected", "done", "aborted"})

(* "Delete a cJSON entity and all subentities": what save_league_to_db has *)
(* deleted at any moment is one item and what is below it.                 *)
DeletesSubentities ==
  [][pc = "save" /\ live' # live => \E i \in DOMAIN items : live \ live' = Subtree(i) \cap live]_vars
-----------------------------------------------------------------------------
(* What makes them inductive.                                              *)

(* The zero is the last token.  Where an element is made the offset is at  *)
(* the bracket or the comma in front of it; behind an opening bracket one  *)
(* can step back.                                                          *)
ReadInv ==
  /\ text \in Seq(Token) /\ offset \in 0 .. Len(text)
  /\ \A i \in 1 .. Len(text) - 1 : text[i] # "end"
  /\ after \in {"value", "opened", "name", "colon", "more"}
  /\ pc = "start" => offset = 0
  /\ pc = "item" => offset < Len(text)
  /\ pc = "opened" => offset > 0
  /\ pc = "skip" /\ after = "opened" => offset > 0 /\ text[1] # "end"
  /\ ReadsInside

(* The printer's buffer and its counters: a value ends with a zero.        *)
PrintInv ==
  /\ DOMAIN buf = DOMAIN NoBuf
  /\ buf.len \in Nat /\ buf.off \in Nat /\ buf.bytes \in Nat
  /\ PrintFits
  /\ pc = "printed" => buf.top = buf.off + buf.bytes + 1
  /\ pc = "odds" => buf.top = buf.off + 1

(* Where the parser is, inside a container or not, and where the printer.  *)
Parsing == Reading \cup {"start", "item", "parsed", "accepted"}
Inside ==
  pc \in {"opened", "item", "name", "colon", "more"} \/ (pc = "skip" /\ after # "value")
Printing == {"print", "first", "key", "named", "assign", "printed", "next", "close", "odds", "text"}
Saving == Printing \cup {"save", "unprinted", "record"}

(* The root is the outermost container.  As long as nothing has failed     *)
(* every item is live; when the last container is left after a failure,    *)
(* only the root may be.                                                   *)
ParserInv ==
  /\ pc \in Parsing => depth = Len(frames) /\ live = DOMAIN items
  /\ Inside => frames # << >>
  /\ pc \in Parsing \cup {"fail"} /\ frames # << >> => frames[1] = 1
  /\ pc = "start" => items = << >> /\ frames = << >>
  /\ pc \in {"bom", "skip", "value"} /\ frames = << >> => Len(items) = 1
  /\ pc \notin {"start", "fail", "rejected"} => items # << >>
  /\ pc = "fail" /\ frames = << >> => live \subseteq {1}

(* What is saved is an element, and those behind the walk could be looked  *)
(* into.  Every item is live until save_league_to_db deletes an Id it      *)
(* cannot use.                                                             *)
WalkInv ==
  /\ pc \in Parsing => unfit = {} /\ tours = {}
  /\ pc \in Saving =>
       /\ todo \subseteq Elements
       /\ \A e \in Elements \ todo : ~Nameless(e)
       /\ \A t \in tours : \A e \in Kids(t) : ~Nameless(e)
       /\ feed = "league" => unfit \cap live = {}
       /\ live = DOMAIN items \/ (feed = "league" /\ unfit # {})
  /\ pc # "aborted" => "record" \notin mishaps

(* The printer has an item before it, and a container where it needs one.  *)
(* The strings of a market are allocated while it is saved.                *)
Strung ==
  CASE pc \in Printing \cup {"unprinted"} -> {"name"}
    [] pc = "record" -> {"name", "odds"}
    [] OTHER -> {}
HeapInv ==
  /\ pc \in Printing => cur # 0
  /\ pc \in {"first", "key", "named", "assign", "next", "close"} => frames # << >>
  /\ pc \notin Printing => buf = NoBuf
  /\ pc # "aborted" => heap = Lost \cup Strung

(* The reading of the text is part of it: TypeOK says where the offset is. *)
TreeInv ==
  ReadInv /\ TypeOK /\ ParserInv /\ WalkInv /\ HeapInv /\ OnlyKnownLeaks /\ AbortsOn

-----------------------------------------------------------------------------
(* What OddsAreText needs: where the items of the tree lie in the text.    *)

(* How many tokens the parser has behind it.                               *)
Pos ==
  CASE pc = "item" -> offset + 1
    [] pc = "skip" /\ ~Accessible /\ Ended -> offset - 1
    [] OTHER -> offset

Opening == [array |-> "[", object |-> "{"]
Container == DOMAIN Opening
First(t) == IF t \in Container THEN Opening[t] ELSE Shown(t)

(* In the container c of the items r, between the items of S and b, first  *)
(* stands in the text s when S is empty and more when it is not.           *)
Upto(s, r, S, c, b, first, more) ==
  /\ r[c].from < b
  /\ S = {} => Spelled(s, r[c].from + 1, b) = first
  /\ \A j \in S : (\A i \in S : i <= j) => r[j].to <= b /\ Spelled(s, r[j].to, b) = more

(* What stands in front of an item, behind the comma: in an object a name. *)
Lead(r, c) == IF r[c].type = "array" THEN << >> ELSE <<"str", ":">>
Below(r, c) == {i \in DOMAIN r : r[i].parent = c}
Elder(r, k) == {i \in Below(r, r[k].parent) : i < k}
Behind(s, r, k, b, lead) ==
  r[k].parent # 0 => Upto(s, r, Elder(r, k), r[k].parent, b, lead, <<",">> \o lead)

Begun(s, r, k) ==
  /\ r[k].from < Len(s)
  /\ Spelled(s, r[k].from, r[k].from + 1) = <<First(r[k].type)>>
  /\ Behind(s, r, k, r[k].from, Lead(r, r[k].parent))

Closed(s, r, c) ==
  LET close == <<Closing[r[c].type]>> IN Upto(s, r, Below(r, c), c, r[c].to, close, close)

Complete(s, r, k) ==
  /\ Begun(s, r, k) /\ r[k].to <= Len(s)
  /\ IF r[k].type \in Container THEN Closed(s, r, k) ELSE r[k].to = r[k].from + 1

(* The last item has been made, and its value not yet been met.            *)
Going == IF pc = "skip" THEN after ELSE pc
Pending(g) == g \in {"bom", "value", "name", "colon"}

(* The frames f are nested, the last item is in the innermost; all but     *)
(* they and a pending item are complete.  The parser is at p, and going on *)
(* with g.                                                                 *)
Nested(s, r, f, p, g) ==
  /\ p <= Len(s) /\ (s # << >> /\ Last(s) = "end" => p < Len(s))
  /\ \A k \in DOMAIN r : r[k].from <= p /\ r[k].to <= p
  /\ \A i \in DOMAIN f :
       /\ r[f[i]].type \in Container /\ Begun(s, r, f[i]) /\ r[f[i]].from < p
       /\ \A j \in DOMAIN f : i < j => f[i] < f[j]
       /\ \A k \in DOMAIN r : f[i] < k => f[i] <= r[k].parent
       /\ r[f[i]].parent = IF i = 1 THEN 0 ELSE f[i - 1]
  /\ \A k \in DOMAIN r :
       Complete(s, r, k) \/ (\E i \in DOMAIN f : f[i] = k) \/ (Pending(g) /\ k = Len(r))
  /\ Pending(g) =>
       /\ r[Len(r)].parent = IF f = << >> THEN 0 ELSE Last(f)
       /\ \A i \in DOMAIN f : f[i] < Len(r)

(* What is behind the parser in the container c.                           *)
Here(s, r, c, p, g) ==
  LET reached(first, more) == Upto(s, r, Below(r, c), c, p, first, more) IN
  /\ g # "bom"
  /\ g = "opened" => Below(r, c) = {} /\ reached(<< >>, << >>)
  /\ g = "item" => reached(<< >>, <<",">>)
  /\ g \in {"name", "colon"} => r[c].type = "object"
  /\ g = "name" => Behind(s, r, Len(r), p, << >>)
  /\ g = "colon" => Behind(s, r, Len(r), p, <<"str">>)
  /\ g = "value" => Behind(s, r, Len(r), p, Lead(r, c))
  /\ g \in {"parsed", "more"} => Below(r, c) # {} /\ reached(<< >>, << >>)

Laid(s, r, f, p, g) == Nested(s, r, f, p, g) /\ (f # << >> => Here(s, r, Last(f), p, g))

(* The odds, the item printed first; what has been written of them is the  *)
(* text up to where the printer is, and what is to come is behind it.      *)
Odds(f, k) == IF f = << >> THEN k ELSE f[1]

Quiet == {"print", "first", "key", "assign", "next", "close", "odds", "text"}

Written(s, r, f, k, out, pend, g) ==
  LET c == Last(f)
      upon(b, rest) == out \o rest = Spelled(s, r[Odds(f, k)].from, b)
  IN /\ out \in Seq(Token) /\ pend \in Seq(Token)
     /\ g \in Quiet => pend = << >>
     /\ g = "print" => upon(r[k].from, << >>)
     /\ g = "first" => upon(r[c].from + 1, << >>)
     /\ g \in {"key", "named"} => upon(r[k].from, <<"str", ":">>)
     /\ g = "named" => pend = <<"str">>
     /\ g = "assign" => upon(r[k].from, <<":">>)
     /\ g = "printed" => upon(r[k].to, pend)
     /\ g \in {"next", "odds", "text"} => upon(r[k].to, << >>)
     /\ g = "close" => upon(r[c].to, <<Closing[r[c].type]>>)

Stacked(r, f, k, g) ==
  /\ \A i \in DOMAIN f :
       /\ r[f[i]].type \in Container /\ r[Odds(f, k)].from <= r[f[i]].from
       /\ i > 1 => r[f[i]].parent = f[i - 1]
  /\ r[Odds(f, k)].from <= r[k].from
  /\ g \notin {"first", "close"} /\ f # << >> => k \in Below(r, Last(f))
  /\ g \in {"odds", "text"} => f = << >>

LayoutInv ==
  /\ pc \in Parsing \ {"start"} => Laid(text, items, frames, Pos, Going)
  /\ pc \in Saving \cup {"accepted"} => \A k \in DOMAIN items : Complete(text, items, k)
  /\ pc \in {"accepted", "save", "record"} => frames = << >>
  /\ pc \in Printing =>
       Stacked(items, frames, cur, pc) /\ Written(text, items, frames, cur, buf.out, buf.pend, pc)

OddsInv == TreeInv /\ PrintInv /\ LayoutInv
-----------------------------------------------------------------------------
(* What AcceptsJson needs: the parser is where the reader of JsonGrammar   *)
(* is behind the same tokens.                                              *)

(* What the parser takes next, going on with g in the frames f; "opened"   *)
(* is settled as soon as it has seen that no closing bracket follows.      *)
Awaited(r, f, g) ==
  CASE g = "bom" -> "value"
    [] g = "item" -> Begins[r[Last(f)].type]
    [] g \in {"parsed", "accepted"} -> IF f = << >> THEN "done" ELSE "more"
    [] OTHER -> g

(* The reader is in the state st behind the first p tokens of s.           *)
Agrees(st, s, r, f, p, g) ==
  /\ st.in = [i \in DOMAIN f |-> r[f[i]].type]
  /\ IF g = "opened" THEN st.at = g ELSE Expects(st) = Awaited(r, f, g)
  /\ st.at = "opened" /\ g # "opened" =>
       p < Len(s) /\ s[p + 1] \notin {"ws", Closing[r[Last(f)].type]}
  /\ p = 0 /\ g # "bom" => s # << >> /\ s[1] # "bom"

ReadAs(s, r, f, p, g) ==
  Shallow(Taken(s, p)) /\ Agrees(Final(Taken(s, p)), s, r, f, p, g)

ReaderInv ==
  /\ pc \in Parsing \ {"start"} => ReadAs(text, items, frames, Pos, Going)
  /\ pc = "bom" => offset = 0
  /\ pc \in Reading \ {"bom", "skip"} => Accessible /\ At # "ws"
  /\ pc \in {"fail", "rejected"} /\ mishaps = {} => Refused(Plain(text))
=============================================================================
