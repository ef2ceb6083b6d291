------------------------------ MODULE Strings ------------------------------
(***************************************************************************)
(* Strings: the values of t_string.c and bitops.c, how object.c encodes    *)
(* them and how util.c converts numbers.  A string is a sequence of bytes  *)
(* of W bits.  A value is an object of its own, raw or an integer, or one  *)
(* of the shared integers that several keys may have at once, so that a    *)
(* write in place would change them all.  Numerals have Base digits: byte  *)
(* 0 is NUL, 1..Base are the digits and Base + 1 is the minus sign.        *)
(***************************************************************************)
EXTENDS Integers, Sequences, FiniteSets

CONSTANTS W,          \* bits of a byte
          Word,       \* bytes of a long, so that a long has W * Word bits
          Unroll,     \* longs that BITOP handles at once
          PopAlign,   \* bytes of the words of redisPopcount
          PopBlock,   \* bytes it handles at once
          Base, SharedIntegers, MaxLength,
          Scenarios   \* [keys, db, cmds, vals, offsets, ints, fields, sources, targets, share, pure]

VARIABLE s

Bits == W * Word
ULong == 2 ^ Bits
LMax == 2 ^ (Bits - 1) - 1
LMin == -LMax - 1

Unsigned(v) == v % ULong
Signed(v) == IF Unsigned(v) > LMax THEN Unsigned(v) - ULong ELSE Unsigned(v)
Least(a, b) == IF a < b THEN a ELSE b
Most(a, b) == IF a > b THEN a ELSE b
From(q, i) == SubSeq(q, i, Len(q))

-----------------------------------------------------------------------------
(* util.c: numbers and their text. *)

IsDigit(c) == c \in 1..Base
Minus == Base + 1

\* ll2string: two digits at a time, from the end
RECURSIVE Pairs(_, _)
Pairs(v, tail) ==
  IF v >= Base * Base
  THEN Pairs(v \div (Base * Base), <<((v \div Base) % Base) + 1, (v % Base) + 1>> \o tail)
  ELSE IF v < Base THEN <<v + 1>> \o tail ELSE <<(v \div Base) + 1, (v % Base) + 1>> \o tail

LL2String(n) == IF n < 0 THEN <<Minus>> \o Pairs(-n, <<>>) ELSE Pairs(n, <<>>)

\* Mutated: the check before the multiplication is missing
DigitsUnchecked(b, i, v) ==
  LET RECURSIVE Go(_, _)
      Go(j, w) == IF j > Len(b) THEN w ELSE IF ~IsDigit(b[j]) THEN -1
                  ELSE IF (w * Base) % ULong > ULong - 1 - (b[j] - 1) THEN -1
                  ELSE Go(j + 1, ((w * Base) % ULong) + b[j] - 1)
  IN Go(i, v)

\* string2ll: the digits from i on, after the first; -1 is a failure
RECURSIVE Digits(_, _, _)
Digits(b, i, v) ==
  IF i > Len(b) THEN v
  ELSE IF ~IsDigit(b[i]) \/ v > (ULong - 1) \div Base THEN -1
  ELSE IF v * Base > ULong - 1 - (b[i] - 1) THEN -1
  ELSE Digits(b, i + 1, v * Base + b[i] - 1)

NotNumber == [ok |-> FALSE, val |-> 0]
Ranged(v, negative) ==
  IF v = -1 \/ v > IF negative THEN LMax + 1 ELSE LMax THEN NotNumber
  ELSE [ok |-> TRUE, val |-> IF negative THEN -v ELSE v]

StartingAt(b, i) ==
  IF i > Len(b) \/ b[i] \notin 2..Base THEN NotNumber
  ELSE Ranged(Digits(b, i + 1, b[i] - 1), i = 2)

String2ll(b) ==
  IF b = <<1>> THEN [ok |-> TRUE, val |-> 0]
  ELSE StartingAt(b, IF b # <<>> /\ b[1] = Minus THEN 2 ELSE 1)

-----------------------------------------------------------------------------
(* object.c and db.c: objects and the entries of the database. *)

Raw(b) == [enc |-> "raw", num |-> 0, bytes |-> b]
IntObject(n) == [enc |-> "int", num |-> n, bytes |-> <<>>]

Absent == [kind |-> "none", id |-> 0, obj |-> Raw(<<>>), ttl |-> FALSE]
Own(o) == [Absent EXCEPT !.kind = "own", !.obj = o]
Pooled(n) == [Absent EXCEPT !.kind = "pool", !.id = n]

IsString(e) == e.kind \in {"own", "pool"}
Object(e) == IF e.kind = "pool" THEN s.pool[e.id] ELSE e.obj
TextOf(o) == IF o.enc = "int" THEN LL2String(o.num) ELSE o.bytes
Text(e) == TextOf(Object(e))

\* createStringObjectFromLongLongForValue
FromLongLong(n) == IF s.sc.share /\ n \in 0..SharedIntegers - 1 THEN Pooled(n) ELSE Own(IntObject(n))

EncodeAs(b, p) == IF p.ok THEN FromLongLong(p.val) ELSE Own(Raw(b))
TryObjectEncoding(b) == EncodeAs(b, String2ll(b))

\* getLongLongFromObject; an absent key is 0
LongOf(e) == IF e.kind = "none" THEN [ok |-> TRUE, val |-> 0]
             ELSE IF Object(e).enc = "int" THEN [ok |-> TRUE, val |-> Object(e).num]
             ELSE String2ll(Object(e).bytes)

\* Mutated: an integer of its own is decoded, a shared one is used as it is
UnshareOwn(e) == IF e.kind = "own" THEN [e EXCEPT !.obj = Raw(Text(e))] ELSE e

\* dbUnshareStringValue: what is changed in place is raw and nobody else's
Unshare(e) == IF e.kind = "own" /\ e.obj.enc = "raw" THEN e
              ELSE [Own(Raw(Text(e))) EXCEPT !.ttl = e.ttl]

\* dbOverwrite keeps the expire, setKey removes it
Overwrite(e, new) == [new EXCEPT !.ttl = e.ttl]

\* sdsgrowzero
GrowZero(b, n) == b \o [i \in 1..Most(0, n - Len(b)) |-> 0]

-----------------------------------------------------------------------------
(* Commands.  Done stores the new entries and the objects of the pool, the  *)
(* keys signalled as modified, whether the reply is the one that strings    *)
(* require and, if the command is dirty, the strings of a replica.          *)

Content(e) == [kind |-> IF IsString(e) THEN "str" ELSE e.kind, ttl |-> e.ttl,
               of |-> IF IsString(e) THEN Text(e) ELSE <<>>]
Missing == [kind |-> "none", ttl |-> FALSE, of |-> <<>>]
Str(b, ttl) == [kind |-> "str", ttl |-> ttl, of |-> b]
Rep(k) == s.rep[k].of

Done(db, touched, dirty, rep, ok) ==
  s' = [s EXCEPT !.db = db, !.rep = IF dirty THEN rep ELSE @, !.ok = ok, !.floated = {k \in @ : db[k].ttl},
                 !.missed = {k \in s.sc.keys : Content(db[k]) # Content(s.db[k])} \ touched]

Refused(ok) == Done(s.db, {}, FALSE, s.rep, ok)
Enabled(cmd) == cmd \in s.sc.cmds

\* Changing the bytes of an entry in place: those of the object it points to
InPlace(k, e, b, rep, ok) ==
  s' = [s EXCEPT !.db[k] = IF e.kind = "own" THEN [e EXCEPT !.obj.bytes = b] ELSE e,
                 !.pool = IF e.kind = "pool" THEN [@ EXCEPT ![e.id] = Raw(b)] ELSE @,
                 !.rep[k] = rep, !.ok = ok, !.missed = {}]

\* setCommand, setnxCommand, setexCommand through setGenericCommand
Set == Enabled("set") /\ \E k \in s.sc.keys, b \in s.sc.vals, cond \in {"", "nx", "xx"}, ex \in s.sc.expires :
  IF (cond = "nx" /\ s.db[k].kind # "none") \/ (cond = "xx" /\ s.db[k].kind = "none")
  THEN Refused((cond = "nx") = (s.rep[k].kind # "none"))
  ELSE Done([s.db EXCEPT ![k] = [TryObjectEncoding(b) EXCEPT !.ttl = ex]], {k}, TRUE,
            [s.rep EXCEPT ![k] = Str(b, ex)], TRUE)

\* getsetCommand: GET, and nothing else if the key has another type
Getset == Enabled("getset") /\ \E k \in s.sc.keys, b \in s.sc.vals :
  IF s.db[k].kind = "other" THEN Refused(TRUE)
  ELSE Done([s.db EXCEPT ![k] = TryObjectEncoding(b)], {k}, TRUE,
            [s.rep EXCEPT ![k] = Str(b, FALSE)],
            IsString(s.db[k]) => Text(s.db[k]) = Rep(k))

\* msetGenericCommand with two pairs
Mset == Enabled("mset") /\ \E k, l \in s.sc.keys, b, c \in s.sc.vals, nx \in BOOLEAN :
  IF nx /\ \E x \in {k, l} : s.db[x].kind # "none"
  THEN Refused(\E x \in {k, l} : s.rep[x].kind # "none")
  ELSE Done([s.db EXCEPT ![k] = TryObjectEncoding(b), ![l] = TryObjectEncoding(c)], {k, l}, TRUE,
            [s.rep EXCEPT ![k] = Str(b, FALSE), ![l] = Str(c, FALSE)], TRUE)

\* Bytes written at an offset of a zero padded string
Overlay(b, off, v) == [i \in 1..Most(Len(b), off + Len(v)) |->
                         IF i > off /\ i <= off + Len(v) THEN v[i - off]
                         ELSE IF i <= Len(b) THEN b[i] ELSE 0]

\* setrangeCommand: sdsgrowzero, then memcpy
Setrange == Enabled("setrange") /\ \E k \in s.sc.keys, off \in s.sc.offsets, v \in s.sc.vals \cup {<<>>} :
  LET e == s.db[k]
      grown == GrowZero(IF IsString(e) THEN Text(e) ELSE <<>>, off + Len(v))
      new == SubSeq(grown, 1, off) \o v \o From(grown, off + Len(v) + 1)
  IN IF off < 0 \/ e.kind = "other" THEN Refused(TRUE)
     ELSE IF v = <<>> THEN Refused(IsString(e) => Len(Text(e)) = Len(Rep(k)))
     ELSE IF off + Len(v) > MaxLength THEN Refused(TRUE)
     ELSE InPlace(k, IF e.kind = "none" THEN Own(Raw(<<>>)) ELSE Unshare(e), new,
                  Str(<<>> \o Overlay(Rep(k), off, v), s.rep[k].ttl), Len(new) = Len(Overlay(Rep(k), off, v)))

\* appendCommand
Append_ == Enabled("append") /\ \E k \in s.sc.keys, v \in s.sc.vals :
  LET e == s.db[k]
  IN IF e.kind = "other" THEN Refused(TRUE)
     ELSE IF e.kind = "none"
     THEN Done([s.db EXCEPT ![k] = TryObjectEncoding(v)], {k}, TRUE, [s.rep EXCEPT ![k] = Str(v, FALSE)], TRUE)
     ELSE IF Len(Text(e)) + Len(v) > MaxLength THEN Refused(TRUE)
     ELSE InPlace(k, Unshare(e), Text(e) \o v, Str(Rep(k) \o v, s.rep[k].ttl), TRUE)

\* Mutated: only positive increments are checked
WouldOverflowUp(v, incr) == incr > 0 /\ v > 0 /\ incr > LMax - v

WouldOverflow(v, incr) == \/ incr < 0 /\ v < 0 /\ incr < LMin - v
                          \/ incr > 0 /\ v > 0 /\ incr > LMax - v

\* The text of the replica as a number, and the text of a number
Means(b, n) == b = LL2String(n)
Numeric(b) == \E n \in LMin..LMax : Means(b, n)

\* Mutated: an integer is incremented in place even if it is shared
InPlaceIncrAny(e, v) == e.kind # "none" /\ Object(e).enc = "int"

\* incrDecrCommand: the object is changed in place if it is this key's own and
\* its new value is not one of the shared integers
InPlaceIncr(e, v) == e.kind = "own" /\ e.obj.enc = "int" /\ v \notin 0..SharedIntegers - 1

Incremented(k, e, v, exact) ==
  IF InPlaceIncr(e, v)
  THEN s' = [s EXCEPT !.db[k].obj = IF e.kind = "own" THEN IntObject(v) ELSE @,
                      !.pool = IF e.kind = "pool" THEN [@ EXCEPT ![e.id] = IntObject(v)] ELSE @,
                      !.rep[k] = Str(LL2String(exact), s.rep[k].ttl), !.ok = TRUE, !.missed = {}]
  ELSE Done([s.db EXCEPT ![k] = Overwrite(e, FromLongLong(v))], {k}, TRUE,
            [s.rep EXCEPT ![k] = Str(LL2String(exact), @.ttl)], TRUE)

\* The value before, by definition: that of the replica's text
Before(k) == IF s.rep[k].kind = "none" THEN 0 ELSE CHOOSE n \in LMin..LMax : Means(Rep(k), n)

Incr == Enabled("incr") /\ \E k \in s.sc.keys, incr \in s.sc.ints :
  LET e == s.db[k]
      p == LongOf(e)
  IN IF e.kind = "other" THEN Refused(TRUE)
     ELSE IF ~p.ok THEN Refused(~Numeric(Rep(k)))
     ELSE IF WouldOverflow(p.val, incr) THEN Refused(Before(k) + incr \notin LMin..LMax)
     ELSE Incremented(k, e, Signed(p.val + incr), Before(k) + incr)

\* incrbyfloatCommand: floats here are whole numbers, infinite out of the range
\* of longs; it is propagated as a SET of the result, which removes the expire
\* that dbOverwrite keeps (s.floated, the keys this happened to)
Incrbyfloat == Enabled("incrbyfloat") /\ \E k \in s.sc.keys, incr \in s.sc.ints :
  LET e == s.db[k]
      p == LongOf(e)
      sum == p.val + incr
  IN IF e.kind = "other" THEN Refused(TRUE)
     ELSE IF ~p.ok \/ sum \notin LMin..LMax THEN Refused(~Numeric(Rep(k)) \/ Before(k) + incr \notin LMin..LMax)
     ELSE s' = [s EXCEPT !.db[k] = Overwrite(e, Own(Raw(LL2String(sum)))), !.ok = TRUE, !.missed = {},
                         !.rep[k] = Str(LL2String(Before(k) + incr), FALSE),
                         !.floated = IF e.ttl THEN @ \cup {k} ELSE @]

-----------------------------------------------------------------------------
(* bitops.c: bits are numbered from the most significant one of byte 0.     *)

BitAt(b, off) == (b[(off \div W) + 1] \div 2 ^ (W - 1 - (off % W))) % 2

\* One turn of setUnsignedBitfield: clears the bit, then sets it to v
PutBit(b, off, v) ==
  LET w == 2 ^ (W - 1 - (off % W))
  IN [b EXCEPT ![(off \div W) + 1] = @ - (((@ \div w) % 2) * w) + (v * w)]

\* setUnsignedBitfield, getUnsignedBitfield
RECURSIVE PutField(_, _, _, _), GetUnsigned(_, _, _, _)
PutField(b, off, bits, v) ==
  IF bits = 0 THEN b
  ELSE PutField(PutBit(b, off, (v \div 2 ^ (bits - 1)) % 2), off + 1, bits - 1, v)

GetUnsigned(b, off, bits, v) ==
  IF bits = 0 THEN v ELSE GetUnsigned(b, off + 1, bits - 1, (2 * v) + BitAt(b, off))

\* getSignedBitfield: the sign bit is propagated to the higher ones
SignExtend(u, bits) == IF (u \div 2 ^ (bits - 1)) % 2 = 1 THEN Signed(u + ULong - 2 ^ bits) ELSE u

GetField(b, off, f) == IF f.sign THEN SignExtend(GetUnsigned(b, off, f.bits, 0), f.bits)
                       ELSE GetUnsigned(b, off, f.bits, 0)

\* checkUnsignedBitfieldOverflow: the value to store, and whether it overflows
UnsignedOverflow(value, incr, bits, ow) ==
  LET max == 2 ^ bits - 1
      up == value > max \/ (incr > 0 /\ incr > Signed(max - value))
      down == ~up /\ incr < 0 /\ incr < Signed(-value)
  IN [over |-> up \/ down,
      val |-> IF ~up /\ ~down THEN Unsigned(value + incr)
              ELSE IF ow = "wrap" THEN Unsigned(value + incr) % 2 ^ bits
              ELSE IF up THEN max ELSE 0]

\* Mutated: the value itself is not compared with the limits
SignedOverflowSum(value, incr, bits, ow) ==
  LET max == 2 ^ (bits - 1) - 1
      min == -max - 1
      up == incr > 0 /\ incr > Signed(max - value)
      down == ~up /\ incr < 0 /\ incr < Signed(min - value)
      c == Unsigned(Unsigned(value) + Unsigned(incr))
  IN [over |-> up \/ down,
      val |-> IF ~up /\ ~down THEN Signed(value + incr)
              ELSE IF ow = "wrap" THEN SignExtend(c % 2 ^ bits, bits)
              ELSE IF up THEN max ELSE min]

\* checkSignedBitfieldOverflow
SignedOverflow(value, incr, bits, ow) ==
  LET max == 2 ^ (bits - 1) - 1
      min == -max - 1
      up == value > max \/ incr > Signed(max - value)
      down == ~up /\ (value < min \/ incr < Signed(min - value))
      c == Unsigned(Unsigned(value) + Unsigned(incr))
  IN [over |-> up \/ down,
      val |-> IF ~up /\ ~down THEN Signed(value + incr)
              ELSE IF ow = "wrap" THEN SignExtend(c % 2 ^ bits, bits)
              ELSE IF up THEN max ELSE min]

Checked(f, old) ==
  LET from == IF f.op = "incrby" THEN old ELSE f.arg
      incr == IF f.op = "incrby" THEN f.arg ELSE 0
  IN IF f.sign THEN SignedOverflow(from, incr, f.bits, f.ow)
     ELSE UnsignedOverflow(Unsigned(from), incr, f.bits, f.ow)

\* One SET or INCRBY of bitfieldCommand: the bytes after it and what is replied
Replied(f, old, r) == IF r.over /\ f.ow = "fail" THEN <<>>
                      ELSE <<IF f.op = "incrby" THEN r.val ELSE old>>
Written(b, f, old, r) ==
  [bytes |-> IF r.over /\ f.ow = "fail" THEN b ELSE PutField(b, f.off, f.bits, Unsigned(r.val)),
   reply |-> Replied(f, old, r)]

\* GET reads a window that is wide enough for the longest field at any offset
Window(b, byte) == [i \in 1..Word + 1 |-> IF byte + i <= Len(b) THEN b[byte + i] ELSE 0]

FieldOp(b, f) ==
  IF f.op = "get"
  THEN [bytes |-> b, reply |-> <<GetField(Window(b, f.off \div W), f.off % W, f)>>]
  ELSE Written(b, f, GetField(b, f.off, f), Checked(f, GetField(b, f.off, f)))

RECURSIVE FieldOps(_, _, _)
FieldOps(b, fs, replies) ==
  IF fs = <<>> THEN [bytes |-> b, reply |-> replies]
  ELSE LET r == FieldOp(b, fs[1]) IN FieldOps(r.bytes, Tail(fs), replies \o r.reply)

\* By definition: the field is the number its bits spell in the zero padded
\* string, and the result is the exact one brought into range
Spelled(b, f) ==
  LET u == GetUnsigned([i \in 1..Most(Len(b), ((f.off + f.bits) \div W) + 1) |-> IF i <= Len(b) THEN b[i] ELSE 0],
                       f.off, f.bits, 0)
  IN IF f.sign /\ u >= 2 ^ (f.bits - 1) THEN u - 2 ^ f.bits ELSE u
Lowest(f) == IF f.sign THEN -2 ^ (f.bits - 1) ELSE 0
Highest(f) == IF f.sign THEN 2 ^ (f.bits - 1) - 1 ELSE 2 ^ f.bits - 1
Wanted(f, old) == IF f.op = "incrby" THEN old + f.arg ELSE IF f.sign THEN f.arg ELSE Unsigned(f.arg)
Brought(f, x) ==
  IF x \in Lowest(f)..Highest(f) THEN <<x>>
  ELSE IF f.ow = "fail" THEN <<>>
  ELSE IF f.ow = "sat" THEN <<IF x < Lowest(f) THEN Lowest(f) ELSE Highest(f)>>
  ELSE <<Lowest(f) + ((x - Lowest(f)) % 2 ^ f.bits)>>

RECURSIVE ByteOf(_), ByteOp(_, _, _)
ByteOf(bits) == IF bits = <<>> THEN 0 ELSE (2 * ByteOf(SubSeq(bits, 1, Len(bits) - 1))) + bits[Len(bits)]
Placed(b, f, v) ==
  LET bit(p) == IF p \in f.off..f.off + f.bits - 1
                THEN ((v % 2 ^ f.bits) \div 2 ^ (f.off + f.bits - 1 - p)) % 2 ELSE BitAt(b, p)
  IN <<>> \o [i \in 1..Len(b) |-> ByteOf([j \in 1..W |-> bit(((i - 1) * W) + j - 1)])]

Exact(b, f) ==
  LET x == Brought(f, Wanted(f, Spelled(b, f)))
  IN IF f.op = "get" THEN [bytes |-> b, reply |-> <<Spelled(b, f)>>]
     ELSE IF x = <<>> THEN [bytes |-> b, reply |-> <<>>]
     ELSE [bytes |-> Placed(b, f, x[1]), reply |-> IF f.op = "incrby" THEN x ELSE <<Spelled(b, f)>>]

RECURSIVE ExactOps(_, _, _)
ExactOps(b, fs, replies) ==
  IF fs = <<>> THEN [bytes |-> b, reply |-> replies]
  ELSE LET r == Exact(b, fs[1]) IN ExactOps(r.bytes, Tail(fs), replies \o r.reply)

Writes(fs) == {i \in DOMAIN fs : fs[i].op # "get"}
LastBit(fs) == CHOOSE m \in {fs[i].off + fs[i].bits - 1 : i \in Writes(fs)} :
                 \A i \in Writes(fs) : m >= fs[i].off + fs[i].bits - 1

\* lookupStringForBitCommand
ForBits(e) == IF e.kind = "none" THEN Own(Raw(<<>>)) ELSE Unshare(e)
BytesFor(e, bit) == GrowZero(IF IsString(e) THEN Text(e) ELSE <<>>, (bit \div W) + 1)

\* bitfieldCommand
ReadFields(e, k, fs) ==
  Refused(FieldOps(IF IsString(e) THEN Text(e) ELSE <<>>, fs, <<>>).reply = ExactOps(Rep(k), fs, <<>>).reply)
WriteFields(e, k, r, x) == InPlace(k, ForBits(e), r.bytes, Str(x.bytes, s.rep[k].ttl), r.reply = x.reply)

Bitfield == Enabled("bitfield") /\ \E k \in s.sc.keys, fs \in s.sc.fields :
  IF s.db[k].kind = "other" THEN Refused(TRUE)
  ELSE IF Writes(fs) = {} THEN ReadFields(s.db[k], k, fs)
  ELSE WriteFields(s.db[k], k, FieldOps(BytesFor(s.db[k], LastBit(fs)), fs, <<>>),
                   ExactOps(GrowZero(Rep(k), (LastBit(fs) \div W) + 1), fs, <<>>))

\* setbitCommand
Setbit == Enabled("setbit") /\ \E k \in s.sc.keys, off \in s.sc.offsets, v \in {0, 1} :
  LET b == BytesFor(s.db[k], off)
      want == GrowZero(Rep(k), (off \div W) + 1)
  IN IF off < 0 \/ s.db[k].kind = "other" THEN Refused(TRUE)
     ELSE InPlace(k, ForBits(s.db[k]), PutBit(b, off, v),
                  Str(Placed(want, [off |-> off, bits |-> 1], v), s.rep[k].ttl), BitAt(b, off) = BitAt(want, off))

BitOp(op, x, y) == CASE op = "and" -> x * y [] op = "or" -> Most(x, y) [] op = "xor" -> (x + y) % 2
ByteOp(op, x, y) == IF x = 0 /\ y = 0 THEN 0
                    ELSE BitOp(op, x % 2, y % 2) + (2 * ByteOp(op, x \div 2, y \div 2))

\* bitopCommand: the length of the shortest source is 0 once a key is missing;
\* that many bytes are handled in blocks of longs, the others one by one, a
\* source that is too short counting as zeros
Block == Unroll * Word
MinLen(srcs) == IF \E i \in DOMAIN srcs : srcs[i] = <<>> THEN 0
                ELSE CHOOSE n \in {Len(srcs[i]) : i \in DOMAIN srcs} : \A i \in DOMAIN srcs : n <= Len(srcs[i])
MaxLen(srcs) == CHOOSE n \in {Len(srcs[i]) : i \in DOMAIN srcs} : \A i \in DOMAIN srcs : n >= Len(srcs[i])

\* Mutated: a source that is too short is left out
ByteOrZeroSkips(op, b, i) == IF i > Len(b) THEN IF op = "and" THEN 2 ^ W - 1 ELSE 0 ELSE b[i]

ByteOrZero(op, b, i) == IF i > Len(b) THEN 0 ELSE b[i]

RECURSIVE Folded(_, _, _, _)
Folded(op, srcs, i, fast) ==
  LET last == srcs[Len(srcs)]
      byte == IF fast THEN last[i] ELSE ByteOrZero(op, last, i)
  IN IF Len(srcs) = 1 THEN IF op = "not" THEN 2 ^ W - 1 - byte ELSE byte
     ELSE ByteOp(op, Folded(op, SubSeq(srcs, 1, Len(srcs) - 1), i, fast), byte)

BitopBytes(op, srcs, fast) == <<>> \o [i \in 1..MaxLen(srcs) |-> Folded(op, srcs, i, i <= fast)]

\* By definition, bit by bit
PaddedBit(b, p) == IF p >= Len(b) * W THEN 0 ELSE BitAt(b, p)
RECURSIVE FoldBits(_, _, _)
FoldBits(op, srcs, p) ==
  LET bit == PaddedBit(srcs[Len(srcs)], p)
  IN IF Len(srcs) = 1 THEN IF op = "not" THEN 1 - bit ELSE bit
     ELSE BitOp(op, FoldBits(op, SubSeq(srcs, 1, Len(srcs) - 1), p), bit)
BitopExact(op, srcs) ==
  <<>> \o [i \in 1..MaxLen(srcs) |-> ByteOf([j \in 1..W |-> FoldBits(op, srcs, ((i - 1) * W) + j - 1)])]

BitopStore(d, res, want) ==
  IF res # <<>> THEN Done([s.db EXCEPT ![d] = Own(Raw(res))], {d}, TRUE,
                          [s.rep EXCEPT ![d] = Str(want, FALSE)], Len(res) = Len(want))
  ELSE Done([s.db EXCEPT ![d] = Absent], {d}, TRUE, [s.rep EXCEPT ![d] = Missing], want = <<>>)

BitopOver(d, op, srcs, reps) ==
  BitopStore(d, BitopBytes(op, srcs, IF MinLen(srcs) >= Block THEN (MinLen(srcs) \div Block) * Block ELSE 0),
             BitopExact(op, reps))

Bitop == Enabled("bitop") /\ \E d \in s.sc.targets, op \in {"and", "or", "xor", "not"}, ks \in s.sc.sources :
  IF (op = "not" /\ Len(ks) # 1) \/ \E i \in DOMAIN ks : s.db[ks[i]].kind = "other" THEN Refused(TRUE)
  ELSE BitopOver(d, op, [i \in DOMAIN ks |-> IF IsString(s.db[ks[i]]) THEN Text(s.db[ks[i]]) ELSE <<>>],
                 [i \in DOMAIN ks |-> Rep(ks[i])])

\* redisPopcount of the bytes i..j at an address: up to an aligned one byte by
\* byte, then by blocks, then the tail
RECURSIVE OnesIn(_), Ones(_, _, _)
OnesIn(x) == IF x = 0 THEN 0 ELSE (x % 2) + OnesIn(x \div 2)
Ones(b, i, j) == IF i > j THEN 0 ELSE OnesIn(b[i]) + Ones(b, i + 1, j)

Popcount(b, address) ==
  LET head == Least((PopAlign - (address % PopAlign)) % PopAlign, Len(b))
      blocks == ((Len(b) - head) \div PopBlock) * PopBlock
  IN Ones(b, 1, head) + Ones(b, head + 1, head + blocks) + Ones(b, head + blocks + 1, Len(b))

\* redisBitpos: whole bytes up to an aligned address, whole words, then one word
\* that is padded with zeros
RECURSIVE SkipBytes(_, _, _, _), SkipWords(_, _, _)
SkipBytes(b, i, address, skip) ==
  IF i >= Len(b) \/ (address + i) % Word = 0 THEN [at |-> i, found |-> FALSE]
  ELSE IF b[i + 1] # skip THEN [at |-> i, found |-> TRUE]
  ELSE SkipBytes(b, i + 1, address, skip)

SkipWords(b, i, skip) == IF Len(b) - i >= Word /\ \A j \in 1..Word : b[i + j] = skip
                         THEN SkipWords(b, i + Word, skip) ELSE i

InWord(b, i, bit) ==
  LET hits == {p \in 0..Bits - 1 : PaddedBit(From(b, i + 1), p) = bit}
  IN IF bit = 1 /\ hits = {} THEN -1 ELSE (i * W) + CHOOSE p \in hits : \A q \in hits : p <= q

Bitpos(b, address, bit) ==
  LET skip == IF bit = 1 THEN 0 ELSE 2 ^ W - 1
      start == SkipBytes(b, 0, address, skip)
  IN InWord(b, IF start.found THEN start.at ELSE SkipWords(b, start.at, skip), bit)

\* bitposCommand on bytes first..last (from 0) of a string
BitposIn(b, first, last, given, bit, address) ==
  LET pos == Bitpos(SubSeq(b, first + 1, last + 1), address + first, bit)
  IN IF first > last \/ (given /\ bit = 0 /\ pos = (last - first + 1) * W) THEN -1
     ELSE IF pos = -1 THEN -1 ELSE pos + (first * W)

\* sdigits10
RECURSIVE Digits10(_)
Digits10(v) == IF v < Base THEN 1 ELSE 1 + Digits10(v \div Base)
Sdigits10(n) == IF n < 0 THEN Digits10(-n) + 1 ELSE Digits10(n)

-----------------------------------------------------------------------------
Init == \E sc \in Scenarios :
  s = [sc |-> sc, db |-> sc.db, pool |-> [n \in 0..SharedIntegers - 1 |-> IntObject(n)],
       rep |-> [k \in sc.keys |->
                  [kind |-> IF IsString(sc.db[k]) THEN "str" ELSE sc.db[k].kind, ttl |-> sc.db[k].ttl,
                   of |-> TextOf(sc.db[k].obj)]],
       ok |-> TRUE, missed |-> {}, floated |-> {}]

Next == \/ Set \/ Getset \/ Mset \/ Setrange \/ Append_ \/ Incr \/ Incrbyfloat
        \/ Bitfield \/ Setbit \/ Bitop

Spec == Init /\ [][Next]_s

-----------------------------------------------------------------------------
\* A replica that runs what is propagated has the strings and the expires of
\* the master, whichever objects and encodings they have had: a change in place
\* of a shared integer would show in another key (dbUnshareStringValue,
\* incrDecrCommand, lookupStringForBitCommand).  Not the expires of INCRBYFLOAT: a
\* key with one that it was applied to has none on the replica until both are
\* given one or lose it (incrbyfloatCommand).
ReplicaAgrees ==
  \A k \in s.sc.keys : \/ Content(s.db[k]) = s.rep[k]
                       \/ k \in s.floated /\ Content(s.db[k]) = [s.rep[k] EXCEPT !.ttl = TRUE]

\* The shared integers are the integers (shared.integers, which no command may
\* change).
SharedIntact == \A n \in 0..SharedIntegers - 1 : s.pool[n] = IntObject(n)

\* Replies are those of the strings, numbers and bit fields that the arguments
\* mean, and every change is signalled (bitfieldCommand, incrDecrCommand,
\* bitopCommand).
RepliesExact == s.ok /\ s.missed = {}

\* A text is taken for a number exactly if it is the number's own text, and the
\* length of an integer's text is computed without making it (string2ll,
\* ll2string, sdigits10).
NumbersExact ==
  s.sc.pure => /\ \A n \in LMin..LMax : /\ String2ll(LL2String(n)) = [ok |-> TRUE, val |-> n]
                                        /\ Sdigits10(n) = Len(LL2String(n))
               /\ \A b \in s.sc.texts : String2ll(b).ok <=> Numeric(b)

\* Counting and searching bits by words gives what counting and searching them
\* one by one gives, at any alignment (redisPopcount, redisBitpos).
SearchExact ==
  s.sc.pure => \A b \in s.sc.patterns, address \in 0..Word - 1 :
    /\ Popcount(b, address) = Cardinality({p \in 0..(Len(b) * W) - 1 : BitAt(b, p) = 1})
    /\ \A bit \in {0, 1}, first \in 0..1, given \in BOOLEAN :
         LET hits == {p \in first * W..(Len(b) * W) - 1 : BitAt(b, p) = bit}
         IN first < Len(b) =>
              BitposIn(b, first, Len(b) - 1, given, bit, address) =
                IF hits # {} THEN CHOOSE p \in hits : \A q \in hits : p <= q
                ELSE IF bit = 0 /\ ~given THEN Len(b) * W ELSE -1

\* Overflow is detected and handled as with unbounded integers, for every value,
\* increment and width below that of a long, but for values so small that their
\* distance to the limit does not fit a long (checkSignedBitfieldOverflow,
\* checkUnsignedBitfieldOverflow).
OverflowExact ==
  s.sc.pure => \A sign \in BOOLEAN, bits \in 1..Bits - 1, ow \in {"wrap", "sat", "fail"}, op \in {"set", "incrby"} :
    LET f == [sign |-> sign, bits |-> bits, ow |-> ow, op |-> op, off |-> 0, arg |-> 0]
    IN \A arg \in LMin..LMax, old \in IF op = "set" THEN {0} ELSE Lowest(f)..Highest(f) :
         LET r == Checked([f EXCEPT !.arg = arg], old)
             x == Brought(f, Wanted([f EXCEPT !.arg = arg], old))
         IN \/ sign /\ arg < Highest(f) - LMax
            \/ IF ow = "fail" THEN r.over <=> x = <<>> ELSE r.val = x[1]
=============================================================================
